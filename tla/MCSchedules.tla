----------------------------- MODULE MCSchedules -----------------------------
(***************************************************************************)
(* Behaviours of four correct replicas given step by step: they are longer *)
(* than a search reaches.  A configuration chooses one.                    *)
(***************************************************************************)
EXTENDS MCHotStuff2

CONSTANT
  Schedule   \* the steps to take, in their order

VARIABLE
  done       \* how many of them have been taken

\* <<r, "timeout">>: r's timer fires; <<r, "run">>: r runs a goroutine;
\* <<r, type, view, from>>: r receives that message.

-----------------------------------------------------------------------------
(* Votes that arrive late take the leaders 1 and 2 back to views they had  *)
(* left (hotstuff2.go:505-506, 777), where they vote once more, for a      *)
(* branch that conflicts with the one they voted for in view 3.            *)

Backwards ==
  \* A in view 0, voted for by 1, 2 and 3
  << <<0, "run">>, <<0, "run">>,
     <<1, "PROPOSE", 0, 0>>, <<2, "PROPOSE", 0, 0>>, <<3, "PROPOSE", 0, 0>> >> \o
  \* B in view 1, voted for by 0, 2 and 3
  << <<0, "timeout">>, <<1, "timeout">>, <<2, "timeout">>, <<3, "timeout">>,
     <<1, "NEWVIEW", 1, 2>>, <<1, "NEWVIEW", 1, 3>>,
     <<0, "PROPOSE", 1, 1>>, <<2, "PROPOSE", 1, 1>>, <<3, "PROPOSE", 1, 1>> >> \o
  \* C in view 3, certified by 1, 2 and 3
  << <<1, "timeout">>, <<2, "timeout">>, <<3, "timeout">>,
     <<1, "timeout">>, <<2, "timeout">>, <<3, "timeout">>,
     <<3, "NEWVIEW", 3, 1>>, <<3, "NEWVIEW", 3, 2>>,
     <<1, "PROPOSE", 3, 3>>, <<2, "PROPOSE", 3, 3>>,
     <<3, "VOTE", 3, 1>>, <<3, "VOTE", 3, 2>> >> \o
  \* late votes certify B at 2, which goes back to view 2 and proposes B2 on B
  << <<2, "VOTE", 1, 0>>, <<2, "VOTE", 1, 3>>, <<2, "run">>, <<2, "run">>, <<2, "run">> >> \o
  \* late votes certify A at 1, which goes back to view 1
  << <<1, "VOTE", 0, 2>>, <<1, "VOTE", 0, 3>>, <<1, "run">> >> \o
  \* 0, 1 and 2 certify B2 in view 2: 2 commits B
  << <<1, "PROPOSE", 2, 2>>, <<0, "PROPOSE", 2, 2>>,
     <<2, "VOTE", 2, 0>>, <<2, "VOTE", 2, 1>> >> \o
  \* 0, 1 and 3 certify D on C in view 4: 0 commits C
  << <<0, "timeout">>, <<0, "PROPOSE", 3, 3>>, <<3, "timeout">>,
     <<0, "NEWVIEW", 4, 3>>, <<1, "NEWVIEW", 4, 3>>, <<0, "NEWVIEW", 4, 1>>,
     <<1, "PROPOSE", 4, 0>>, <<3, "PROPOSE", 4, 0>>,
     <<0, "VOTE", 4, 1>>, <<0, "VOTE", 4, 3>> >>

-----------------------------------------------------------------------------
(* No replica ever goes back.  The goroutine propose that Start began at 0 *)
(* (hotstuff2.go:129) reads the view when 0 leads again, in view 4.        *)

LateStart ==
  \* into view 2
  << <<0, "timeout">>, <<1, "timeout">>, <<2, "timeout">>, <<3, "timeout">>,
     <<0, "timeout">>, <<1, "timeout">>, <<2, "timeout">>, <<3, "timeout">> >> \o
  \* A in view 2, voted for by 0, 2 and 3, certified at 2
  << <<2, "NEWVIEW", 2, 1>>, <<2, "NEWVIEW", 2, 3>>,
     <<0, "PROPOSE", 2, 2>>, <<3, "PROPOSE", 2, 2>>,
     <<2, "VOTE", 2, 0>>, <<2, "VOTE", 2, 3>> >> \o
  << <<0, "timeout">>, <<1, "timeout">>, <<2, "timeout">>, <<3, "timeout">> >> \o
  \* B on A in view 3, voted for by 0, 2 and 3: 0 and 2 lock A, 3 does not
  << <<3, "NEWVIEW", 3, 1>>, <<3, "NEWVIEW", 3, 2>>,
     <<0, "PROPOSE", 3, 3>>, <<2, "PROPOSE", 3, 3>> >> \o
  << <<0, "timeout">>, <<1, "timeout">>, <<3, "timeout">> >> \o
  \* 0 proposes C without having asked, on the highest QC it has, none; itself
  \* locked on A it votes for C, and so do 1 and 3
  << <<0, "run">>, <<0, "run">>,
     <<1, "PROPOSE", 4, 0>>, <<3, "PROPOSE", 4, 0>>,
     <<0, "VOTE", 4, 1>>, <<0, "VOTE", 4, 3>> >> \o
  << <<0, "timeout">>, <<1, "timeout">>, <<3, "timeout">> >> \o
  \* D on C in view 5, certified at 1, which commits C
  << <<1, "NEWVIEW", 5, 3>>, <<1, "NEWVIEW", 5, 0>>,
     <<0, "PROPOSE", 5, 1>>, <<3, "PROPOSE", 5, 1>>,
     <<1, "VOTE", 5, 0>>, <<1, "VOTE", 5, 3>> >> \o
  \* the votes for B reach 3, which commits A
  << <<3, "VOTE", 3, 0>>, <<3, "VOTE", 3, 2>> >>

-----------------------------------------------------------------------------
Receive(r) ==
  \/ IgnoreProposal(r)
  \/ DeferProposal(r)
  \/ RejectProposal(r)
  \/ VoteForProposal(r)
  \/ ReceiveVote(r)
  \/ ReceiveNewView(r)

RunTask(r) == AdvanceViewWithQC(r) \/ StartPropose(r) \/ FinishPropose(r)

Take(step) ==
  LET r == step[1]
  IN  \/ step[2] = "timeout" /\ Timeout(r)
      \/ step[2] = "run" /\ RunTask(r)
      \/ /\ Len(step) = 4
         /\ Receive(r)
         /\ \E m \in Received(r, step[2]) :
              m.view = step[3] /\ m.from = step[4] /\ inbox'[r] = inbox[r] \ {m}

\* Every behaviour of it is one of Spec.
ScheduledSpec ==
  /\ Init /\ done = 0
  /\ [][/\ done < Len(Schedule)
        /\ Take(Schedule[done + 1])
        /\ done' = done + 1]_<<vars, done>>
==============================================================================
