---------------------------- MODULE UploadAttempt ----------------------------
(***************************************************************************)
(* What the guards of the domain promise about an upload attempt taken by  *)
(* itself (SongInstrumentUpload.processUpload and cancel, and the early    *)
(* returns of SongInstrumentUploadStatusUpdater): which status follows     *)
(* which.  COMPLETED and CANCELLED are final, a FAILED attempt may be      *)
(* confirmed again, and only an attempt that is being processed is         *)
(* answered.  An attempt whose answer was repeated may also be answered    *)
(* once more, and take an answer or a confirmation that was decided before *)
(* it had one; it still never waits for its file again.                    *)
(***************************************************************************)
CONSTANT Upload

VARIABLES
    status,
    repeated  \* attempts an answer of which may arrive twice

Moves == {<<"absent", "PENDING">>,
          <<"PENDING", "PROCESSING">>, <<"PENDING", "CANCELLED">>,
          <<"PROCESSING", "COMPLETED">>, <<"PROCESSING", "FAILED">>,
          <<"FAILED", "PROCESSING">>}

LateMoves == {<<"FAILED", "COMPLETED">>, <<"COMPLETED", "FAILED">>,
              <<"COMPLETED", "PROCESSING">>}

MovesOf(u) == Moves \cup (IF u \in repeated THEN LateMoves ELSE {})

Init ==
    /\ status = [u \in Upload |-> "absent"]
    /\ repeated = {}

\* One attempt moves at a time.
Move(u) ==
    /\ \E move \in MovesOf(u) :
          /\ status[u] = move[1]
          /\ status' = [status EXCEPT ![u] = move[2]]
    /\ UNCHANGED repeated

Repeat(u) ==
    /\ repeated' = repeated \cup {u}
    /\ UNCHANGED status

Next == \E u \in Upload : Move(u) \/ Repeat(u)

Spec == Init /\ [][Next]_<<status, repeated>>

=============================================================================
