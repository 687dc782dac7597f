---------------------------- MODULE OnceCommand ----------------------------
(***************************************************************************)
(* What a caller is promised about one routed command, without servers,    *)
(* documents or hops: the command is opened, it may be carried out, and it *)
(* is closed with an outcome.                                              *)
(*   - It is carried out at most Limit times, and only after it was opened.*)
(*   - It is closed with "ok" only after it was carried out.               *)
(*   - Every outcome that is not Doubtful is certain: a refused command was*)
(*     not and never will be carried out, and one that is acknowledged will*)
(*     not be carried out again.                                           *)
(***************************************************************************)
EXTENDS Naturals

CONSTANTS
  Tasks,
  Limit,    (* a positive number                                            *)
  Doubtful  (* the outcomes that leave open whether the command was carried *)
            (* out, or will be                                              *)

VARIABLES phase, ran, result

vars == <<phase, ran, result>>

Outcomes == {"ok", "established", "transport", "cancelled", "wrongMachine",
             "catalog", "refused", "stale", "exists", "missing", "mismatch",
             "appError"}

Init ==
  /\ phase = [t \in Tasks |-> "idle"]
  /\ ran = [t \in Tasks |-> 0]
  /\ result = [t \in Tasks |-> "none"]

Open(t) ==
  /\ phase[t] = "idle"
  /\ phase' = [phase EXCEPT ![t] = "open"]
  /\ UNCHANGED <<ran, result>>

(* A call that needs no server is opened and closed at once.               *)
Answer(t) ==
  /\ phase[t] = "idle"
  /\ phase' = [phase EXCEPT ![t] = "closed"]
  /\ \E r \in {"established", "catalog"} : result' = [result EXCEPT ![t] = r]
  /\ UNCHANGED ran

Execute(t) ==
  /\ ran[t] < Limit
  /\ phase[t] = "open" \/ (phase[t] = "closed" /\ result[t] \in Doubtful)
  /\ ran' = [ran EXCEPT ![t] = @ + 1]
  /\ UNCHANGED <<phase, result>>

Close(t, r) ==
  /\ phase[t] = "open"
  /\ r = "ok" => ran[t] > 0
  /\ r \notin Doubtful \cup {"ok"} => ran[t] = 0
  /\ phase' = [phase EXCEPT ![t] = "closed"]
  /\ result' = [result EXCEPT ![t] = r]
  /\ UNCHANGED ran

Next == \E t \in Tasks : \/ Open(t)
                         \/ Answer(t)
                         \/ Execute(t)
                         \/ \E r \in Outcomes : Close(t, r)

Spec == Init /\ [][Next]_vars
=============================================================================
