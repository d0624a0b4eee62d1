------------------------------ MODULE FifoLock ------------------------------
(***************************************************************************)
(* What createKeyedMutex promises: the critical sections of one key run    *)
(* one at a time, in the order they were asked for; keys never wait on     *)
(* each other.                                                             *)
(***************************************************************************)
CONSTANTS Tasks,  \* calls of run(key, fn)
          Locks,  \* the keys
          LockOf  \* [Tasks -> Locks]

VARIABLES phase,  \* "out", "waiting", "inside" or "left"
          ahead   \* the calls of its key that a call found already made

vars == <<phase, ahead>>

Init ==
  /\ phase = [t \in Tasks |-> "out"]
  /\ ahead = [t \in Tasks |-> {}]

Arrive(t) ==
  /\ phase[t] = "out"
  /\ phase' = [phase EXCEPT ![t] = "waiting"]
  /\ ahead' = [ahead EXCEPT ![t] =
                 {u \in Tasks : LockOf[u] = LockOf[t] /\ phase[u] # "out"}]

Enter(t) ==
  /\ phase[t] = "waiting"
  /\ \A u \in ahead[t] : phase[u] = "left"
  /\ phase' = [phase EXCEPT ![t] = "inside"]
  /\ UNCHANGED ahead

Leave(t) ==
  /\ phase[t] = "inside"
  /\ phase' = [phase EXCEPT ![t] = "left"]
  /\ UNCHANGED ahead

Next == \E t \in Tasks : Arrive(t) \/ Enter(t) \/ Leave(t)

Spec == Init /\ [][Next]_vars
=============================================================================
