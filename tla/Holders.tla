------------------------------ MODULE Holders ------------------------------
(***************************************************************************)
(* Well-behaved programs with a history of who was told it had a mutex:    *)
(* holder[l] is the process whose do_mutex_lock_acquire(l) returned last   *)
(* and that has not unlocked l, waited on a condition with it, or exited.  *)
(***************************************************************************)
EXTENDS Programs

VARIABLE holder

Follow(l) ==
    LET c == os.current_running
        locked == lock_status[l] = "LOCKED"
    IN CASE ~locked /\ lock_status'[l] = "LOCKED" -> c
         [] locked /\ lock_status'[l] = "UNLOCKED" /\ holder[l] = c -> NULL
         [] OTHER -> holder[l]

HolderInit == Init /\ holder = [l \in Locks |-> NULL]
HolderNext == GoodNext /\ holder' = [l \in Locks |-> Follow(l)]
HolderSpec == HolderInit /\ [][HolderNext]_<<vars, holder>>

\* Whoever was told that it has a mutex has it until it gives it up: no exit
\* or unlock of another process makes the mutex UNLOCKED in between
\* (test_kill.c: "I have acquired two mutex lock"; do_exit's loop over locks[]).
HolderKeepsLock == \A l \in Locks : holder[l] # NULL => lock_status[l] = "LOCKED"
===========================================================================
