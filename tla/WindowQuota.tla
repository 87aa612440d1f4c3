---------------------------- MODULE WindowQuota ----------------------------
(***************************************************************************)
(* What the rate limiter promises: each issuer of permissions, be it Redis *)
(* or the memory of one process, lets a key through at most Limit times in *)
(* a window, and only in windows that are current or have just ended.  An  *)
(* issuer that loses its memory is succeeded by a new one.                 *)
(***************************************************************************)
EXTENDS Naturals

CONSTANTS
    Issuers,        \* Redis and the processes of the backend
    Keys,           \* client address and route
    Limit,          \* requests per key and window
    MaxLife,        \* bound: how often an issuer may be succeeded
    MaxWindow       \* bound: the last window

Windows == 0..MaxWindow
Lives == 0..MaxLife
Permissions == Issuers \X Lives \X Keys \X Windows

VARIABLES
    now,            \* the current window
    life,           \* life[i]: how often issuer i has lost its memory
    admitted        \* admitted[<<i, l, k, w>>]: requests of k let through by life l of i for window w

Init ==
    /\ now = 0
    /\ life = [i \in Issuers |-> 0]
    /\ admitted = [p \in Permissions |-> 0]

Admit(i, k, w) ==
    /\ w \in {now, now - 1}
    /\ admitted[<<i, life[i], k, w>>] < Limit
    /\ admitted' = [admitted EXCEPT ![<<i, life[i], k, w>>] = @ + 1]
    /\ UNCHANGED <<now, life>>

Forget(i) ==
    /\ life[i] < MaxLife
    /\ life' = [life EXCEPT ![i] = @ + 1]
    /\ UNCHANGED <<now, admitted>>

Tick ==
    /\ now < MaxWindow
    /\ now' = now + 1
    /\ UNCHANGED <<life, admitted>>

Next ==
    \/ \E i \in Issuers, k \in Keys, w \in Windows : Admit(i, k, w)
    \/ \E i \in Issuers : Forget(i)
    \/ Tick

Spec == Init /\ [][Next]_<<now, life, admitted>>
=============================================================================
