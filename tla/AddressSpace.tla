---------------------------- MODULE AddressSpace ----------------------------
(***************************************************************************)
(* What vme.c offers: address spaces, each a partial function from the     *)
(* user's virtual pages to frames.  A space is created by protect, ended   *)
(* by unprotect and changed one page at a time by map; no space changes    *)
(* when another one does.  A copy by copyvm starts out empty: see Vme.     *)
(***************************************************************************)
CONSTANTS Spaces, VirtualPages, Frames

VARIABLES
    mapping,  \* the spaces in use: virtual page -> [frame, write]
    stopped

Translation == [frame : Frames, write : BOOLEAN]

Set(s, m) == mapping' = [t \in DOMAIN mapping \cup {s} |-> IF t = s THEN m ELSE mapping[t]]

Create(s) == s \notin DOMAIN mapping /\ Set(s, <<>>)

Destroy(s) ==
    /\ s \in DOMAIN mapping
    /\ mapping' = [t \in DOMAIN mapping \ {s} |-> mapping[t]]

Map(s, va, to) ==
    /\ s \in DOMAIN mapping
    /\ va \notin DOMAIN mapping[s]
    /\ Set(s, [v \in DOMAIN mapping[s] \cup {va} |->
                   IF v = va THEN to ELSE mapping[s][v]])

Unmap(s, va) ==
    /\ s \in DOMAIN mapping
    /\ va \in DOMAIN mapping[s]
    /\ Set(s, [v \in DOMAIN mapping[s] \ {va} |-> mapping[s][v]])

SpaceInit == mapping = <<>> /\ stopped = FALSE

SpaceNext ==
    /\ ~stopped
    /\ \/ /\ UNCHANGED stopped
          /\ \E s \in Spaces :
               \/ Create(s)
               \/ Destroy(s)
               \/ \E va \in VirtualPages :
                     Unmap(s, va) \/ \E to \in Translation : Map(s, va, to)
       \/ stopped' = TRUE /\ UNCHANGED mapping

SpaceSpec == SpaceInit /\ [][SpaceNext]_<<mapping, stopped>>

=============================================================================
