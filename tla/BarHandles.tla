------------------------------ MODULE BarHandles ------------------------------
(***************************************************************************)
(* What fpga_pci.h promises of attached BARs: a handle is the key to one    *)
(* resource from its attach to its detach, is given to nobody else in that *)
(* time, and every access through it reaches that resource.                *)
(***************************************************************************)
CONSTANTS Handles, Res, None

VARIABLES owner,   \* the resource a handle stands for
          seen     \* since then, the last access: its handle, the resource reached

Init == owner = [h \in Handles |-> None] /\ seen = None

Attach(h, r) == /\ owner[h] = None
                /\ owner' = [owner EXCEPT ![h] = r]
                /\ seen' = None

Detach(h) == /\ owner[h] # None
             /\ owner' = [owner EXCEPT ![h] = None]
             /\ seen' = None

Access(h) == /\ owner[h] # None
             /\ seen' = [by |-> h, res |-> owner[h]]
             /\ owner' = owner

Next == \E h \in Handles :
            (\E r \in Res : Attach(h, r)) \/ Detach(h) \/ Access(h)

Spec == Init /\ [][Next]_<<owner, seen>>
===============================================================================
