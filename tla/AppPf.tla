---------------------------------- MODULE AppPf ----------------------------------
(***************************************************************************)
(* The application PFs of the cards as the processes of a host see them in *)
(* sysfs (fpga_pci_sysfs.c).  The kernel keeps the PCI ids it read when it *)
(* found the device; only a remove and a rescan make it read those of the  *)
(* image loaded since.  A removed device is gone for every process, and a  *)
(* rescan, by whichever process, brings all of them back.                  *)
(*                                                                         *)
(* walk[p] is the call process p is in: "spec" (fpga_pci_get_slot_spec),   *)
(* "all" (fpga_pci_get_all_slot_specs) or "rescan"                         *)
(* (fpga_pci_rescan_slot_app_pfs).  Every access to sysfs is a step and    *)
(* may fail.  A call ends "done", "failed" because the device was not      *)
(* there, or "ioerror" because an access failed although it was.           *)
(*                                                                         *)
(* A driver may still be at its remove function when the write to the      *)
(* remove file has returned: a card of SlowCards then shows its old ids    *)
(* until the driver is done.  The mailbox PFs are never removed, so the    *)
(* scan that finds them, under its readdir lock, is no step of its own;    *)
(* nor is the look for a driver, whose outcome is only logged.             *)
(***************************************************************************)
EXTENDS Naturals

CONSTANTS Proc,        \* processes
          Cards,       \* slots that hold a card: 0 .. n - 1
          SlowCards,   \* those whose driver may take long to let go
          Images,      \* AFIs
          Cleared,     \* no AFI
          NoImage,     \* no load or clear under way
          Ids,         \* [Images \cup {Cleared} -> PCI ids]
          Absent,      \* no device
          MaxRetries   \* FPGA_CHECK_APP_PF_MAX_RETRIES

LastCard == CHOOSE m \in Cards : \A c \in Cards : c <= m

ASSUME AppPfAssumption ==
    /\ LastCard \in Nat /\ Cards = 0..LastCard /\ SlowCards \subseteq Cards
    /\ Cleared \notin Images /\ NoImage \notin Images \cup {Cleared}
    /\ \A i \in Images \cup {Cleared} : Ids[i] # Absent
    /\ MaxRetries \in Nat

VARIABLES image,   \* of each card: the image in it, the one under way
          node,    \* of each card: the device in sysfs, by the ids it shows
          leaving, \* the cards whose driver is at its remove function
          walk     \* of each process: the call it is in

sysVars == <<image, node, leaving, walk>>

NoWalk == [pc |-> "idle", goal |-> "none", slot |-> 0, tries |-> 0, ids |-> Absent]

SysInit ==
    /\ image = [c \in Cards |-> [cur |-> Cleared, next |-> NoImage]]
    /\ node = [c \in Cards |-> Ids[Cleared]] /\ leaving = {}
    /\ walk = [p \in Proc |-> NoWalk]

Enter(goal, slot) == [NoWalk EXCEPT !.pc = "exists", !.goal = goal, !.slot = slot]

Present(slot) == slot \in Cards /\ node[slot] # Absent

Step(p, from, to) == walk[p].pc = from /\ walk' = [walk EXCEPT ![p] = to]

\* An access to sysfs fails, and with it the call.
IoError(p, from) == /\ Step(p, from, [walk[p] EXCEPT !.pc = "ioerror"])
                    /\ UNCHANGED <<image, node, leaving>>

----------------------------------------------------------------------------
(* fpga_pci_check_app_pf_sysfs.                                            *)

\* It is there: go on, or, at the end of a rescan, return.
Exists(p) ==
    /\ Present(walk[p].slot)
    /\ Step(p, "exists", [walk[p] EXCEPT !.tries = 0,
                             !.pc = IF walk[p].goal = "check" THEN "done" ELSE "ids"])
    /\ UNCHANGED <<image, node, leaving>>

\* It is not: ask for a rescan, or give up.
Missing(p) ==
    /\ ~Present(walk[p].slot)
    /\ Step(p, "exists", [walk[p] EXCEPT
               !.pc = IF walk[p].tries >= MaxRetries THEN "failed" ELSE "again"])
    /\ UNCHANGED <<image, node, leaving>>

\* fpga_pci_rescan: what the kernel then has.
Rescanned == [c \in Cards |-> IF node[c] = Absent THEN Ids[image[c].cur] ELSE node[c]]

\* The rescan of a device that was missing, and the next look at it.
Recover_NoRescan(p) ==
    \/ /\ Step(p, "again", [walk[p] EXCEPT !.pc = "exists", !.tries = @ + 1])
       /\ UNCHANGED <<image, node, leaving>>
    \/ IoError(p, "again")
Recover_Forever(p) ==
    \/ /\ Step(p, "again", [walk[p] EXCEPT !.pc = "exists"])
       /\ node' = Rescanned /\ UNCHANGED <<image, leaving>>
    \/ IoError(p, "again")
Recover(p) ==
    \/ /\ Step(p, "again", [walk[p] EXCEPT !.pc = "exists", !.tries = @ + 1])
       /\ node' = Rescanned /\ UNCHANGED <<image, leaving>>
    \/ IoError(p, "again")

----------------------------------------------------------------------------
(* fpga_pci_mbox2app's second loop, and the rest of                        *)
(* fpga_pci_complete_slot_spec.                                            *)

\* fpga_pci_get_resource_map_ids, until it succeeds or has failed too often.
ReadIds(p) ==
    LET w == walk[p] IN
    /\ \/ /\ Present(w.slot)
          /\ Step(p, "ids", [w EXCEPT !.pc = "res", !.ids = node[w.slot]])
       \/ w.tries < MaxRetries /\ Step(p, "ids", [w EXCEPT !.tries = @ + 1])
       \/ /\ w.tries >= MaxRetries
          /\ Step(p, "ids", [w EXCEPT !.pc = IF Present(w.slot) THEN "ioerror" ELSE "failed"])
    /\ UNCHANGED <<image, node, leaving>>

\* The spec is complete: the next slot of fpga_pci_get_all_slot_specs, the
\* remove of a rescan, or the end.
SpecDone(w) ==
    IF w.goal = "all" /\ w.slot + 1 \in Cards THEN Enter("all", w.slot + 1)
    ELSE [w EXCEPT !.pc = IF w.goal = "rescan" THEN "remove" ELSE "done", !.tries = 0]

\* fpga_pci_get_resources: one attempt.
Resources(p) ==
    \/ /\ Step(p, "res", IF Present(walk[p].slot) THEN SpecDone(walk[p])
                         ELSE [walk[p] EXCEPT !.pc = "failed"])
       /\ UNCHANGED <<image, node, leaving>>
    \/ Present(walk[p].slot) /\ IoError(p, "res")

----------------------------------------------------------------------------
(* fpga_pci_rescan_slot_app_pfs, from the remove on.                       *)

\* fpga_pci_remove_app_pf: the file to write to is part of the device, which is
\* gone when the write returns unless its driver is slow.
RemovePf(p) ==
    LET c == walk[p].slot IN
    \/ /\ Step(p, "remove", [walk[p] EXCEPT !.pc = IF Present(c) THEN "rescan" ELSE "failed"])
       /\ \/ node' = [node EXCEPT ![c] = Absent] /\ leaving' = leaving \ {c}
          \/ c \in SlowCards /\ Present(c) /\ leaving' = leaving \cup {c} /\ UNCHANGED node
       /\ UNCHANGED image
    \/ Present(c) /\ IoError(p, "remove")

\* A slow driver is done at last.
Gone(c) ==
    /\ c \in leaving
    /\ node' = [node EXCEPT ![c] = Absent] /\ leaving' = leaving \ {c}
    /\ UNCHANGED <<image, walk>>

\* The rescan, and then fpga_pci_check_app_pf.  A rescan that fails leaves the
\* PF removed.
Rescan(p) ==
    \/ /\ Step(p, "rescan", Enter("check", walk[p].slot))
       /\ node' = Rescanned /\ UNCHANGED <<image, leaving>>
    \/ IoError(p, "rescan")

Walk(p) == \/ Exists(p) \/ Missing(p) \/ Recover(p) \/ ReadIds(p)
           \/ Resources(p) \/ RemovePf(p) \/ Rescan(p)

==================================================================================
