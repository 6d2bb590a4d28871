------------------------------ MODULE MCBackups ------------------------------
(* Two kinds of behaviour: requests that overlap while the guest writes, and *)
(* one request at a time with lost disks and restarts.  A behaviour keeps to *)
(* its habit; all are behaviours of Backups.                                 *)
EXTENDS Backups

CONSTANTS t1, Few   \* the only request of "one"; the backups of "overlapping"

VARIABLE mode

ASSUME ModesAssumption == t1 \in Threads

Overlapping == \/ \E t \in Threads : Request(t) /\ clock' <= Few + 1
               \/ Power \/ GuestWrite

OneByOne == \/ Request(t1) \/ Power
            \/ \E k \in Slots : LoseDisk(k)
            \/ AtlasRestarts

ModeInit == mode \in {"overlapping", "one"} /\ Init

ModeNext == \/ mode = "overlapping" /\ Overlapping /\ UNCHANGED mode
            \/ mode = "one" /\ OneByOne /\ UNCHANGED mode

ModeSpec == ModeInit /\ [][ModeNext]_<<mode, vars>>

-----------------------------------------------------------------------------
(* The properties of Backups, each where it holds.                          *)

(* However requests overlap, restored VMs have disks of their own, and      *)
(* listed backups have their images.                                        *)
RestoresRight == mode = "overlapping" => RestoredApart /\ ListedWhole

(* One request at a time, retention keeps what is recent.                   *)
RetentionKeeps == [][mode = "one" => KeepsRecent]_vars
=============================================================================
