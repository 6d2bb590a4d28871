------------------------------- MODULE MCPages -------------------------------
(* What a user of the pages has: a console for each VM, and an account.     *)
(* Three VMs: the names vm12 and vm21 have one character sum and so one     *)
(* first port, the name vm11 another.  The two modules share no state; a    *)
(* behaviour belongs to one of them, named by part.                         *)
EXTENDS ConsoleProxy, TLC

CONSTANTS vm11, vm12, vm21, Users, EnvUser, NoUser

VARIABLES part, role, active, request

CharacterSums == (vm11 :> 325) @@ (vm12 :> 326) @@ (vm21 :> 326)

A == INSTANCE UserAccounts WITH th <- request

ASSUME InstanceAssumption == A!ConstantsAssumption

accountVars == <<role, active, request>>

PagesInit == part \in {"consoles", "accounts"} /\ Init /\ A!Init

PagesNext ==
    \/ part = "consoles" /\ Next /\ UNCHANGED <<part, accountVars>>
    \/ part = "accounts" /\ A!Next /\ UNCHANGED <<part, vars>>

PagesSpec == PagesInit /\ [][PagesNext]_<<part, vars, accountVars>>

Symmetric ==
    Permutations(Pids) \cup Permutations(VncPorts) \cup Permutations({vm12, vm21})

-----------------------------------------------------------------------------
(* The properties of consoles are ConsoleProxy's own.                       *)

(* Both parts' variables are in range.                                      *)
TypesOK == TypeOK /\ A!TypeOK

(* There always is an active administrator.                                 *)
AdminRemains == A!AdminRemains
=============================================================================
