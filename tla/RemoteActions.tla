---------------------------- MODULE RemoteActions ----------------------------
(***************************************************************************)
(* Start, shutdown, reboot and power-off of a VM on another node: the page  *)
(* of this host looks the node up and posts the action to it with the       *)
(* node's token (main.py, node_client.py); the other host checks the token  *)
(* and calls libvirt (remote_vm_actions.py).  Requests and answers may be   *)
(* slow or lost, and this host waits ten seconds.  A click on the local     *)
(* node calls libvirt here.                                                 *)
(***************************************************************************)
EXTENDS Naturals

CONSTANTS
    Hosts, Self,    \* the hosts' addresses, and this host's own
    Nodes,          \* the ids of the registry
    Tokens, NoToken,
    Clicks, NoNode, NoHost

ConstantsAssumption == Self \in Hosts

VARIABLES
    nodes,    \* the registry: address, token and local flag of each id
    secret,   \* each host's own token
    click,    \* what the page has looked up, and what it has told the user
    message,  \* what is on its way: the request or its answer
    ran       \* on which hosts libvirt has carried the action out, in turn

vars == <<nodes, secret, click, message, ran>>

Record == [url : Hosts, token : Tokens \cup {NoToken}, local : BOOLEAN]
Fresh  == [pc |-> "idle", url |-> NoHost, token |-> NoToken]
Told   == {"done", "refused", "unanswered"}

(* Records, requests and answers are what the code makes of them; an answer *)
(* travels only to a click that was sent.                                   *)
TypeOK ==
    /\ nodes \in [Nodes -> Record \cup {NoNode}]
    /\ secret \in [Hosts -> Tokens]
    /\ click \in [Clicks -> [pc : {"idle", "local", "waiting"} \cup Told,
                             url : Hosts \cup {NoHost}, token : Tokens \cup {NoToken}]]
    /\ message \in [Clicks -> {"none", "request", "200", "400", "401"}]
    /\ \A c \in Clicks : message[c] # "none" => click[c].pc \in {"waiting", "unanswered"}
    /\ ran \in [Clicks -> [Hosts -> 0..2]]

Init ==
    /\ nodes = [n \in Nodes |-> NoNode]
    /\ secret \in [Hosts -> Tokens]
    /\ click = [c \in Clicks |-> Fresh]
    /\ message = [c \in Clicks |-> "none"]
    /\ ran = [c \in Clicks |-> [h \in Hosts |-> 0]]

-----------------------------------------------------------------------------
(* The registry, see NodeRegistry, and the hosts' tokens.                   *)

(* A record of this host's own address is local once AtlasVM has registered *)
(* it so; a form can enter that address before.                             *)
SaveNode(n, url, token, local) ==
    /\ local => url = Self
    /\ nodes[n] # NoNode => nodes[n].url = url
    /\ nodes' = [nodes EXCEPT ![n] =
         IF @ = NoNode THEN [url |-> url, token |-> token, local |-> local]
         ELSE IF token = NoToken THEN @ ELSE [@ EXCEPT !.token = token]]
    /\ UNCHANGED <<secret, click, message, ran>>

DeleteNode(n) ==
    /\ nodes[n] # NoNode
    /\ nodes' = [nodes EXCEPT ![n] = NoNode]
    /\ UNCHANGED <<secret, click, message, ran>>

(* get_node_token: another token in the environment or in the file.         *)
NewToken(h) ==
    /\ \E token \in Tokens \ {secret[h]} : secret' = [secret EXCEPT ![h] = token]
    /\ UNCHANGED <<nodes, click, message, ran>>

-----------------------------------------------------------------------------
Tell(c, told) == click' = [click EXCEPT ![c].pc = told]
Carry(c, h)   == ran' = [ran EXCEPT ![c][h] = @ + 1]

(* A mutant of Click: the action is posted to the local node as well.       *)
ClickBoth(c, n) ==
    /\ click[c].pc = "idle" /\ nodes[n] # NoNode
    /\ click' = [click EXCEPT ![c] =
           [pc |-> IF nodes[n].local THEN "local" ELSE "waiting",
            url |-> nodes[n].url, token |-> nodes[n].token]]
    /\ message' = [message EXCEPT ![c] = "request"]
    /\ UNCHANGED <<nodes, secret, ran>>

(* remote_vm_action: the node is looked up once.                            *)
Click(c, n) ==
    /\ click[c].pc = "idle"
    /\ IF nodes[n] = NoNode
       THEN Tell(c, "refused") /\ UNCHANGED message
       ELSE /\ click' = [click EXCEPT ![c] =
                 [pc |-> IF nodes[n].local THEN "local" ELSE "waiting",
                  url |-> nodes[n].url, token |-> nodes[n].token]]
            /\ message' = [message EXCEPT ![c] = IF nodes[n].local THEN @ ELSE "request"]
    /\ UNCHANGED <<nodes, secret, ran>>

(* An action that is none of the four is refused before anything is sent.   *)
Unsupported(c) ==
    /\ click[c].pc = "idle"
    /\ Tell(c, "refused")
    /\ UNCHANGED <<nodes, secret, message, ran>>

(* perform_local_vm_action: libvirt carries the action out, or raises.      *)
Local(c) ==
    /\ click[c].pc = "local"
    /\ \/ Carry(c, Self) /\ Tell(c, "done")
       \/ Tell(c, "refused") /\ UNCHANGED ran
    /\ UNCHANGED <<nodes, secret, message>>

(* api_node_vm_action on the other host, whether the caller still waits or  *)
(* not: the token first, then libvirt; an error of libvirt's is a 400.      *)
Serve(c) ==
    LET h == click[c].url IN
    /\ message[c] = "request"
    /\ \/ /\ click[c].token # secret[h]
          /\ message' = [message EXCEPT ![c] = "401"] /\ UNCHANGED ran
       \/ /\ click[c].token = secret[h]
          /\ \/ message' = [message EXCEPT ![c] = "200"] /\ Carry(c, h)
             \/ message' = [message EXCEPT ![c] = "400"] /\ UNCHANGED ran
    /\ UNCHANGED <<nodes, secret, click>>

(* The request or its answer is lost, or the other host dies with it.       *)
Lose(c) ==
    /\ message[c] # "none"
    /\ message' = [message EXCEPT ![c] = "none"]
    /\ UNCHANGED <<nodes, secret, click, ran>>

(* post_node_json: the answer arrives.                                      *)
Answer(c) ==
    /\ click[c].pc = "waiting" /\ message[c] \in {"200", "400", "401"}
    /\ Tell(c, IF message[c] = "200" THEN "done" ELSE "refused")
    /\ message' = [message EXCEPT ![c] = "none"]
    /\ UNCHANGED <<nodes, secret, ran>>

(* A mutant of GiveUp: what was not answered is sent again.                 *)
Retry(c) ==
    /\ click[c].pc = "waiting" /\ message[c] # "request"
    /\ message' = [message EXCEPT ![c] = "request"]
    /\ UNCHANGED <<nodes, secret, click, ran>>

(* post_node_json: no connection, or no answer in time.  Nothing is sent    *)
(* again, and what was sent stays on its way.                               *)
GiveUp(c) ==
    /\ click[c].pc = "waiting"
    /\ Tell(c, "unanswered")
    /\ UNCHANGED <<nodes, secret, message, ran>>

Next ==
    \/ \E n \in Nodes : \/ \E h \in Hosts, k \in Tokens \cup {NoToken}, local \in BOOLEAN :
                                SaveNode(n, h, k, local)
                        \/ DeleteNode(n)
    \/ \E h \in Hosts : NewToken(h)
    \/ \E c \in Clicks :
          \/ \E n \in Nodes : Click(c, n)
          \/ Unsupported(c) \/ Local(c)
          \/ Serve(c) \/ Lose(c) \/ Answer(c) \/ GiveUp(c)

Spec == Init /\ [][Next]_vars

-----------------------------------------------------------------------------
(* Properties.                                                              *)

(* What the page tells is so, and stays so: done, and libvirt has carried   *)
(* the action out on the host the click was for; refused, and it has not    *)
(* and will not.  Only of a click that got no answer nothing is known.      *)
AnswersTrue ==
    \A c \in Clicks :
       /\ click[c].pc = "done" => \E h \in {click[c].url, Self} : ran[c][h] > 0
       /\ click[c].pc = "refused" => \A h \in Hosts : ran[c][h] = 0

(* A click is carried out on one host at most and once at most, whether it  *)
(* is answered or not.                                                      *)
AtMostOnce ==
    \A c \in Clicks : \A g, h \in Hosts :
       ran[c][g] <= 1 /\ (ran[c][g] > 0 /\ ran[c][h] > 0 => g = h)

(* What the page tells of a remote action is so, and it happens once.       *)
RemoteRight == AnswersTrue /\ AtMostOnce
=============================================================================
