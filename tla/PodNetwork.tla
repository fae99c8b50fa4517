----------------------------- MODULE PodNetwork -----------------------------
(* The CNI plugin route-pods (tetracni/cmd/route-pods).  It joins the host to the   *)
(* network namespace of the node's pods with one pair of veths, shields the host     *)
(* with iptables rules in that namespace, and brings the pair up.  Every ADD of a     *)
(* pod does all of it again, over whatever earlier ADDs have left: the container      *)
(* runtime runs the ADDs of several pods at a time, every call to the kernel can      *)
(* fail, a plugin can be killed between any two of them, and a failed ADD is tried    *)
(* again.  Nothing is ever taken down: cmdDel does nothing.  The firewall is the one     *)
(* with iptables; a configuration can do without.                                      *)
EXTENDS Naturals, Sequences, SequencesExt

CONSTANTS
    Pods,       \* pods being added, each by a plugin process
    IPs,        \* the addresses of the host end, as the results of the pods say
    MaxFails    \* bound: failures and kills

ASSUME PodNetworkAssumption == Pods # {} /\ MaxFails \in Nat

Families == <<"v4", "v6">>
FamilySet == Range(Families)

\* What setUpIPTables appends, in this order: the jumps to the plugin's chain from
\* three chains, and the rules of that chain.
Rules == <<"INPUT", "OUTPUT", "FORWARD", "in", "related", "drop">>
RuleSet == Range(Rules)

VARIABLES
    veth,       \* "none", or where the other end is: "host" or "netns"
    master,     \* that end is a port of the bridge
    addrs,      \* the addresses of the host end
    chain,      \* per family: the chain exists
    rules,      \* per family: the rules in the order in which they were appended; copies
                \* of a rule, which match nothing that it does not, are left out
    up,         \* the ends that are up
    pc,         \* per pod: where its plugin is
    created,    \* ... setupVeth has made the pair: it does not try it again
    family,     \* ... the family setUpIPTables works at, 1 or 2
    rule,       \* ... the rule it works at
    fails

kernel == <<veth, master, addrs, chain, rules, up>>
vars == <<kernel, pc, created, family, rule, fails>>

\* Nothing is set up yet.
Clean ==
    /\ veth = "none" /\ master = FALSE /\ addrs = {}
    /\ chain = [f \in FamilySet |-> FALSE]
    /\ rules = [f \in FamilySet |-> << >>]
    /\ up = {}
    /\ created = [p \in Pods |-> FALSE]
    /\ family = [p \in Pods |-> 1]
    /\ rule = [p \in Pods |-> 1]
    /\ fails = 0

Init == Clean /\ pc = [p \in Pods |-> "idle"]

Goto(p, from, to) ==
    /\ pc[p] = from
    /\ pc' = [pc EXCEPT ![p] = to]
    /\ UNCHANGED fails
Looks(p) == UNCHANGED <<kernel, created, family, rule>>

\* cmdAdd begins, for the first time or after a failure.
cmdAdd(p) ==
    /\ Goto(p, "idle", "findHost")
    /\ created' = [created EXCEPT ![p] = FALSE]
    /\ family' = [family EXCEPT ![p] = 1]
    /\ rule' = [rule EXCEPT ![p] = 1]
    /\ UNCHANGED kernel

\* A call fails or the process is killed.
Fails(p) ==
    /\ pc[p] \notin {"idle", "done"} /\ fails < MaxFails
    /\ pc' = [pc EXCEPT ![p] = "idle"]
    /\ fails' = fails + 1
    /\ UNCHANGED <<kernel, created, family, rule>>

-----------------------------------------------------------------------------
(* setupVeth.  A pair that is not there is made, once. *)

Missing(p) == IF created[p] THEN "idle" ELSE "create"

\* findVeth: the host end, then the other end in the namespace.
findHost(p) == Looks(p) /\ Goto(p, "findHost", IF veth = "none" THEN Missing(p) ELSE "findPeer")
findPeer(p) == Looks(p) /\ Goto(p, "findPeer", IF veth = "netns" THEN "master" ELSE "update")

\* updateVeth: the other end in the namespace of the host.
updateVeth(p) == Looks(p) /\ Goto(p, "update", IF veth = "host" THEN "move" ELSE Missing(p))

\* LinkSetNsFd fails if another process has moved the end meanwhile.
Move(p) ==
    /\ Goto(p, "move", IF veth = "host" THEN "master" ELSE "idle")
    /\ veth' = IF veth = "host" THEN "netns" ELSE veth
    /\ UNCHANGED <<master, addrs, chain, rules, up, created, family, rule>>

\* LinkAdd fails if the pair is there, made by another process meanwhile, or with its
\* other end moved while this process looked for it.
LinkAdd(p) ==
    /\ Goto(p, "create", IF veth = "none" THEN "findHost" ELSE "idle")
    /\ veth' = IF veth = "none" THEN "host" ELSE veth
    /\ created' = [created EXCEPT ![p] = TRUE]
    /\ UNCHANGED <<master, addrs, chain, rules, up, family, rule>>

-----------------------------------------------------------------------------
LinkSetMaster(p) ==
    /\ Goto(p, "master", "addrs")
    /\ master' = TRUE
    /\ UNCHANGED <<veth, addrs, chain, rules, up, created, family, rule>>

AddrReplace(p, ip) ==
    /\ pc[p] = "addrs" /\ ip \notin addrs
    /\ addrs' = addrs \cup {ip}
    /\ UNCHANGED <<veth, master, chain, rules, up, pc, created, family, rule, fails>>

AddrsReplaced(p) == addrs = IPs /\ Looks(p) /\ Goto(p, "addrs", "chainExists")

-----------------------------------------------------------------------------
(* setUpFirewall: setUpIPTables for one family, then for the other.  Every iptables   *)
(* command is one step; AppendUnique is two of them.                                 *)

\* Mutant: the chain is made without a look at what is there.
ChainExistsUnseen(p) == Looks(p) /\ Goto(p, "chainExists", "newChain")

ChainExists(p) ==
    /\ Looks(p)
    /\ Goto(p, "chainExists", IF chain[Families[family[p]]] THEN "exists" ELSE "newChain")

NewChain(p) ==
    LET f == Families[family[p]]
    IN  /\ Goto(p, "newChain", IF chain[f] THEN "idle" ELSE "exists")
        /\ chain' = [chain EXCEPT ![f] = TRUE]
        /\ UNCHANGED <<veth, master, addrs, rules, up, created, family, rule>>

\* On to the next rule, the next family, or out of setUpFirewall.
NextRule(p) ==
    LET lastRule == rule[p] = Len(Rules)
        lastFamily == family[p] = Len(Families)
    IN  /\ pc' = [pc EXCEPT ![p] = IF ~lastRule THEN "exists"
                                   ELSE IF ~lastFamily THEN "chainExists" ELSE "hostUp"]
        /\ rule' = [rule EXCEPT ![p] = IF lastRule THEN 1 ELSE @ + 1]
        /\ family' = [family EXCEPT ![p] = IF ~lastRule THEN @
                                           ELSE IF lastFamily THEN 1 ELSE @ + 1]
        /\ UNCHANGED <<created, fails>>

Exists(p) ==
    /\ pc[p] = "exists"
    /\ IF Contains(rules[Families[family[p]]], Rules[rule[p]]) THEN NextRule(p)
       ELSE Goto(p, "exists", "append") /\ UNCHANGED <<created, family, rule>>
    /\ UNCHANGED kernel

\* Mutant: the rule is inserted before the others.
AppendInserts(p) ==
    /\ pc[p] = "append"
    /\ rules' = [rules EXCEPT ![Families[family[p]]] =
                    IF Contains(@, Rules[rule[p]]) THEN @ ELSE <<Rules[rule[p]]>> \o @]
    /\ NextRule(p)
    /\ UNCHANGED <<veth, master, addrs, chain, up>>

\* Two processes may append the same rule.
AppendRule(p) ==
    /\ pc[p] = "append"
    /\ rules' = [rules EXCEPT ![Families[family[p]]] =
                    IF Contains(@, Rules[rule[p]]) THEN @ ELSE Append(@, Rules[rule[p]])]
    /\ NextRule(p)
    /\ UNCHANGED <<veth, master, addrs, chain, up>>

-----------------------------------------------------------------------------
SetHostUp(p) ==
    /\ Goto(p, "hostUp", "peerUp")
    /\ up' = up \cup {"host"}
    /\ UNCHANGED <<veth, master, addrs, chain, rules, created, family, rule>>

SetPeerUp(p) ==
    /\ Goto(p, "peerUp", "done")
    /\ up' = up \cup {"peer"}
    /\ UNCHANGED <<veth, master, addrs, chain, rules, created, family, rule>>

Step(p) ==
    \/ cmdAdd(p)
    \/ findHost(p) \/ findPeer(p) \/ updateVeth(p) \/ Move(p) \/ LinkAdd(p)
    \/ LinkSetMaster(p) \/ (\E ip \in IPs : AddrReplace(p, ip)) \/ AddrsReplaced(p)
    \/ ChainExists(p) \/ NewChain(p) \/ Exists(p) \/ AppendRule(p)
    \/ SetHostUp(p) \/ SetPeerUp(p)

Next == \E p \in Pods : Step(p) \/ Fails(p)

\* The plugins run, and the runtime tries again what failed.
Fairness == \A p \in Pods : WF_vars(pc[p] # "done" /\ Step(p))

Spec == Init /\ [][Next]_vars /\ Fairness

-----------------------------------------------------------------------------
(* The type of the state.                                                            *)
TypeOK ==
    /\ veth \in {"none", "host", "netns"} /\ master \in BOOLEAN
    /\ addrs \subseteq IPs /\ up \subseteq {"host", "peer"}
    /\ chain \in [FamilySet -> BOOLEAN]
    /\ rules \in [FamilySet -> Seq(RuleSet)]
    /\ pc \in [Pods -> {"idle", "findHost", "findPeer", "update", "move", "create", "master",
                        "addrs", "chainExists", "newChain", "exists", "append", "hostUp",
                        "peerUp", "done"}]
    /\ created \in [Pods -> BOOLEAN]
    /\ family \in [Pods -> 1..Len(Families)] /\ rule \in [Pods -> 1..Len(Rules)]
    /\ fails \in 0..MaxFails

(* The rule that drops never comes before one of those that accept: whoever appended   *)
(* them, and whatever was killed in between, answers to the pods' connections and the  *)
(* host's packets to pods pass as soon as anything is dropped (iptables.go:45-54).      *)
AcceptsBeforeDrop ==
    \A f \in FamilySet : \A i \in 1..Len(rules[f]) :
        rules[f][i] = "drop" => {"in", "related"} \subseteq {rules[f][j] : j \in 1..(i - 1)}

(* The pods' end of the pair is up only behind the complete firewall of both families, *)
(* joined to the bridge and with its addresses: no ADD, of whatever pod and with        *)
(* whatever it found half done, brings it up earlier (main.go:171-180).                 *)
UpMeansShielded ==
    "peer" \in up =>
        /\ veth = "netns" /\ master /\ addrs = IPs /\ "host" \in up
        /\ \A f \in FamilySet : chain[f] /\ RuleSet \subseteq Range(rules[f])

(* The host is shielded from the pods at every moment (iptables.go:45-54,                *)
(* main.go:171-180).                                                                     *)
HostShielded == AcceptsBeforeDrop /\ UpMeansShielded

(* An ADD that succeeds leaves the network complete, and in the end every ADD succeeds: *)
(* what ADDs break for each other by finding, making and moving the pair, or the chain, *)
(* at the same time is found done by the next try (main.go:49-100).                     *)
EventuallyAdded == \A p \in Pods : <>[](pc[p] = "done" /\ "peer" \in up)
=============================================================================
