-------------------------- MODULE PodNetworkProofs --------------------------
(* Proofs about PodNetwork, for any number of pods that are added at a time, of   *)
(* addresses, and of failures and kills.                                          *)
EXTENDS PodNetwork, SequenceTheorems, TLAPS

-----------------------------------------------------------------------------
(* The constants and the sequences of rules *)

LEMMA FamilyFacts ==
    /\ Len(Families) = 2 /\ FamilySet = {"v4", "v6"}
    /\ \A i \in 1..2 : Families[i] \in FamilySet
    /\ \A f \in FamilySet : \E i \in 1..2 : Families[i] = f
BY DEF Families, FamilySet, Range

LEMMA RuleFacts ==
    /\ Len(Rules) = 6 /\ RuleSet = {Rules[i] : i \in 1..6}
    /\ \A i \in 1..6 : Rules[i] = "drop" => i = 6
    /\ Rules[4] = "in" /\ Rules[5] = "related"
BY DEF Rules, RuleSet, Range

\* What a family has, in terms of what its rules contain.
Has(f, r) == Contains(rules[f], r)
Complete(f) == chain[f] /\ \A i \in 1..6 : Has(f, Rules[i])

LEMMA RangeContains ==
    ASSUME NEW f \in FamilySet, rules[f] \in Seq(RuleSet)
    PROVE  RuleSet \subseteq Range(rules[f]) <=> \A i \in 1..6 : Has(f, Rules[i])
<1>1. \A r : r \in Range(rules[f]) <=> Has(f, r)
  BY DEF Has, Contains, Range
<1> QED
  BY <1>1, RuleFacts

\* An appended rule comes after those that are there.
LEMMA AppendedRule ==
    ASSUME NEW s \in Seq(RuleSet), NEW r \in RuleSet
    PROVE  /\ Append(s, r) \in Seq(RuleSet)
           /\ Len(Append(s, r)) = Len(s) + 1 /\ Len(s) \in Nat
           /\ Append(s, r)[Len(s) + 1] = r
           /\ \A i \in 1..Len(s) : Append(s, r)[i] = s[i]
OBVIOUS

-----------------------------------------------------------------------------
(* Types *)

(* The steps that look for, make and move the pair of veths keep the types.        *)
LEMMA VethKeepsType ==
    ASSUME TypeOK, NEW p \in Pods,
           \/ cmdAdd(p) \/ Fails(p)
           \/ findHost(p) \/ findPeer(p) \/ updateVeth(p) \/ Move(p) \/ LinkAdd(p)
    PROVE  TypeOK'
<1> USE FamilyFacts, RuleFacts DEF TypeOK, Goto, Looks, kernel
<1>1. CASE cmdAdd(p)
  BY <1>1 DEF cmdAdd
<1>2. CASE Fails(p)
  BY <1>2, PodNetworkAssumption DEF Fails
<1>3. CASE findHost(p) \/ findPeer(p) \/ updateVeth(p)
  BY <1>3 DEF findHost, findPeer, updateVeth, Missing
<1>4. CASE Move(p)
  BY <1>4 DEF Move
<1>5. CASE LinkAdd(p)
  BY <1>5 DEF LinkAdd
<1> QED
  BY <1>1, <1>2, <1>3, <1>4, <1>5

(* On to the next rule or family: both stay in their sequences.                     *)
LEMMA NextRuleKeepsType ==
    ASSUME TypeOK, NEW p \in Pods, NextRule(p)
    PROVE  /\ rule' \in [Pods -> 1..6] /\ family' \in [Pods -> 1..2]
           /\ pc' \in [Pods -> {"idle", "findHost", "findPeer", "update", "move", "create",
                                "master", "addrs", "chainExists", "newChain", "exists",
                                "append", "hostUp", "peerUp", "done"}]
<1> USE FamilyFacts, RuleFacts DEF TypeOK, NextRule
<1>1. rule' \in [Pods -> 1..6]
  <2>1. CASE rule[p] = 6
    BY <2>1
  <2>2. CASE rule[p] # 6
    BY <2>2
  <2> QED
    BY <2>1, <2>2
<1>2. family' \in [Pods -> 1..2]
  OBVIOUS
<1> QED
  BY <1>1, <1>2

(* The other steps keep them too.                                                   *)
LEMMA SetUpKeepsType ==
    ASSUME TypeOK, NEW p \in Pods,
           \/ LinkSetMaster(p) \/ (\E ip \in IPs : AddrReplace(p, ip)) \/ AddrsReplaced(p)
           \/ ChainExists(p) \/ NewChain(p) \/ Exists(p) \/ AppendRule(p)
           \/ SetHostUp(p) \/ SetPeerUp(p)
    PROVE  TypeOK'
<1> USE FamilyFacts, RuleFacts DEF TypeOK, Goto, Looks, kernel
<1>1. CASE LinkSetMaster(p) \/ SetHostUp(p) \/ SetPeerUp(p)
  BY <1>1 DEF LinkSetMaster, SetHostUp, SetPeerUp
<1>2. CASE (\E ip \in IPs : AddrReplace(p, ip)) \/ AddrsReplaced(p)
  BY <1>2 DEF AddrReplace, AddrsReplaced
<1>3. CASE ChainExists(p)
  BY <1>3 DEF ChainExists
<1>4. CASE NewChain(p)
  BY <1>4 DEF NewChain
<1>5. CASE Exists(p)
  BY <1>5, NextRuleKeepsType DEF Exists, NextRule
<1>6. CASE AppendRule(p)
  <2>1. Rules[rule[p]] \in RuleSet /\ Families[family[p]] \in FamilySet
    OBVIOUS
  <2>2. rules' \in [FamilySet -> Seq(RuleSet)]
    BY <1>6, <2>1, AppendedRule DEF AppendRule
  <2> QED
    BY <1>6, <2>2, NextRuleKeepsType DEF AppendRule, NextRule
<1> QED
  BY <1>1, <1>2, <1>3, <1>4, <1>5, <1>6

(* Every variable has its type.                                                     *)
THEOREM TypeCorrect == Spec => []TypeOK
<1>1. Init => TypeOK
  <2> SUFFICES ASSUME Init PROVE TypeOK
    OBVIOUS
  <2>1. rules \in [FamilySet -> Seq(RuleSet)] /\ chain \in [FamilySet -> BOOLEAN]
    BY DEF Init, Clean
  <2>2. family \in [Pods -> 1..Len(Families)] /\ rule \in [Pods -> 1..Len(Rules)]
    BY FamilyFacts, RuleFacts DEF Init, Clean
  <2>3. master \in BOOLEAN /\ created \in [Pods -> BOOLEAN]
    BY Zenon DEF Init, Clean
  <2> QED
    BY <2>1, <2>2, <2>3, PodNetworkAssumption DEF Init, Clean, TypeOK
<1>2. TypeOK /\ [Next]_vars => TypeOK'
  BY VethKeepsType, SetUpKeepsType DEF Next, Step, vars, kernel, TypeOK
<1> QED
  BY <1>1, <1>2, PTL DEF Spec

-----------------------------------------------------------------------------
(* The host is shielded *)

Firewall == {"chainExists", "newChain", "exists", "append"}
Behind == {"hostUp", "peerUp", "done"}

(* How far an ADD has come says what is there, whoever did it: the pair, the      *)
(* bridge and the addresses, the families before its own, the rules before its     *)
(* own.                                                                           *)
Progress(p) ==
    /\ pc[p] \in {"master", "addrs"} \cup Firewall \cup Behind => veth = "netns"
    /\ pc[p] \in {"addrs"} \cup Firewall \cup Behind => master
    /\ pc[p] \in Firewall \cup Behind => addrs = IPs
    /\ pc[p] \in Firewall =>
           \A i \in 1..2 : i < family[p] => Complete(Families[i])
    /\ pc[p] \in {"exists", "append"} =>
           /\ chain[Families[family[p]]]
           /\ \A i \in 1..6 : i < rule[p] => Has(Families[family[p]], Rules[i])
    /\ pc[p] \in Behind => \A i \in 1..2 : Complete(Families[i])
    /\ pc[p] \in {"peerUp", "done"} => "host" \in up

(* An ADD comes to the firewall, or to another family, at the first rule.          *)
FromTheFirst ==
    \A p \in Pods :
        /\ pc[p] \notin Firewall \cup {"idle"} => family[p] = 1
        /\ pc[p] \notin {"exists", "append", "idle"} => rule[p] = 1

Inv ==
    /\ FromTheFirst /\ \A p \in Pods : Progress(p)
    /\ AcceptsBeforeDrop /\ UpMeansShielded

(* Nothing is taken down: what is there stays, and rules stay where they are.       *)
Grows ==
    /\ veth = "netns" => veth' = "netns"
    /\ master => master'
    /\ addrs \subseteq addrs' /\ up \subseteq up'
    /\ \A f \in FamilySet :
           /\ chain[f] => chain'[f]
           /\ Len(rules[f]) <= Len(rules'[f])
           /\ \A i \in 1..Len(rules[f]) : rules'[f][i] = rules[f][i]

LEMMA RulesGrow ==
    ASSUME TypeOK, NEW p \in Pods, AppendRule(p)
    PROVE  \A f \in FamilySet :
               /\ Len(rules[f]) <= Len(rules'[f])
               /\ \A i \in 1..Len(rules[f]) : rules'[f][i] = rules[f][i]
<1> SUFFICES ASSUME NEW f \in FamilySet
             PROVE  /\ Len(rules[f]) <= Len(rules'[f])
                    /\ \A i \in 1..Len(rules[f]) : rules'[f][i] = rules[f][i]
  OBVIOUS
<1> DEFINE g == Families[family[p]]
           r == Rules[rule[p]]
<1>1. r \in RuleSet /\ rules[f] \in Seq(RuleSet) /\ Len(rules[f]) \in Nat
  BY FamilyFacts, RuleFacts DEF TypeOK
<1>2. rules'[f] = IF f = g /\ ~Contains(rules[f], r) THEN Append(rules[f], r) ELSE rules[f]
  BY DEF AppendRule, TypeOK
<1> HIDE DEF r, g
<1> QED
  BY <1>1, <1>2, AppendedRule

LEMMA StepGrows == ASSUME TypeOK, [Next]_vars PROVE Grows
<1> USE DEF Goto, Looks, kernel, Grows
<1>1. CASE UNCHANGED vars
  BY <1>1 DEF vars, TypeOK
<1>2. ASSUME NEW p \in Pods, Step(p) \/ Fails(p)
      PROVE  Grows
  <2>1. CASE AppendRule(p)
    BY <2>1, RulesGrow DEF AppendRule
  <2>2. CASE NewChain(p)
    <3>1. \A f \in FamilySet : chain[f] => chain'[f]
      BY <2>2 DEF NewChain, TypeOK
    <3> QED
      BY <2>2, <3>1 DEF NewChain, TypeOK
  <2>3. CASE Move(p) \/ LinkAdd(p) \/ LinkSetMaster(p) \/ SetHostUp(p) \/ SetPeerUp(p)
             \/ \E ip \in IPs : AddrReplace(p, ip)
    BY <2>3 DEF Move, LinkAdd, LinkSetMaster, SetHostUp, SetPeerUp, AddrReplace, TypeOK
  <2>4. CASE UNCHANGED kernel
    BY <2>4 DEF TypeOK
  <2> QED
    BY <1>2, <2>1, <2>2, <2>3, <2>4 DEF Step, cmdAdd, Fails, findHost, findPeer, updateVeth,
       AddrsReplaced, ChainExists, Exists
<1> QED
  BY <1>1, <1>2 DEF Next

(* What a family has it keeps.                                                     *)
LEMMA HasKept ==
    ASSUME TypeOK, Grows, NEW f \in FamilySet
    PROVE  /\ \A r : Has(f, r) => Has(f, r)'
           /\ Complete(f) => Complete(f)'
<1>1. \A r : Has(f, r) => Has(f, r)'
  <2>1. Len(rules[f]) \in Nat /\ Len(rules'[f]) \in Int
    BY DEF TypeOK
  <2> QED
    BY <2>1 DEF Grows, Has, Contains
<1> QED
  BY <1>1 DEF Complete, Grows

(* An ADD that does not move has what it had.                                       *)
LEMMA OthersProgress ==
    ASSUME TypeOK, TypeOK', Grows, NEW p \in Pods, Progress(p),
           pc'[p] = pc[p], family'[p] = family[p], rule'[p] = rule[p]
    PROVE  Progress(p)'
<1>1. addrs = IPs => addrs' = IPs
  BY DEF TypeOK, Grows
<1>2. family[p] \in 1..2 /\ Families[family[p]] \in FamilySet
  BY FamilyFacts DEF TypeOK
<1>3. \A i \in 1..2 : Complete(Families[i]) => Complete(Families[i])'
  BY HasKept, FamilyFacts
<1>4. \A r : Has(Families[family[p]], r) => Has(Families[family[p]], r)'
  BY <1>2, HasKept
<1>5. chain[Families[family[p]]] => chain'[Families[family[p]]]
  BY <1>2 DEF Grows
<1> QED
  BY <1>1, <1>3, <1>4, <1>5 DEF Progress, Grows, Has, Complete

(* The steps up to the firewall.                                                    *)
LEMMA VethProgress ==
    ASSUME TypeOK, TypeOK', Grows, FromTheFirst, NEW p \in Pods, Progress(p),
           \/ cmdAdd(p) \/ Fails(p)
           \/ findHost(p) \/ findPeer(p) \/ updateVeth(p) \/ Move(p) \/ LinkAdd(p)
           \/ LinkSetMaster(p) \/ (\E ip \in IPs : AddrReplace(p, ip)) \/ AddrsReplaced(p)
    PROVE  Progress(p)'
<1> USE DEF Goto, Looks, kernel, Firewall, Behind
<1>1. CASE \/ cmdAdd(p) \/ Fails(p) \/ findHost(p) \/ updateVeth(p) \/ LinkAdd(p)
  <2>1. pc'[p] \in {"findHost", "idle", "findPeer", "create", "move", "update"}
    BY <1>1 DEF cmdAdd, Fails, findHost, updateVeth, LinkAdd, Missing, TypeOK
  <2> QED
    BY <2>1 DEF Progress
<1>2. CASE findPeer(p) \/ Move(p)
  <2>1. /\ pc'[p] \in {"master", "update", "idle"}
        /\ pc'[p] = "master" => veth' = "netns"
    BY <1>2 DEF findPeer, Move, TypeOK
  <2> QED
    BY <2>1 DEF Progress
<1>3. CASE LinkSetMaster(p)
  <2>1. pc'[p] = "addrs" /\ master' /\ veth' = "netns"
    BY <1>3 DEF LinkSetMaster, Progress, TypeOK
  <2> QED
    BY <2>1 DEF Progress
<1>4. CASE \E ip \in IPs : AddrReplace(p, ip)
  BY <1>4, OthersProgress DEF AddrReplace
<1>5. CASE AddrsReplaced(p)
  <2>1. /\ pc'[p] = "chainExists" /\ master' /\ veth' = "netns" /\ addrs' = IPs
        /\ family'[p] = 1
    BY <1>5 DEF AddrsReplaced, Progress, FromTheFirst, TypeOK
  <2> QED
    BY <2>1 DEF Progress
<1> QED
  BY <1>1, <1>2, <1>3, <1>4, <1>5

(* An ADD that goes on to the next rule, the next family, or out of the firewall, with *)
(* the rule it was at in place.                                                    *)
LEMMA NextRuleProgress ==
    ASSUME TypeOK, TypeOK', Grows, NEW p \in Pods, Progress(p),
           pc[p] \in {"exists", "append"}, NextRule(p),
           Contains(rules'[Families[family[p]]], Rules[rule[p]])
    PROVE  Progress(p)'
<1> DEFINE f == Families[family[p]]
<1>1. family[p] \in 1..2 /\ rule[p] \in 1..6 /\ f \in FamilySet
  BY FamilyFacts, RuleFacts DEF TypeOK
<1>2. veth' = "netns" /\ master' /\ addrs' = IPs
  BY DEF Progress, Grows, TypeOK, Firewall
<1>3. chain'[f] /\ \A i \in 1..6 : i <= rule[p] => Contains(rules'[f], Rules[i])
  <2>1. chain[f] /\ \A i \in 1..6 : i < rule[p] => Has(f, Rules[i])
    BY DEF Progress
  <2>2. \A i \in 1..6 : i < rule[p] => Contains(rules'[f], Rules[i])
    <3>1. \A s : Contains(rules[f], s) => Contains(rules'[f], s)
      <4>1. Len(rules[f]) \in Nat /\ Len(rules'[f]) \in Int
        BY <1>1 DEF TypeOK
      <4> QED
        BY <1>1, <4>1 DEF Grows, Contains
    <3> QED
      BY <2>1, <3>1 DEF Has
  <2> QED
    BY <1>1, <2>1, <2>2 DEF Grows
<1>4. \A i \in 1..2 : i < family[p] => Complete(Families[i])'
  BY HasKept, FamilyFacts DEF Progress, Firewall
<1>5. CASE rule[p] # 6
  <2>1. pc'[p] = "exists" /\ rule'[p] = rule[p] + 1 /\ family'[p] = family[p]
    BY <1>5, RuleFacts DEF NextRule, TypeOK
  <2>2. \A i \in 1..6 : i < rule'[p] => Contains(rules'[f], Rules[i])
    BY <1>1, <1>3, <2>1
  <2> QED
    BY <1>2, <1>3, <1>4, <2>1, <2>2 DEF Progress, Firewall, Behind, Has
<1>6. CASE rule[p] = 6
  <2>1. chain'[f] /\ \A j \in 1..6 : Contains(rules'[f], Rules[j])
    BY <1>1, <1>3, <1>6
  <2>2. \A i \in 1..2 : i <= family[p] => Complete(Families[i])'
    <3>1. SUFFICES ASSUME NEW i \in 1..2, i <= family[p]
                   PROVE  Complete(Families[i])'
      OBVIOUS
    <3>2. CASE i = family[p]
      BY <2>1, <3>2 DEF Complete, Has
    <3> QED
      BY <1>1, <1>4, <3>1, <3>2
  <2>3. CASE family[p] = 1
    <3>1. pc'[p] = "chainExists" /\ family'[p] = 2
      BY <1>6, <2>3, RuleFacts, FamilyFacts DEF NextRule, TypeOK
    <3>2. \A i \in 1..2 : i < family'[p] => Complete(Families[i])'
      BY <2>2, <2>3, <3>1
    <3> QED
      BY <1>2, <3>1, <3>2 DEF Progress, Firewall, Behind
  <2>4. CASE family[p] = 2
    <3>1. pc'[p] = "hostUp"
      BY <1>6, <2>4, RuleFacts, FamilyFacts DEF NextRule, TypeOK
    <3>2. \A i \in 1..2 : Complete(Families[i])'
      BY <2>2, <2>4
    <3> QED
      BY <1>2, <3>1, <3>2 DEF Progress, Firewall, Behind
  <2> QED
    BY <1>1, <2>3, <2>4
<1> QED
  BY <1>5, <1>6

(* The steps of the firewall, and those that bring the pair up.                     *)
LEMMA FirewallProgress ==
    ASSUME TypeOK, TypeOK', Grows, FromTheFirst, NEW p \in Pods, Progress(p),
           \/ ChainExists(p) \/ NewChain(p) \/ Exists(p) \/ AppendRule(p)
           \/ SetHostUp(p) \/ SetPeerUp(p)
    PROVE  Progress(p)'
<1> USE DEF Goto, Looks, kernel, Firewall, Behind
<1>1. family[p] \in 1..2 /\ rule[p] \in 1..6 /\ Families[family[p]] \in FamilySet
      /\ Rules[rule[p]] \in RuleSet
  BY FamilyFacts, RuleFacts DEF TypeOK
<1>2. \A i \in 1..2 : Complete(Families[i]) => Complete(Families[i])'
  BY HasKept, FamilyFacts
<1>3. CASE ChainExists(p) \/ NewChain(p)
  <2>1. veth' = "netns" /\ master' /\ addrs' = IPs /\ rule[p] = 1
        /\ family'[p] = family[p] /\ rule'[p] = rule[p]
    BY <1>3 DEF ChainExists, NewChain, Progress, FromTheFirst, TypeOK
  <2>2. \A i \in 1..2 : i < family[p] => Complete(Families[i])'
    BY <1>2, <1>3 DEF ChainExists, NewChain, Progress
  <2>3. /\ pc'[p] \in {"exists", "newChain", "idle"}
        /\ pc'[p] = "exists" => chain'[Families[family[p]]]
    BY <1>1, <1>3 DEF ChainExists, NewChain, TypeOK
  <2>4. \A i \in 1..6 : ~(i < rule'[p])
    BY <2>1
  <2> QED
    BY <2>1, <2>2, <2>3, <2>4 DEF Progress
<1>4. CASE Exists(p)
  <2>1. CASE Contains(rules[Families[family[p]]], Rules[rule[p]])
    BY <1>4, <2>1, NextRuleProgress DEF Exists
  <2>2. CASE ~Contains(rules[Families[family[p]]], Rules[rule[p]])
    <3>1. pc[p] = "exists" /\ pc'[p] = "append" /\ UNCHANGED <<kernel, family, rule>>
      BY <1>4, <2>2 DEF Exists, TypeOK
    <3> QED
      BY <3>1 DEF Progress, Has, Complete
  <2> QED
    BY <2>1, <2>2
<1>5. CASE AppendRule(p)
  <2> DEFINE s == rules[Families[family[p]]]
             r == Rules[rule[p]]
  <2>1. rules'[Families[family[p]]] = IF Contains(s, r) THEN s ELSE Append(s, r)
    BY <1>1, <1>5 DEF AppendRule, TypeOK
  <2>2. s \in Seq(RuleSet) /\ r \in RuleSet
    BY <1>1 DEF TypeOK
  <2> HIDE DEF s, r
  <2>3. Contains(Append(s, r), r)
    BY <2>2, AppendedRule DEF Contains
  <2>4. Contains(rules'[Families[family[p]]], r)
    BY <2>1, <2>3
  <2> QED
    BY <1>5, <2>4, NextRuleProgress DEF AppendRule, r
<1>6. CASE SetHostUp(p) \/ SetPeerUp(p)
  <2>1. /\ pc[p] \in {"hostUp", "peerUp"} /\ pc'[p] \in {"peerUp", "done"}
        /\ "host" \in up'
    BY <1>6 DEF SetHostUp, SetPeerUp, Progress, TypeOK
  <2>2. veth' = "netns" /\ master' /\ addrs' = IPs
    BY <1>6 DEF SetHostUp, SetPeerUp, Progress
  <2>3. \A i \in 1..2 : Complete(Families[i])'
    BY <1>2, <2>1 DEF Progress
  <2> QED
    BY <2>1, <2>2, <2>3 DEF Progress
<1> QED
  BY <1>3, <1>4, <1>5, <1>6

(* A step moves one ADD.                                                            *)
LEMMA OneMoves ==
    ASSUME TypeOK, NEW p \in Pods, Step(p) \/ Fails(p), NEW q \in Pods, q # p
    PROVE  pc'[q] = pc[q] /\ family'[q] = family[q] /\ rule'[q] = rule[q]
BY DEF Step, Fails, cmdAdd, findHost, findPeer, updateVeth, Move, LinkAdd, LinkSetMaster,
   AddrReplace, AddrsReplaced, ChainExists, NewChain, Exists, AppendRule, SetHostUp,
   SetPeerUp, NextRule, Goto, Looks, TypeOK

LEMMA StepProgress ==
    ASSUME TypeOK, TypeOK', Grows, FromTheFirst, \A q \in Pods : Progress(q), Next
    PROVE  \A q \in Pods : Progress(q)'
<1>1. PICK p \in Pods : Step(p) \/ Fails(p)
  BY DEF Next
<1>2. Progress(p)'
  BY <1>1, VethProgress, FirewallProgress DEF Step
<1>3. \A q \in Pods : q # p => Progress(q)'
  BY <1>1, OneMoves, OthersProgress
<1> QED
  BY <1>2, <1>3

(* Only AppendRule, Exists and a first or another ADD move family and rule.         *)
LEMMA FromTheFirstKept ==
    ASSUME TypeOK, FromTheFirst, Next
    PROVE  FromTheFirst'
<1> USE DEF Goto, Looks, Firewall
<1>1. PICK p \in Pods : Step(p) \/ Fails(p)
  BY DEF Next
<1> DEFINE First(q) ==
        /\ pc'[q] \notin Firewall \cup {"idle"} => family'[q] = 1
        /\ pc'[q] \notin {"exists", "append", "idle"} => rule'[q] = 1
<1>2. First(p)
  <2>1. CASE NextRule(p)
    BY <2>1, FamilyFacts, RuleFacts DEF NextRule, TypeOK
  <2>2. CASE cmdAdd(p) \/ Fails(p)
    BY <2>2 DEF cmdAdd, Fails, TypeOK
  <2>3. CASE findHost(p) \/ findPeer(p) \/ updateVeth(p) \/ Move(p) \/ LinkAdd(p)
             \/ LinkSetMaster(p) \/ (\E ip \in IPs : AddrReplace(p, ip)) \/ AddrsReplaced(p)
    BY <2>3 DEF findHost, findPeer, updateVeth, Move, LinkAdd, LinkSetMaster, AddrReplace,
       AddrsReplaced, FromTheFirst, TypeOK
  <2>4. CASE ChainExists(p) \/ NewChain(p) \/ SetHostUp(p) \/ SetPeerUp(p)
    BY <2>4 DEF ChainExists, NewChain, SetHostUp, SetPeerUp, FromTheFirst, TypeOK
  <2>5. CASE Exists(p) /\ ~NextRule(p)
    BY <2>5 DEF Exists, FromTheFirst, TypeOK
  <2> QED
    BY <1>1, <2>1, <2>2, <2>3, <2>4, <2>5 DEF Step, AppendRule
<1>3. \A q \in Pods : q # p => First(q)
  BY <1>1, OneMoves DEF FromTheFirst
<1> QED
  BY <1>2, <1>3 DEF FromTheFirst

(* The rule that drops is appended by an ADD at the last rule, behind those that accept. *)
LEMMA DropKept ==
    ASSUME TypeOK, \A q \in Pods : Progress(q), AcceptsBeforeDrop, Next
    PROVE  AcceptsBeforeDrop'
<1>1. CASE \E p \in Pods : AppendRule(p)
  <2>1. PICK p \in Pods : AppendRule(p)
    BY <1>1
  <2> DEFINE g == Families[family[p]]
             r == Rules[rule[p]]
  <2>2. /\ family[p] \in 1..2 /\ rule[p] \in 1..6 /\ g \in FamilySet /\ r \in RuleSet
        /\ rules[g] \in Seq(RuleSet)
    BY FamilyFacts, RuleFacts DEF TypeOK
  <2>3. rules' = [rules EXCEPT ![g] = IF Contains(rules[g], r) THEN rules[g]
                                      ELSE Append(rules[g], r)]
    BY <2>1 DEF AppendRule
  <2>4. r = "drop" => Contains(rules[g], "in") /\ Contains(rules[g], "related")
    BY <2>1, <2>2, RuleFacts DEF AppendRule, Progress, Has
  <2> HIDE DEF g, r
  <2>5. ASSUME NEW f \in FamilySet, NEW i \in 1..Len(rules'[f]), rules'[f][i] = "drop"
        PROVE  {"in", "related"} \subseteq {rules'[f][j] : j \in 1..(i - 1)}
    <3>1. CASE rules'[f] = rules[f]
      BY <2>5, <3>1 DEF AcceptsBeforeDrop
    <3>2. CASE rules'[f] # rules[f]
      <4>1. f = g /\ rules'[f] = Append(rules[f], r) /\ rules[f] \in Seq(RuleSet)
        BY <2>2, <2>3, <3>2 DEF TypeOK
      <4>2. /\ Len(rules[f]) \in Nat /\ Len(rules'[f]) = Len(rules[f]) + 1
            /\ rules'[f][Len(rules[f]) + 1] = r
            /\ \A j \in 1..Len(rules[f]) : rules'[f][j] = rules[f][j]
        BY <2>2, <4>1, AppendedRule
      <4>3. CASE i = Len(rules[f]) + 1
        <5>1. Contains(rules[f], "in") /\ Contains(rules[f], "related")
          BY <2>4, <2>5, <4>1, <4>2, <4>3
        <5>2. ASSUME NEW x \in {"in", "related"}
              PROVE  \E j \in 1..(i - 1) : rules'[f][j] = x
          <6>1. PICK j \in 1..Len(rules[f]) : rules[f][j] = x
            BY <5>1, <5>2 DEF Contains
          <6>2. j \in 1..(i - 1) /\ rules'[f][j] = x
            BY <4>2, <4>3, <6>1
          <6> QED
            BY <6>2
        <5> QED
          BY <5>2
      <4>4. CASE i \in 1..Len(rules[f])
        <5>1. {"in", "related"} \subseteq {rules[f][j] : j \in 1..(i - 1)}
          BY <2>5, <4>2, <4>4 DEF AcceptsBeforeDrop
        <5>2. \A j \in 1..(i - 1) : j \in 1..Len(rules[f])
          BY <4>2, <4>4
        <5>3. ASSUME NEW x \in {"in", "related"}
              PROVE  \E j \in 1..(i - 1) : rules'[f][j] = x
          BY <4>2, <5>1, <5>2, <5>3
        <5> QED
          BY <5>3
      <4> QED
        BY <4>2, <4>3, <4>4
    <3> QED
      BY <3>1, <3>2
  <2> QED
    BY <2>5 DEF AcceptsBeforeDrop
<1>2. CASE ~\E p \in Pods : AppendRule(p)
  <2>1. UNCHANGED rules
    BY <1>2 DEF Next, Step, Fails, cmdAdd, findHost, findPeer, updateVeth, Move, LinkAdd,
       LinkSetMaster, AddrReplace, AddrsReplaced, ChainExists, NewChain, Exists, SetHostUp,
       SetPeerUp, Looks, kernel
  <2> QED
    BY <2>1 DEF AcceptsBeforeDrop
<1> QED
  BY <1>1, <1>2

(* The pods' end comes up behind what its ADD has made sure of, and that stays.     *)
LEMMA UpKept ==
    ASSUME TypeOK, TypeOK', Grows, \A q \in Pods : Progress(q)', UpMeansShielded, Next
    PROVE  UpMeansShielded'
<1>1. \A f \in FamilySet :
          rules'[f] \in Seq(RuleSet)
          /\ (RuleSet \subseteq Range(rules'[f]) <=> \A i \in 1..6 : Has(f, Rules[i])')
  <2>1. \A f \in FamilySet : \A r : r \in Range(rules'[f]) <=> Has(f, r)'
    BY DEF Has, Contains, Range
  <2> QED
    BY <2>1, RuleFacts DEF TypeOK
<1>2. CASE \E p \in Pods : SetPeerUp(p)
  <2>1. PICK p \in Pods : SetPeerUp(p)
    BY <1>2
  <2>2. pc'[p] = "done" /\ Progress(p)'
    BY <2>1 DEF SetPeerUp, Goto, TypeOK
  <2>3. \A f \in FamilySet : Complete(f)'
    BY <2>2, FamilyFacts DEF Progress, Behind
  <2>4. veth' = "netns" /\ master' /\ addrs' = IPs /\ "host" \in up'
    BY <2>2 DEF Progress, Behind
  <2> QED
    BY <1>1, <2>3, <2>4 DEF UpMeansShielded, Complete
<1>3. CASE ~\E p \in Pods : SetPeerUp(p)
  <2>1. "peer" \in up' => "peer" \in up
    BY <1>3 DEF Next, Step, Fails, cmdAdd, findHost, findPeer, updateVeth, Move, LinkAdd,
       LinkSetMaster, AddrReplace, AddrsReplaced, ChainExists, NewChain, Exists, AppendRule,
       SetHostUp, Looks, kernel
  <2>2. ASSUME UpMeansShielded, "peer" \in up
        PROVE  \A f \in FamilySet : Complete(f)'
    <3>1. \A f \in FamilySet : Complete(f)
      BY <2>2, RangeContains DEF UpMeansShielded, Complete, TypeOK
    <3> QED
      BY <3>1, HasKept
  <2>3. "peer" \in up => veth' = "netns" /\ master' /\ addrs' = IPs /\ "host" \in up'
    BY DEF UpMeansShielded, Grows, TypeOK
  <2> QED
    BY <1>1, <2>1, <2>2, <2>3 DEF UpMeansShielded, Complete
<1> QED
  BY <1>2, <1>3

LEMMA InvInit == Init => Inv
<1> SUFFICES ASSUME Init PROVE Inv
  OBVIOUS
<1>1. FromTheFirst /\ UpMeansShielded
  BY DEF Init, Clean, FromTheFirst, UpMeansShielded, Firewall
<1>2. \A p \in Pods : Progress(p)
  BY DEF Init, Progress, Firewall, Behind
<1>3. AcceptsBeforeDrop
  BY DEF Init, Clean, AcceptsBeforeDrop
<1> QED
  BY <1>1, <1>2, <1>3 DEF Inv

LEMMA InvKept == TypeOK /\ TypeOK' /\ Inv /\ [Next]_vars => Inv'
<1> SUFFICES ASSUME TypeOK, TypeOK', Inv, [Next]_vars
             PROVE  Inv'
  OBVIOUS
<1>1. CASE Next
  <2>1. Grows
    BY StepGrows
  <2>2. \A q \in Pods : Progress(q)'
    BY <1>1, <2>1, StepProgress DEF Inv
  <2> QED
    BY <1>1, <2>1, <2>2, FromTheFirstKept, DropKept, UpKept DEF Inv
<1>2. CASE UNCHANGED vars
  BY <1>2 DEF Inv, vars, kernel, FromTheFirst, Progress, Complete, Has, AcceptsBeforeDrop,
     UpMeansShielded
<1> QED
  BY <1>1, <1>2

(* The host is shielded from the pods at every moment, however many ADDs run, fail and are *)
(* killed: nothing that drops comes before what accepts, and the pods' end is up only     *)
(* behind all of it (iptables.go:45-54, main.go:171-180).                                *)
THEOREM HostIsShielded == Spec => []HostShielded
<1>1. Inv => HostShielded
  BY DEF Inv, HostShielded
<1> QED
  BY InvInit, InvKept, TypeCorrect, <1>1, PTL DEF Spec
=============================================================================
