------------------------- MODULE RouterPlaneProofs -------------------------
(***************************************************************************)
(* RouterPlane for every value of its constants: types, and containment.   *)
(*                                                                         *)
(* UplinkOnlyUnguarded and UdpNeverTunnelled are not inductive: a packet's *)
(* exit depends on the order of the chain, and the order on where in the   *)
(* loop the script is.  IInv adds that the policy is DROP whenever rules   *)
(* can exist, that an ACCEPT belongs to a line of the file, and that under *)
(* a UDP policy it stands behind the UDP rule of the same line.            *)
(*                                                                         *)
(* That a ready router serves every line of its file is about what is      *)
(* there, and not only about what is not: ServeInv, in the last part, says *)
(* what the passes of the loop have left.                                  *)
(***************************************************************************)
EXTENDS RouterPlane, WellFoundedInduction, SequenceTheorems, TLAPS

InLoop == pc \in {"rule", "udp", "accept", "start"}

\* Before the loop nothing is installed; once there is a chain the policy is DROP.
PolicyInv ==
  /\ pc \in {"down", "clean", "policy", "chain"} =>
       /\ rule = {} /\ table = {} /\ chain = <<>>
       /\ \A i \in Lines(ver) : proc[i] = "none"
  /\ policy = IF pc \in {"down", "clean", "policy"} THEN "ACCEPT" ELSE "DROP"
  /\ InLoop => line \in Lines(ver)

UdpRuleBefore(c, k, i) == \E j \in 1..(k - 1) : c[j].kind = "udp" /\ c[j].line = i

ChainInv ==
  /\ \A k \in 1..Len(chain) : chain[k].kind = "accept" =>
       /\ chain[k].line \in Lines(ver)
       /\ opt.udp # "tunnel" => UdpRuleBefore(chain, k, chain[k].line)
  /\ pc = "accept" /\ opt.udp # "tunnel" => UdpRuleBefore(chain, Len(chain) + 1, line)

IInv == TypeOK /\ PolicyInv /\ ChainInv

-----------------------------------------------------------------------------
\* A non-empty set of naturals has the least element FirstOf chooses.
LEMMA LeastExists ==
  ASSUME NEW S \in SUBSET Nat, S # {}
  PROVE  FirstOf(S) \in S /\ \A j \in S : FirstOf(S) <= j
<1> DEFINE R == {ss \in Nat \X Nat : ss[1] < ss[2]}
<1>1. IsWellFoundedOn(R, Nat)
  BY NatLessThanWellFounded, Zenon DEF OpToRel
<1>2. \A x, y \in Nat : y < x => <<y, x>> \in R
  OBVIOUS
<1> HIDE DEF R
<1>3. PICK x \in S : \A y \in S : ~ (<<y, x>> \in R)
  BY <1>1, WFMin
<1>4. ASSUME NEW y \in S PROVE x <= y
  <2>1. x \in Nat /\ y \in Nat
    OBVIOUS
  <2>2. ~ (<<y, x>> \in R)
    BY <1>3, Zenon
  <2>3. ~ (y < x)
    BY <1>2, <2>1, <2>2, Zenon
  <2>4. QED
    BY <2>1, <2>3
<1>5. QED
  BY <1>4 DEF FirstOf

\* The lines of a version are an initial segment of the positive numbers.
LEMMA LinesAreNumbers ==
  ASSUME NEW v \in Version
  PROVE  /\ Lines(v) \subseteq Nat \ {0}
         /\ \A i \in Lines(v) : Routes[v][i] \in Entry
<1>1. Routes[v] \in Seq(Entry)
  BY ConstantsAssumption
<1>2. QED
  BY <1>1 DEF Lines

-----------------------------------------------------------------------------
\* The initial state: the container is down and nothing is installed.
LEMMA InitIInv == Init => IInv
<1> SUFFICES ASSUME Init PROVE IInv
  OBVIOUS
<1>1. TypeOK
  <2>1. 1 \in Version
    BY ConstantsAssumption DEF Version
  <2>2. chain \in Seq(ChainRule)
    BY EmptySeq DEF Init
  <2>3. proc \in [Lines(ver) -> ProcState]
    BY DEF Init, ProcState
  <2>4. jump \in BOOLEAN /\ ready \in BOOLEAN /\ wanted \in BOOLEAN /\ calm \in BOOLEAN
    BY Zenon DEF Init
  <2>5. fileVer = 1 /\ ver = 1 /\ dnsVer = 1 /\ line = 1 /\ rule = {} /\ table = {}
    BY DEF Init
  <2>6. QED
    BY <2>1, <2>2, <2>3, <2>4, <2>5 DEF Init, TypeOK, PC
<1>2. PolicyInv /\ ChainInv
  BY DEF Init, PolicyInv, ChainInv, InLoop
<1>3. QED
  BY <1>1, <1>2 DEF IInv

\* What an end of the container leaves is well typed.
LEMMA NoNamespaceTypes ==
  ASSUME TypeOK, NoNamespace
  PROVE  /\ policy' \in {"ACCEPT", "DROP"} /\ chain' \in Seq(ChainRule) /\ jump' \in BOOLEAN
         /\ ver' = ver /\ dnsVer' = dnsVer /\ line' \in Nat \ {0}
         /\ rule' \subseteq Lines(ver) /\ table' \subseteq Lines(ver)
         /\ proc' \in [Lines(ver) -> ProcState]
         /\ dns' \in {"none", "starting", "run", "dead"}
<1>1. chain' \in Seq(ChainRule)
  BY EmptySeq DEF NoNamespace
<1>2. proc' \in [Lines(ver) -> ProcState]
  BY DEF NoNamespace, ProcState
<1>3. jump' \in BOOLEAN
  BY Zenon DEF NoNamespace
<1>4. QED
  BY <1>1, <1>2, <1>3 DEF NoNamespace

LEMMA ExitTypes ==
  ASSUME TypeOK, Exit, opt' = opt, fileVer' = fileVer, wanted' \in BOOLEAN, calm' = calm
  PROVE  TypeOK'
<1>1. NoNamespace
  BY DEF Exit
<1>2. QED
  BY <1>1, NoNamespaceTypes DEF Exit, TypeOK, PC, run

\* An iptables -A of well-typed rules.
LEMMA AppendedTypes ==
  ASSUME TypeOK, pc' \in PC, NEW rs \in Seq(ChainRule), Appended(rs)
  PROVE  TypeOK'
<1>1. chain' \in Seq(ChainRule)
  BY ConcatProperties DEF Appended, TypeOK
<1>2. QED
  BY <1>1 DEF Appended, TypeOK, run, env

\* The rules the script appends are well typed.
LEMMA RuleTypes ==
  ASSUME NEW i \in Nat
  PROVE  UdpRules(i) \in Seq(ChainRule) /\ AcceptRules(i) \in Seq(ChainRule)
         /\ BlockRules \in Seq(ChainRule)
<1>1. \A k \in {"udp", "accept", "reply", "block"}, j \in Nat : [kind |-> k, line |-> j] \in ChainRule
  BY DEF ChainRule
<1>2. <<>> \in Seq(ChainRule)
  BY EmptySeq
<1> HIDE DEF ChainRule
<1>3. QED
  BY <1>1, <1>2 DEF UdpRules, AcceptRules, BlockRules, Reply

\* Every action preserves the types.
LEMMA TypeStep == IInv /\ [Next]_vars => TypeOK'
<1> SUFFICES ASSUME IInv, [Next]_vars PROVE TypeOK'
  OBVIOUS
<1> USE DEF IInv, TypeOK, Goto, PC, Booting, Building, Trapped, Cleaning, net, run, env
<1>0. MaxVersion \in Nat /\ Version = 1..MaxVersion
  BY ConstantsAssumption DEF Version
<1>1. CASE RemoveRunFiles
  BY <1>1 DEF RemoveRunFiles
<1>2. CASE ClosePolicy
  BY <1>2 DEF ClosePolicy, BootPolicy
<1>3. CASE InitChain
  BY <1>3 DEF InitChain, ProcState, PolicyInv
<1>4. CASE TunnelDevice
  BY <1>4 DEF TunnelDevice
<1>5. CASE AddRule
  BY <1>5 DEF AddRule, PolicyInv, InLoop
<1>6. CASE UdpRule
  BY <1>6, RuleTypes, AppendedTypes DEF UdpRule
<1>7. CASE AcceptRule
  BY <1>7, RuleTypes, AppendedTypes DEF AcceptRule
<1>8. CASE StartTunnel
  BY <1>8, ExitTypes DEF StartTunnel, ProcState
<1>9. CASE EndOfRoutes
  BY <1>9, ExitTypes DEF EndOfRoutes
<1>10. CASE StartDns
  BY <1>10 DEF StartDns
<1>11. CASE BlockUnmapped
  BY <1>11, RuleTypes, AppendedTypes DEF BlockUnmapped
<1>12. CASE DeclareReady
  BY <1>12 DEF DeclareReady
<1>13. CASE ArmTrap
  BY <1>13 DEF ArmTrap
<1>14. CASE CleanupStart
  <2>1. proc' \in [Lines(ver) -> ProcState]
    BY <1>14 DEF CleanupStart, ProcState
  <2>2. ready' \in BOOLEAN /\ table' \subseteq Lines(ver)
    BY <1>14 DEF CleanupStart
  <2>3. QED
    BY <1>14, <2>1, <2>2 DEF CleanupStart
<1>15. CASE CleanupLine
  BY <1>15 DEF CleanupLine
<1>16. CASE CleanupDone
  BY <1>16, EmptySeq DEF CleanupDone
<1>17. CASE CleanupExit
  BY <1>17, ExitTypes DEF CleanupExit
<1>18. CASE Start
  BY <1>18 DEF Start
<1>19. CASE DockerStop
  <2>1. wanted' \in BOOLEAN
    BY <1>19, Zenon DEF DockerStop
  <2>2. CASE pc = "watch" \/ pc \in Trapped \cup {"down"}
    BY <1>19, <2>1, <2>2 DEF DockerStop
  <2>3. CASE Exit
    BY <1>19, <2>1, <2>3, ExitTypes DEF DockerStop
  <2>4. QED
    BY <1>19, <2>2, <2>3 DEF DockerStop
<1>20. CASE DockerStart
  BY <1>20 DEF DockerStart
<1>21. CASE DockerRecreate
  BY <1>21, NoNamespaceTypes DEF DockerRecreate
<1>22. CASE Kill
  BY <1>22, ExitTypes DEF Kill
<1>23. CASE Probe
  BY <1>23 DEF Probe
<1>24. CASE Processes
  BY <1>24 DEF Processes, HevUp, TunnelDies, ProcState
<1>25. CASE DnsLoads
  BY <1>25 DEF DnsLoads
<1>26. CASE DnsDies
  BY <1>26 DEF DnsDies
<1>27. CASE Fail
  BY <1>27, ExitTypes DEF Fail
<1>28. CASE WriteRoutes
  BY <1>28, <1>0 DEF WriteRoutes
<1>29. CASE Calm
  BY <1>29 DEF Calm
<1>30. CASE UNCHANGED vars
  BY <1>30 DEF vars
<1>31. QED
  BY <1>1, <1>2, <1>3, <1>4, <1>5, <1>6, <1>7, <1>8, <1>9, <1>10, <1>11, <1>12,
     <1>13, <1>14, <1>15, <1>16, <1>17, <1>18, <1>19, <1>20, <1>21, <1>22, <1>23,
     <1>24, <1>25, <1>26, <1>27, <1>28, <1>29, <1>30
     DEF Next, Script, Docker

-----------------------------------------------------------------------------
\* An end of the container empties the namespace.
LEMMA ExitPolicy ==
  ASSUME pc' = "down", NoNamespace
  PROVE  PolicyInv' /\ ChainInv'
<1>1. rule' = {} /\ table' = {} /\ chain' = <<>> /\ ver' = ver /\ policy' = "ACCEPT"
  BY DEF NoNamespace
<1>2. \A i \in Lines(ver) : proc'[i] = "none"
  BY DEF NoNamespace
<1>3. Len(chain') = 0
  BY <1>1
<1>4. QED
  BY <1>1, <1>2, <1>3 DEF PolicyInv, ChainInv, InLoop

LEMMA PolicyStep == IInv /\ [Next]_vars => PolicyInv'
<1> SUFFICES ASSUME IInv, [Next]_vars PROVE PolicyInv'
  OBVIOUS
<1> USE DEF IInv, TypeOK, Goto, PC, Booting, Building, Trapped, Cleaning, net, run, env, PolicyInv, InLoop
<1>1. CASE RemoveRunFiles
  BY <1>1 DEF RemoveRunFiles
<1>2. CASE ClosePolicy
  BY <1>2 DEF ClosePolicy, BootPolicy
<1>3. CASE InitChain
  BY <1>3 DEF InitChain
<1>4. CASE TunnelDevice
  BY <1>4 DEF TunnelDevice
<1>5. CASE AddRule
  BY <1>5 DEF AddRule
<1>6. CASE UdpRule
  BY <1>6 DEF UdpRule, Appended
<1>7. CASE AcceptRule
  BY <1>7 DEF AcceptRule, Appended
<1>8. CASE StartTunnel
  BY <1>8, ExitPolicy DEF StartTunnel, Exit
<1>9. CASE EndOfRoutes
  BY <1>9, ExitPolicy DEF EndOfRoutes, Exit
<1>10. CASE StartDns
  BY <1>10 DEF StartDns
<1>11. CASE BlockUnmapped
  BY <1>11 DEF BlockUnmapped, Appended
<1>12. CASE DeclareReady
  BY <1>12 DEF DeclareReady
<1>13. CASE ArmTrap
  BY <1>13 DEF ArmTrap
<1>14. CASE CleanupStart
  BY <1>14 DEF CleanupStart
<1>15. CASE CleanupLine
  BY <1>15 DEF CleanupLine
<1>16. CASE CleanupDone
  BY <1>16 DEF CleanupDone
<1>17. CASE CleanupExit
  BY <1>17, ExitPolicy DEF CleanupExit, Exit
<1>18. CASE Start
  BY <1>18 DEF Start
<1>19. CASE DockerStop
  BY <1>19, ExitPolicy DEF DockerStop, Exit
<1>20. CASE DockerStart
  BY <1>20 DEF DockerStart
<1>21. CASE DockerRecreate
  BY <1>21, ExitPolicy DEF DockerRecreate
<1>22. CASE Kill
  BY <1>22, ExitPolicy DEF Kill, Exit
<1>23. CASE Probe
  BY <1>23 DEF Probe
<1>24. CASE Processes
  BY <1>24 DEF Processes, HevUp, TunnelDies
<1>25. CASE DnsLoads
  BY <1>25 DEF DnsLoads
<1>26. CASE DnsDies
  BY <1>26 DEF DnsDies
<1>27. CASE Fail
  BY <1>27, ExitPolicy DEF Fail, Exit
<1>28. CASE WriteRoutes
  BY <1>28 DEF WriteRoutes
<1>29. CASE Calm
  BY <1>29 DEF Calm
<1>30. CASE UNCHANGED vars
  BY <1>30 DEF vars
<1>31. QED
  BY <1>1, <1>2, <1>3, <1>4, <1>5, <1>6, <1>7, <1>8, <1>9, <1>10, <1>11, <1>12,
     <1>13, <1>14, <1>15, <1>16, <1>17, <1>18, <1>19, <1>20, <1>21, <1>22, <1>23,
     <1>24, <1>25, <1>26, <1>27, <1>28, <1>29, <1>30
     DEF Next, Script, Docker

-----------------------------------------------------------------------------
\* Appending keeps every rule where it was.
LEMMA AppendedChain ==
  ASSUME TypeOK, NEW rs \in Seq(ChainRule), Appended(rs)
  PROVE  /\ Len(chain) \in Nat /\ Len(rs) \in Nat
         /\ Len(chain') = Len(chain) + Len(rs)
         /\ \A k \in 1..Len(chain) : chain'[k] = chain[k]
         /\ \A k \in 1..Len(rs) : chain'[Len(chain) + k] = rs[k]
<1>1. chain \in Seq(ChainRule) /\ chain' = chain \o rs
  BY DEF TypeOK, Appended
<1>2. Len(chain) \in Nat /\ Len(rs) \in Nat
  BY <1>1
<1>3. Len(chain') = Len(chain) + Len(rs)
  BY <1>1, ConcatProperties
<1>4. \A i \in 1..(Len(chain) + Len(rs)) :
        chain'[i] = IF i <= Len(chain) THEN chain[i] ELSE rs[i - Len(chain)]
  BY <1>1, ConcatProperties
<1>5. QED
  BY <1>2, <1>3, <1>4

\* A step that leaves the chain alone, or empties it, keeps its order.
LEMMA SameChain ==
  ASSUME ChainInv, chain' = chain, ver' = ver, opt' = opt, pc' # "accept" \/ UNCHANGED <<pc, line>>
  PROVE  ChainInv'
BY DEF ChainInv, UdpRuleBefore

LEMMA EmptiedChain ==
  ASSUME chain' = <<>>, pc' # "accept"
  PROVE  ChainInv'
<1>1. Len(chain') = 0
  OBVIOUS
<1>2. QED
  BY <1>1 DEF ChainInv

\* The UDP rule of a line goes in before its ACCEPT.
LEMMA UdpRuleChain == IInv /\ UdpRule => ChainInv'
<1> SUFFICES ASSUME IInv, UdpRule PROVE ChainInv'
  OBVIOUS
<1> DEFINE rs == UdpRules(line)
<1>1. /\ rs \in Seq(ChainRule) /\ TypeOK /\ Appended(rs)
      /\ line' = line /\ ver' = ver /\ opt' = opt /\ pc' = "accept"
  BY RuleTypes DEF UdpRule, IInv, TypeOK, Appended, Goto, env
<1>2. /\ Len(chain) \in Nat /\ Len(rs) \in Nat /\ Len(chain') = Len(chain) + Len(rs)
      /\ \A k \in 1..Len(chain) : chain'[k] = chain[k]
      /\ \A k \in 1..Len(rs) : chain'[Len(chain) + k] = rs[k]
  BY <1>1, AppendedChain
<1>3. CASE opt.udp = "tunnel"
  <2>1. Len(rs) = 0
    BY <1>3 DEF UdpRules
  <2>2. QED
    BY <1>1, <1>2, <1>3, <2>1 DEF ChainInv, IInv
<1>4. CASE opt.udp # "tunnel"
  <2>1. Len(rs) = 1 /\ rs[1].kind = "udp" /\ rs[1].line = line
    BY <1>4 DEF UdpRules
  <2> HIDE DEF rs
  <2>2. Len(chain') = Len(chain) + 1 /\ chain'[Len(chain) + 1] = rs[1]
    BY <1>2, <2>1
  <2>3. ASSUME NEW k \in 1..Len(chain'), chain'[k].kind = "accept"
        PROVE  chain'[k].line \in Lines(ver) /\ UdpRuleBefore(chain', k, chain'[k].line)
    <3>1. k \in 1..Len(chain)
      BY <1>2, <2>1, <2>2, <2>3
    <3>2. chain[k].line \in Lines(ver) /\ UdpRuleBefore(chain, k, chain[k].line)
      BY <1>2, <1>4, <2>3, <3>1 DEF ChainInv, IInv
    <3>3. QED
      BY <1>2, <3>1, <3>2 DEF UdpRuleBefore
  <2>4. UdpRuleBefore(chain', Len(chain') + 1, line)
    <3>1. Len(chain) + 1 \in 1..(Len(chain') + 1 - 1)
      BY <1>2, <2>2
    <3>2. QED
      BY <2>1, <2>2, <3>1 DEF UdpRuleBefore
  <2>5. QED
    BY <1>1, <1>4, <2>3, <2>4 DEF ChainInv
<1>5. QED
  BY <1>3, <1>4

\* The ACCEPT of a line goes in where its UDP rule already stands.
LEMMA AcceptRuleChain == IInv /\ AcceptRule => ChainInv'
<1> SUFFICES ASSUME IInv, AcceptRule PROVE ChainInv'
  OBVIOUS
<1> DEFINE rs == AcceptRules(line)
<1>1. /\ rs \in Seq(ChainRule) /\ TypeOK /\ Appended(rs)
      /\ line' = line /\ ver' = ver /\ opt' = opt /\ pc = "accept" /\ pc' = "start"
  BY RuleTypes DEF AcceptRule, IInv, TypeOK, Appended, Goto, env
<1>2. Len(rs) = 2 /\ rs[1].kind = "accept" /\ rs[1].line = line /\ rs[2].kind = "reply"
  BY DEF AcceptRules, Reply
<1> HIDE DEF rs
<1>3. /\ Len(chain) \in Nat /\ Len(chain') = Len(chain) + 2
      /\ \A k \in 1..Len(chain) : chain'[k] = chain[k]
      /\ chain'[Len(chain) + 1] = rs[1] /\ chain'[Len(chain) + 2] = rs[2]
  <2>1. /\ Len(chain) \in Nat /\ Len(chain') = Len(chain) + Len(rs)
        /\ \A k \in 1..Len(chain) : chain'[k] = chain[k]
        /\ \A k \in 1..Len(rs) : chain'[Len(chain) + k] = rs[k]
    BY <1>1, AppendedChain
  <2>2. 1 \in 1..Len(rs) /\ 2 \in 1..Len(rs)
    BY <1>2
  <2>3. QED
    BY <1>2, <2>1, <2>2
<1>4. ASSUME NEW k \in 1..Len(chain'), chain'[k].kind = "accept"
      PROVE  /\ chain'[k].line \in Lines(ver)
             /\ opt.udp # "tunnel" => UdpRuleBefore(chain', k, chain'[k].line)
  <2>1. CASE k \in 1..Len(chain)
    <3>1. /\ chain[k].line \in Lines(ver)
          /\ opt.udp # "tunnel" => UdpRuleBefore(chain, k, chain[k].line)
      BY <1>3, <1>4, <2>1 DEF ChainInv, IInv
    <3>2. QED
      BY <1>3, <2>1, <3>1 DEF UdpRuleBefore
  <2>2. CASE k = Len(chain) + 1
    <3>1. /\ line \in Lines(ver)
          /\ opt.udp # "tunnel" => UdpRuleBefore(chain, Len(chain) + 1, line)
      BY <1>1 DEF IInv, PolicyInv, ChainInv, InLoop
    <3>2. QED
      BY <1>2, <1>3, <2>2, <3>1 DEF UdpRuleBefore
  <2>3. k # Len(chain) + 2
    BY <1>2, <1>3, <1>4
  <2>4. QED
    BY <1>3, <2>1, <2>2, <2>3
<1>5. QED
  BY <1>1, <1>4 DEF ChainInv

\* The rules that block are not ACCEPTs.
LEMMA BlockChain == IInv /\ BlockUnmapped => ChainInv'
<1> SUFFICES ASSUME IInv, BlockUnmapped PROVE ChainInv'
  OBVIOUS
<1> DEFINE rs == BlockRules
<1>1. /\ rs \in Seq(ChainRule) /\ TypeOK /\ Appended(rs) /\ ver' = ver /\ opt' = opt /\ pc' = "ready"
  BY RuleTypes DEF BlockUnmapped, IInv, TypeOK, Appended, Goto, env
<1>2. \A k \in 1..Len(rs) : rs[k].kind # "accept"
  BY DEF BlockRules
<1> HIDE DEF rs
<1>3. /\ Len(chain) \in Nat /\ Len(rs) \in Nat /\ Len(chain') = Len(chain) + Len(rs)
      /\ \A k \in 1..Len(chain) : chain'[k] = chain[k]
      /\ \A k \in 1..Len(rs) : chain'[Len(chain) + k] = rs[k]
  BY <1>1, AppendedChain
<1>4. ASSUME NEW k \in 1..Len(chain'), chain'[k].kind = "accept"
      PROVE  k \in 1..Len(chain)
  <2>1. SUFFICES ASSUME k > Len(chain) PROVE FALSE
    BY <1>3
  <2>2. k - Len(chain) \in 1..Len(rs) /\ k = Len(chain) + (k - Len(chain))
    BY <1>3, <2>1
  <2>3. QED
    BY <1>2, <1>3, <1>4, <2>2
<1>5. ASSUME NEW k \in 1..Len(chain'), chain'[k].kind = "accept"
      PROVE  /\ chain'[k].line \in Lines(ver)
             /\ opt.udp # "tunnel" => UdpRuleBefore(chain', k, chain'[k].line)
  <2>1. k \in 1..Len(chain) /\ chain'[k] = chain[k]
    BY <1>3, <1>4, <1>5
  <2>2. /\ chain[k].line \in Lines(ver)
        /\ opt.udp # "tunnel" => UdpRuleBefore(chain, k, chain[k].line)
    BY <1>5, <2>1 DEF IInv, ChainInv
  <2>3. QED
    BY <1>3, <2>1, <2>2 DEF UdpRuleBefore
<1>6. QED
  BY <1>1, <1>5 DEF ChainInv

LEMMA ChainStep == IInv /\ [Next]_vars => ChainInv'
<1> SUFFICES ASSUME IInv, [Next]_vars PROVE ChainInv'
  OBVIOUS
<1> USE DEF IInv, Goto, net, run, env
<1>1. CASE UdpRule \/ AcceptRule \/ BlockUnmapped
  BY <1>1, UdpRuleChain, AcceptRuleChain, BlockChain
<1>2. CASE InitChain \/ CleanupDone
  BY <1>2, EmptiedChain DEF InitChain, CleanupDone
<1>3. CASE CleanupExit \/ Kill \/ Fail \/ DockerRecreate
  BY <1>3, ExitPolicy DEF CleanupExit, Kill, Fail, DockerRecreate, Exit
<1>4. CASE StartTunnel \/ EndOfRoutes
  BY <1>4, ExitPolicy, SameChain DEF StartTunnel, EndOfRoutes, Exit
<1>5. CASE DockerStop
  BY <1>5, ExitPolicy, SameChain DEF DockerStop, Exit
<1>6. CASE RemoveRunFiles \/ ClosePolicy \/ TunnelDevice \/ AddRule \/ StartDns \/ DeclareReady \/ ArmTrap
  BY <1>6, SameChain DEF RemoveRunFiles, ClosePolicy, TunnelDevice, AddRule, StartDns, DeclareReady, ArmTrap
<1>7. CASE CleanupStart \/ CleanupLine \/ Start \/ DockerStart \/ Probe
  <2>1. CASE CleanupStart \/ Start
    BY <2>1, SameChain DEF CleanupStart, Start
  <2>2. CASE CleanupLine
    BY <2>2, SameChain DEF CleanupLine
  <2>3. CASE DockerStart \/ Probe
    BY <2>3, SameChain DEF DockerStart, Probe
  <2>4. QED
    BY <1>7, <2>1, <2>2, <2>3
<1>8. CASE Processes \/ DnsLoads \/ DnsDies \/ WriteRoutes \/ Calm \/ UNCHANGED vars
  BY <1>8, SameChain DEF Processes, HevUp, TunnelDies, DnsLoads, DnsDies, WriteRoutes, Calm, vars
<1>9. QED
  BY <1>1, <1>2, <1>3, <1>4, <1>5, <1>6, <1>7, <1>8 DEF Next, Script, Docker

-----------------------------------------------------------------------------
\* The strengthening that the safety theorems rest on.
THEOREM Inductive == Spec => []IInv
<1>1. Init => IInv
  BY InitIInv
<1>2. IInv /\ [Next]_vars => IInv'
  BY TypeStep, PolicyStep, ChainStep DEF IInv
<1>3. QED
  BY <1>1, <1>2, PTL DEF Spec

\* The router's variables stay in their types, for every routes file and policy.
THEOREM TypeCorrect == Spec => []TypeOK
<1>1. IInv => TypeOK
  BY DEF IInv
<1>2. QED
  BY <1>1, Inductive, PTL

\* A lookup answers with the main table or with a line of the sender.
LEMMA LookupIsOwn ==
  ASSUME IInv, NEW c \in Client
  PROVE  \/ RouteOut(c) = 0
         \/ RouteOut(c) \in Lines(ver) /\ ClientOf(RouteOut(c)) = c
<1> DEFINE hit == {i \in rule \cap table : ClientOf(i) = c}
<1>1. hit \subseteq Lines(ver) /\ hit \in SUBSET Nat
  BY LinesAreNumbers DEF IInv, TypeOK
<1>2. hit # {} => FirstOf(hit) \in hit
  BY <1>1, LeastExists
<1>3. QED
  BY <1>1, <1>2 DEF RouteOut

\* The rule that decides a packet is the first of those that match it.
LEMMA DecidingRule ==
  ASSUME IInv, NEW c, NEW p, NEW out, jump,
         NEW k \in DOMAIN chain, Matches(chain[k], c, p, out), Forwarded(c, p, out)
  PROVE  \E m \in 1..Len(chain) :
           /\ Matches(chain[m], c, p, out) /\ chain[m].kind = "accept"
           /\ \A j \in 1..Len(chain) : Matches(chain[j], c, p, out) => m <= j
<1> DEFINE hit == {j \in DOMAIN chain : Matches(chain[j], c, p, out)}
<1>1. DOMAIN chain = 1..Len(chain) /\ Len(chain) \in Nat
  BY DEF IInv, TypeOK
<1>2. hit \in SUBSET Nat /\ hit # {}
  BY <1>1
<1>3. FirstOf(hit) \in hit /\ \A j \in hit : FirstOf(hit) <= j
  BY <1>2, LeastExists
<1>4. Accepts(chain[FirstOf(hit)])
  BY <1>2 DEF Forwarded
<1>5. QED
  BY <1>1, <1>3, <1>4 DEF Accepts

\* With a closed policy a packet is forwarded only into a tunnel of its sender.
LEMMA ForwardedIntoTunnel ==
  ASSUME IInv, policy = "DROP", NEW c \in Client, NEW p, NEW out, Forwarded(c, p, out)
  PROVE  /\ out \in Lines(ver) /\ ClientOf(out) = c
         /\ opt.udp # "tunnel" => p # "udp"
<1>1. PICK k \in DOMAIN chain : jump /\ Matches(chain[k], c, p, out)
  BY DEF Forwarded
<1>2. PICK m \in 1..Len(chain) :
        /\ Matches(chain[m], c, p, out) /\ chain[m].kind = "accept"
        /\ \A j \in 1..Len(chain) : Matches(chain[j], c, p, out) => m <= j
  BY <1>1, DecidingRule
<1>3. chain[m].line = out /\ ClientOf(out) = c
  BY <1>2 DEF Matches
<1>4. out \in Lines(ver) /\ (opt.udp # "tunnel" => UdpRuleBefore(chain, m, out))
  BY <1>2, <1>3 DEF IInv, ChainInv
<1>5. ASSUME opt.udp # "tunnel", p = "udp" PROVE FALSE
  <2>1. Len(chain) \in Nat
    BY DEF IInv, TypeOK
  <2>2. PICK j \in 1..(m - 1) : chain[j].kind = "udp" /\ chain[j].line = out
    BY <1>4, <1>5 DEF UdpRuleBefore
  <2>3. Matches(chain[j], c, p, out)
    BY <1>3, <1>5, <2>2 DEF Matches
  <2>4. j \in 1..Len(chain) /\ ~ (m <= j)
    BY <2>1, <2>2
  <2>5. QED
    BY <1>2, <2>3, <2>4
<1>6. QED
  BY <1>3, <1>4, <1>5

\* Line 0 is not a line: the main table is never a tunnel.
LEMMA MainIsNoTunnel == ASSUME IInv PROVE 0 \notin Lines(ver)
BY LinesAreNumbers DEF IInv, TypeOK

\* Once the policy is closed no packet of any client reaches the uplink, for every
\* routes file, engine and policy setting, through every crash and cleanup.
THEOREM NoUplinkWhenGuarded == Spec => []UplinkOnlyUnguarded
<1>1. IInv => UplinkOnlyUnguarded
  <2> SUFFICES ASSUME IInv, NEW c \in Client, NEW p \in Protocols, ExitOf(c, p) = Uplink, ~Unguarded
               PROVE  FALSE
    BY DEF UplinkOnlyUnguarded
  <2>1. pc # "down" /\ Forwarded(c, p, RouteOut(c)) /\ Through(RouteOut(c)) = Uplink
    BY ConstantsAssumption DEF ExitOf
  <2>2. policy = "DROP"
    BY <2>1 DEF IInv, PolicyInv, Unguarded
  <2>3. RouteOut(c) \in Lines(ver)
    BY <2>1, <2>2, ForwardedIntoTunnel
  <2>4. ProxyOf(RouteOut(c)) \in Proxy
    BY <2>3, LinesAreNumbers DEF ProxyOf, Entry, IInv, TypeOK
  <2>5. QED
    BY <2>1, <2>3, <2>4, MainIsNoTunnel, ConstantsAssumption DEF Through
<1>2. QED
  BY <1>1, Inductive, PTL

\* Whatever proxy carries a packet, the routes file assigns it to the sender.
THEOREM OwnProxyOnly == Spec => []ExitIsAssigned
<1>1. IInv => ExitIsAssigned
  <2> SUFFICES ASSUME IInv, NEW c \in Client, NEW p \in Protocols, ExitOf(c, p) \in Proxy
               PROVE  \E i \in Lines(ver) : Routes[ver][i] = [client |-> c, proxy |-> ExitOf(c, p)]
    BY DEF ExitIsAssigned
  <2>1. ExitOf(c, p) = Through(RouteOut(c)) /\ RouteOut(c) # 0 /\ ExitOf(c, p) = ProxyOf(RouteOut(c))
    BY ConstantsAssumption DEF ExitOf, Through
  <2>2. RouteOut(c) \in Lines(ver) /\ ClientOf(RouteOut(c)) = c
    BY <2>1, LookupIsOwn
  <2>3. Routes[ver][RouteOut(c)] \in Entry
    BY <2>2, LinesAreNumbers DEF IInv, TypeOK
  <2>4. QED
    BY <2>1, <2>2, <2>3 DEF Entry, ClientOf, ProxyOf
<1>2. QED
  BY <1>1, Inductive, PTL

\* Where UDP is not to be tunnelled, it never is: not even while the chain is half
\* built.
THEOREM UdpContained == Spec => []UdpNeverTunnelled
<1>1. IInv => UdpNeverTunnelled
  <2> SUFFICES ASSUME IInv, opt.udp # "tunnel", NEW c \in Client, ExitOf(c, "udp") \in Proxy
               PROVE  FALSE
    BY DEF UdpNeverTunnelled
  <2>1. pc # "down" /\ Forwarded(c, "udp", RouteOut(c)) /\ RouteOut(c) # 0
    BY ConstantsAssumption DEF ExitOf, Through
  <2>2. RouteOut(c) \in rule
    <3> DEFINE hit == {i \in rule \cap table : ClientOf(i) = c}
    <3>1. hit # {} /\ hit \in SUBSET Nat
      BY <2>1, LinesAreNumbers DEF RouteOut, IInv, TypeOK
    <3>2. QED
      BY <3>1, LeastExists DEF RouteOut
  <2>3. policy = "DROP"
    BY <2>1, <2>2 DEF IInv, PolicyInv
  <2>4. QED
    BY <2>1, <2>3, ForwardedIntoTunnel
<1>2. QED
  BY <1>1, Inductive, PTL

-----------------------------------------------------------------------------
(* Refinement of ExitGate.                                                 *)

GuardedExits ==
  ~Unguarded => \A c \in Client : ExitOf(c, "tcp") \in {ProxyOf(i) : i \in Mapped(c)} \cup {Blocked}

UnguardedExits == Unguarded => \A c \in Client : ExitOf(c, "tcp") = Uplink

EmptyExits == pc \in {"down", "chain"} \/ (pc = "device" /\ rule = {}) => \A c \in Client : ExitOf(c, "tcp") = Blocked

\* With no rule installed every lookup falls through to the main table.
LEMMA NoRuleNoTunnel == ASSUME rule = {}, NEW c PROVE RouteOut(c) = 0
BY DEF RouteOut

\* Where a TCP packet ends, by how far the boot has come.
LEMMA Exits == IInv => GuardedExits /\ UnguardedExits /\ EmptyExits
<1> SUFFICES ASSUME IInv PROVE GuardedExits /\ UnguardedExits /\ EmptyExits
  OBVIOUS
<1>1. ASSUME ~Unguarded, NEW c \in Client
      PROVE  ExitOf(c, "tcp") \in {ProxyOf(i) : i \in Mapped(c)} \cup {Blocked}
  <2>1. SUFFICES ASSUME pc # "down", Forwarded(c, "tcp", RouteOut(c))
                 PROVE  ExitOf(c, "tcp") \in {ProxyOf(i) : i \in Mapped(c)} \cup {Blocked}
    BY DEF ExitOf
  <2>2. policy = "DROP"
    BY <1>1, <2>1 DEF IInv, PolicyInv, Unguarded
  <2>3. RouteOut(c) \in Mapped(c) /\ RouteOut(c) # 0
    BY <2>1, <2>2, ForwardedIntoTunnel, MainIsNoTunnel DEF Mapped
  <2>4. QED
    BY <2>1, <2>3 DEF ExitOf, Through
<1>2. ASSUME Unguarded, NEW c \in Client PROVE ExitOf(c, "tcp") = Uplink
  <2>1. policy = "ACCEPT" /\ rule = {} /\ chain = <<>> /\ pc # "down"
    BY <1>2 DEF IInv, PolicyInv, Unguarded
  <2>2. RouteOut(c) = 0
    BY <2>1, NoRuleNoTunnel
  <2>3. Forwarded(c, "tcp", RouteOut(c))
    BY <2>1 DEF Forwarded
  <2>4. QED
    BY <2>1, <2>2, <2>3 DEF ExitOf, Through
<1>3. ASSUME pc \in {"down", "chain"} \/ (pc = "device" /\ rule = {}), NEW c \in Client
      PROVE  ExitOf(c, "tcp") = Blocked
  <2>1. SUFFICES ASSUME pc # "down", Forwarded(c, "tcp", RouteOut(c)) PROVE FALSE
    BY DEF ExitOf
  <2>2. policy = "DROP" /\ rule = {}
    BY <1>3, <2>1 DEF IInv, PolicyInv
  <2>3. RouteOut(c) \in Lines(ver) /\ RouteOut(c) = 0
    BY <2>1, <2>2, ForwardedIntoTunnel, NoRuleNoTunnel
  <2>4. QED
    BY <2>3, MainIsNoTunnel
<1>4. QED
  BY <1>1, <1>2, <1>3 DEF GuardedExits, UnguardedExits, EmptyExits

Passes == ver' = ver /\ Unguarded' = Unguarded
Opens == ver' = ver /\ pc = "down" /\ pc' = "clean"
Closes == ver' = ver /\ Unguarded /\ pc' \in {"down", "chain"}
Reads == pc = "chain" /\ pc' = "device" /\ rule' = {}

\* What a step of the router is, seen from the gate.
LEMMA GateStep == IInv /\ [Next]_vars => Passes \/ Opens \/ Closes \/ Reads
<1> SUFFICES ASSUME IInv, [Next]_vars PROVE Passes \/ Opens \/ Closes \/ Reads
  OBVIOUS
<1> USE DEF Passes, Opens, Closes, Reads, Unguarded, Goto, net, run, env
<1>1. CASE Exit \/ DockerRecreate \/ CleanupExit \/ Kill \/ Fail
  BY <1>1 DEF Exit, NoNamespace, DockerRecreate, CleanupExit, Kill, Fail
<1>2. CASE InitChain
  BY <1>2 DEF InitChain, IInv, PolicyInv
<1>3. CASE Start \/ ClosePolicy \/ RemoveRunFiles
  BY <1>3 DEF Start, ClosePolicy, RemoveRunFiles
<1>4. CASE TunnelDevice \/ AddRule \/ UdpRule \/ AcceptRule \/ StartDns \/ BlockUnmapped
  BY <1>4 DEF TunnelDevice, AddRule, UdpRule, AcceptRule, Appended, StartDns, BlockUnmapped
<1>5. CASE StartTunnel \/ EndOfRoutes
  BY <1>1, <1>5 DEF StartTunnel, EndOfRoutes
<1>6. CASE DeclareReady \/ ArmTrap \/ CleanupStart \/ CleanupLine \/ CleanupDone
  BY <1>6 DEF DeclareReady, ArmTrap, CleanupStart, CleanupLine, CleanupDone
<1>7. CASE DockerStop
  BY <1>1, <1>7 DEF DockerStop
<1>8. CASE DockerStart \/ Probe \/ WriteRoutes \/ Calm \/ UNCHANGED vars
  BY <1>8 DEF DockerStart, Probe, WriteRoutes, Calm, vars
<1>9. CASE Processes \/ DnsLoads \/ DnsDies
  BY <1>9 DEF Processes, HevUp, TunnelDies, DnsLoads, DnsDies
<1>10. QED
  BY <1>1, <1>2, <1>3, <1>4, <1>5, <1>6, <1>7, <1>8, <1>9 DEF Next, Script, Docker

\* The router implements the gate: every step is a step of ExitGate or a stutter.
THEOREM Refinement == Spec => RefinesExitGate
<1> DEFINE Assigned(c) == {ProxyOf(i) : i \in Mapped(c)}
           gate == [c \in Client |-> ExitOf(c, "tcp")]
           map == [c \in Client |-> Assigned(c)]
<1>1. Init => Gate!Init
  <2> SUFFICES ASSUME Init PROVE Gate!Init
    OBVIOUS
  <2>1. IInv
    BY InitIInv
  <2>2. \A c \in Client : ExitOf(c, "tcp") = Blocked
    BY <2>1, Exits DEF Init, EmptyExits
  <2>3. \A c \in Client : Assigned(c) \subseteq Proxy
    BY <2>1, LinesAreNumbers DEF Mapped, ProxyOf, Entry, IInv, TypeOK
  <2>4. QED
    BY <2>2, <2>3 DEF Gate!Init, Gate!AllBlocked, Init, Unguarded
<1>2. IInv /\ IInv' /\ [Next]_vars => [Gate!Next]_(Gate!vars)
  <2> SUFFICES ASSUME IInv, IInv', [Next]_vars PROVE [Gate!Next]_(Gate!vars)
    OBVIOUS
  <2>1. /\ GuardedExits /\ UnguardedExits /\ EmptyExits
        /\ GuardedExits' /\ UnguardedExits' /\ EmptyExits'
    BY Exits, PTL
  <2>2. ver' = ver => map' = map
    BY DEF Mapped, ProxyOf, ClientOf
  <2>3. CASE Passes /\ Unguarded
    <3>1. gate' = gate
      BY <2>1, <2>3 DEF UnguardedExits, Passes
    <3>2. QED
      BY <2>2, <2>3, <3>1 DEF Gate!vars, Passes
  <2>4. CASE Passes /\ ~Unguarded
    <3>1. \A c \in Client : gate'[c] \in map[c] \cup {Blocked}
      <4>1. \A c \in Client : gate'[c] \in map'[c] \cup {Blocked}
        BY <2>1, <2>4 DEF GuardedExits, Passes
      <4>2. QED
        BY <2>2, <2>4, <4>1 DEF Passes
    <3>2. QED
      BY <2>2, <2>4, <3>1 DEF Gate!Next, Gate!Flow, Passes
  <2>5. CASE Opens
    <3>1. gate = [c \in Client |-> Blocked] /\ gate' = [c \in Client |-> Uplink]
      BY <2>1, <2>5 DEF Opens, EmptyExits, UnguardedExits, Unguarded
    <3>2. QED
      BY <2>2, <2>5, <3>1 DEF Gate!Next, Gate!Unguard, Gate!AllBlocked, Opens, Unguarded
  <2>6. CASE Closes
    <3>1. gate' = [c \in Client |-> Blocked]
      BY <2>1, <2>6 DEF Closes, EmptyExits
    <3>2. QED
      BY <2>2, <2>6, <3>1 DEF Gate!Next, Gate!Guard, Gate!AllBlocked, Closes, Unguarded
  <2>7. CASE Reads
    <3>1. gate = [c \in Client |-> Blocked] /\ gate' = [c \in Client |-> Blocked]
      BY <2>1, <2>7 DEF Reads, EmptyExits
    <3>2. \A c \in Client : map'[c] \subseteq Proxy
      <4>1. ver' \in Version
        BY DEF IInv, TypeOK
      <4>2. QED
        BY <4>1, LinesAreNumbers DEF Mapped, ProxyOf, Entry
    <3>3. map' \in [Client -> SUBSET Proxy]
      BY <3>2
    <3>4. QED
      BY <2>7, <3>1, <3>3 DEF Gate!Next, Gate!Reassign, Gate!AllBlocked, Reads, Unguarded
  <2>8. QED
    BY <2>3, <2>4, <2>5, <2>6, <2>7, GateStep
<1>3. QED
  BY <1>1, <1>2, Inductive, PTL DEF Spec, RefinesExitGate, Gate!Spec

-----------------------------------------------------------------------------
\* The pids of this boot exist only once it has finished building.
BuiltInv ==
  /\ pids = "current" => pc \in {"down", "arm"} \cup Trapped
  /\ HealthyMeansBuilt

LEMMA BuiltStep == BuiltInv /\ [Next]_vars => BuiltInv'
<1> SUFFICES ASSUME BuiltInv, [Next]_vars PROVE BuiltInv'
  OBVIOUS
<1> USE DEF BuiltInv, HealthyMeansBuilt, Trapped, Cleaning, Goto, run, env
<1>1. CASE Exit \/ DockerRecreate \/ CleanupExit \/ Kill \/ Fail
  BY <1>1 DEF Exit, DockerRecreate, CleanupExit, Kill, Fail
<1>2. CASE Start \/ DockerStop \/ DockerStart
  BY <1>1, <1>2 DEF Start, DockerStop, DockerStart
<1>3. CASE Probe
  BY <1>3 DEF Probe, HealthOk
<1>4. CASE RemoveRunFiles \/ ClosePolicy \/ InitChain \/ TunnelDevice \/ AddRule
  BY <1>4 DEF RemoveRunFiles, ClosePolicy, InitChain, TunnelDevice, AddRule
<1>5. CASE UdpRule \/ AcceptRule \/ StartDns \/ BlockUnmapped
  BY <1>5 DEF UdpRule, AcceptRule, StartDns, BlockUnmapped, Appended
<1>6. CASE StartTunnel \/ EndOfRoutes
  BY <1>1, <1>6 DEF StartTunnel, EndOfRoutes
<1>7. CASE DeclareReady \/ ArmTrap
  BY <1>7 DEF DeclareReady, ArmTrap
<1>8. CASE CleanupStart \/ CleanupLine \/ CleanupDone
  BY <1>8 DEF CleanupStart, CleanupLine, CleanupDone
<1>9. CASE Processes \/ DnsLoads \/ DnsDies
  BY <1>9 DEF Processes, HevUp, TunnelDies, DnsLoads, DnsDies
<1>10. CASE WriteRoutes \/ Calm \/ UNCHANGED vars
  BY <1>10 DEF WriteRoutes, Calm, vars
<1>11. QED
  BY <1>1, <1>2, <1>3, <1>4, <1>5, <1>6, <1>7, <1>8, <1>9, <1>10 DEF Next, Script, Docker

\* Files under /run that an earlier boot left never make a container healthy: the status
\* on which the launcher releases the workers means that this boot has been built.
THEOREM HealthIsOfThisBoot == Spec => []HealthyMeansBuilt
<1>1. Init => BuiltInv
  BY DEF Init, BuiltInv, HealthyMeansBuilt
<1>2. BuiltInv => HealthyMeansBuilt
  BY DEF BuiltInv
<1>3. QED
  BY <1>1, <1>2, BuiltStep, PTL DEF Spec
-----------------------------------------------------------------------------
(* A ready router serves every line.                                       *)

PastLoop == {"dns", "block", "ready", "arm", "watch"}
Loaded == {"device", "rule", "udp", "accept", "start"} \cup PastLoop
BlocksAdded == {"ready", "arm"} \cup Trapped

\* What a pass of the loop has installed, and the end of the loop over every line.
Installed ==
  pc \in Loaded =>
    /\ jump
    /\ pc \in PastLoop => line \notin Lines(ver)
    /\ \A i \in Lines(ver) :
         /\ i < line => proc[i] # "none"
         /\ i < line \/ (i = line /\ pc \in {"udp", "accept", "start"}) => i \in rule

Has(ch, r) == \E k \in 1..Len(ch) : ch[k] = r
Accept(i) == [kind |-> "accept", line |-> i]

\* The lines the loop has passed have their rules in the chain.
Admitted ==
  pc \in Loaded => \A i \in Lines(ver) :
    i < line \/ (i = line /\ pc = "start") => Has(chain, Accept(i)) /\ Has(chain, Reply(i))

NoBlock(ch) == \A k \in 1..Len(ch) : ch[k].kind # "block"
AcceptsFirst(ch) ==
  \A k \in 1..Len(ch) : ch[k].kind = "accept" => \A j \in 1..k : ch[j].kind # "block"

\* A rule that blocks comes after every ACCEPT.
BlockLast == AcceptsFirst(chain) /\ (pc \notin BlocksAdded => NoBlock(chain))

ServeInv == Installed /\ Admitted /\ BlockLast

\* What the loop installs is there when it says so, and nothing that runs beside it takes
\* it away before the cleanup.
LEMMA InstalledStep == IInv /\ Installed /\ [Next]_vars => Installed'
<1> SUFFICES ASSUME IInv, Installed, [Next]_vars PROVE Installed'
  OBVIOUS
<1> USE DEF Installed, Loaded, PastLoop, Goto, net, run, env
<1>0. line \in Nat \ {0} /\ proc \in [Lines(ver) -> ProcState] /\ Lines(ver) \subseteq Nat \ {0}
  BY LinesAreNumbers DEF IInv, TypeOK
<1>1. CASE Exit \/ DockerRecreate \/ CleanupExit \/ Kill \/ Fail
  BY <1>1 DEF Exit, DockerRecreate, CleanupExit, Kill, Fail
<1>2. CASE Start \/ DockerStop \/ DockerStart \/ Probe
  BY <1>1, <1>2 DEF Start, DockerStop, DockerStart, Probe, Trapped, Cleaning
<1>3. CASE RemoveRunFiles \/ ClosePolicy
  BY <1>3 DEF RemoveRunFiles, ClosePolicy
<1>4. CASE InitChain
  <2>1. jump' /\ line' = 1 /\ pc' = "device"
    BY <1>4, Zenon DEF InitChain
  <2>2. \A i \in Lines(ver)' : ~ (i < line')
    BY <1>4, <2>1, LinesAreNumbers DEF InitChain, IInv, TypeOK
  <2>3. QED
    BY <2>1, <2>2
<1>5. CASE TunnelDevice
  BY <1>5 DEF TunnelDevice
<1>6. CASE AddRule
  BY <1>6, <1>0 DEF AddRule
<1>7. CASE UdpRule \/ AcceptRule \/ BlockUnmapped
  BY <1>7 DEF UdpRule, AcceptRule, BlockUnmapped, Appended
<1>8. CASE StartTunnel
  <2>1. CASE Exit
    BY <1>1, <2>1
  <2>2. CASE pc' = "device" /\ line' = line + 1 /\ proc' = [proc EXCEPT ![line] = "run"]
    <3>1. pc = "start" /\ UNCHANGED <<ver, jump, rule>> /\ jump
      BY <1>8, <2>2 DEF StartTunnel, Exit
    <3>2. \A i \in Lines(ver) : i < line' => i < line \/ i = line
      BY <1>0, <2>2
    <3>3. \A i \in Lines(ver) : i < line' => proc'[i] # "none" /\ i \in rule
      BY <1>0, <2>2, <3>1, <3>2
    <3>4. \A i \in Lines(ver') : i < line' => proc'[i] # "none" /\ i \in rule'
      BY <3>1, <3>3
    <3>5. pc' \notin PastLoop /\ pc' \notin {"udp", "accept", "start"} /\ jump'
      BY <2>2, <3>1
    <3>6. QED
      BY <3>4, <3>5
  <2>3. QED
    BY <1>8, <2>1, <2>2 DEF StartTunnel
<1>9. CASE EndOfRoutes
  BY <1>1, <1>9 DEF EndOfRoutes
<1>10. CASE StartDns \/ DeclareReady \/ ArmTrap
  BY <1>10 DEF StartDns, DeclareReady, ArmTrap
<1>11. CASE CleanupStart \/ CleanupLine \/ CleanupDone
  BY <1>11 DEF CleanupStart, CleanupLine, CleanupDone
<1>12. CASE Processes
  BY <1>0, <1>12 DEF Processes, HevUp, TunnelDies
<1>13. CASE DnsLoads \/ DnsDies \/ WriteRoutes \/ Calm \/ UNCHANGED vars
  BY <1>13 DEF DnsLoads, DnsDies, WriteRoutes, Calm, vars
<1>14. QED
  BY <1>1, <1>2, <1>3, <1>4, <1>5, <1>6, <1>7, <1>8, <1>9, <1>10, <1>11, <1>12, <1>13
     DEF Next, Script, Docker

\* Appending keeps what a chain has, and adds what is appended.
LEMMA AppendedHas ==
  ASSUME TypeOK, NEW rs \in Seq(ChainRule), Appended(rs)
  PROVE  /\ \A r : Has(chain, r) \/ Has(rs, r) => Has(chain', r)
         /\ NoBlock(rs) /\ NoBlock(chain) => NoBlock(chain')
         /\ NoBlock(rs) /\ AcceptsFirst(chain) /\ NoBlock(chain) => AcceptsFirst(chain')
         /\ (\A k \in 1..Len(rs) : rs[k].kind # "accept") /\ AcceptsFirst(chain) => AcceptsFirst(chain')
<1>1. /\ Len(chain) \in Nat /\ Len(rs) \in Nat
      /\ Len(chain') = Len(chain) + Len(rs)
      /\ \A k \in 1..Len(chain) : chain'[k] = chain[k]
      /\ \A k \in 1..Len(rs) : chain'[Len(chain) + k] = rs[k]
  BY AppendedChain
<1>2. ASSUME NEW r, Has(chain, r) PROVE Has(chain', r)
  <2>1. PICK k \in 1..Len(chain) : chain[k] = r
    BY <1>2 DEF Has
  <2>2. k \in 1..Len(chain') /\ chain'[k] = r
    BY <1>1, <2>1
  <2>3. QED
    BY <2>2 DEF Has
<1>3. ASSUME NEW r, Has(rs, r) PROVE Has(chain', r)
  <2>1. PICK k \in 1..Len(rs) : rs[k] = r
    BY <1>3 DEF Has
  <2>2. Len(chain) + k \in 1..Len(chain') /\ chain'[Len(chain) + k] = r
    BY <1>1, <2>1
  <2>3. QED
    BY <2>2 DEF Has
<1>4. ASSUME NEW k \in 1..Len(chain')
      PROVE  \/ k \in 1..Len(chain) /\ chain'[k] = chain[k]
             \/ k - Len(chain) \in 1..Len(rs) /\ chain'[k] = rs[k - Len(chain)]
  <2>1. CASE k <= Len(chain)
    BY <1>1, <2>1
  <2>2. CASE k > Len(chain)
    <3>1. k - Len(chain) \in 1..Len(rs) /\ Len(chain) + (k - Len(chain)) = k
      BY <1>1, <2>2
    <3>2. QED
      BY <1>1, <3>1
  <2>3. QED
    BY <1>1, <2>1, <2>2
<1>5. NoBlock(rs) /\ NoBlock(chain) => NoBlock(chain')
  BY <1>4 DEF NoBlock
<1>6. NoBlock(chain') => AcceptsFirst(chain')
  BY <1>1 DEF NoBlock, AcceptsFirst
<1>7. ASSUME \A k \in 1..Len(rs) : rs[k].kind # "accept", AcceptsFirst(chain)
      PROVE  AcceptsFirst(chain')
  <2>1. SUFFICES ASSUME NEW k \in 1..Len(chain'), chain'[k].kind = "accept", NEW j \in 1..k
                 PROVE  chain'[j].kind # "block"
    BY DEF AcceptsFirst
  <2>2. k \in 1..Len(chain) /\ chain[k].kind = "accept"
    BY <1>4, <1>7, <2>1
  <2>3. chain'[j] = chain[j]
    BY <1>1, <2>2
  <2>4. QED
    BY <1>7, <2>2, <2>3 DEF AcceptsFirst
<1>8. QED
  BY <1>2, <1>3, <1>5, <1>6, <1>7

\* The rules appended for a line block nothing, and those of an ACCEPT are both there.
LEMMA LineRules ==
  ASSUME NEW i \in Nat
  PROVE  /\ NoBlock(UdpRules(i)) /\ NoBlock(AcceptRules(i))
         /\ Has(AcceptRules(i), Accept(i)) /\ Has(AcceptRules(i), Reply(i))
         /\ \A k \in 1..Len(BlockRules) : BlockRules[k].kind # "accept"
<1>1. NoBlock(UdpRules(i))
  BY DEF NoBlock, UdpRules
<1>2. Len(AcceptRules(i)) = 2 /\ AcceptRules(i)[1] = Accept(i) /\ AcceptRules(i)[2] = Reply(i)
  BY DEF AcceptRules, Accept
<1>3. Accept(i).kind = "accept" /\ Reply(i).kind = "reply"
  BY DEF Accept, Reply
<1>4. NoBlock(AcceptRules(i))
  BY <1>2, <1>3 DEF NoBlock
<1>5. Has(AcceptRules(i), Accept(i)) /\ Has(AcceptRules(i), Reply(i))
  <2>1. 1 \in 1..Len(AcceptRules(i)) /\ 2 \in 1..Len(AcceptRules(i))
    BY <1>2
  <2>2. QED
    BY <1>2, <2>1 DEF Has
<1>6. \A k \in 1..Len(BlockRules) : BlockRules[k].kind # "accept"
  BY DEF BlockRules
<1>7. QED
  BY <1>1, <1>4, <1>5, <1>6

\* Steps that leave the chain alone and do not move the loop forward, and ends of the
\* container, keep the chain's invariants.
LEMMA ChainLeft ==
  ASSUME Admitted, BlockLast, chain' = chain, ver' = ver, line' = line,
         pc' \in Loaded => pc \in Loaded /\ (pc' = "start" => pc = "start"),
         pc \in BlocksAdded => pc' \in BlocksAdded
  PROVE  Admitted' /\ BlockLast'
<1>1. Admitted'
  BY DEF Admitted
<1>2. BlockLast'
  BY DEF BlockLast
<1>3. QED
  BY <1>1, <1>2

LEMMA ChainEmptied ==
  ASSUME chain' = <<>>, pc' \notin Loaded \/ (pc' = "device" /\ line' = 1 /\ ver' \in Version)
  PROVE  Admitted' /\ BlockLast'
<1>1. Len(chain') = 0
  OBVIOUS
<1>2. BlockLast'
  BY <1>1 DEF BlockLast, AcceptsFirst, NoBlock
<1>3. CASE pc' \notin Loaded
  BY <1>2, <1>3 DEF Admitted
<1>4. CASE pc' = "device" /\ line' = 1 /\ ver' \in Version
  <2>1. \A i \in Lines(ver)' : ~ (i < 1)
    BY <1>4, LinesAreNumbers
  <2>2. QED
    BY <1>2, <1>4, <2>1 DEF Admitted
<1>5. QED
  BY <1>3, <1>4

\* The chain grows by the rules of a line, and last by those that block.
LEMMA ChainGrows ==
  ASSUME IInv, Admitted, BlockLast, UdpRule \/ AcceptRule \/ BlockUnmapped
  PROVE  Admitted' /\ BlockLast'
<1>0. TypeOK /\ line \in Nat
  BY DEF IInv, TypeOK
<1> USE DEF Goto
<1>1. CASE UdpRule
  <2>1. Appended(UdpRules(line)) /\ UdpRules(line) \in Seq(ChainRule) /\ NoBlock(UdpRules(line))
    BY <1>0, <1>1, RuleTypes, LineRules DEF UdpRule
  <2>2. ver' = ver /\ line' = line /\ pc = "udp" /\ pc' = "accept"
    BY <1>1, <2>1 DEF UdpRule, Appended
  <2>3. Admitted'
    BY <1>0, <2>1, <2>2, AppendedHas DEF Admitted, Loaded
  <2>4. NoBlock(chain)
    BY <2>2 DEF BlockLast, BlocksAdded, Trapped, Cleaning
  <2>5. QED
    BY <1>0, <2>1, <2>3, <2>4, AppendedHas DEF BlockLast
<1>2. CASE AcceptRule
  <2>1. Appended(AcceptRules(line)) /\ AcceptRules(line) \in Seq(ChainRule) /\ NoBlock(AcceptRules(line))
    BY <1>0, <1>2, RuleTypes, LineRules DEF AcceptRule
  <2>2. ver' = ver /\ line' = line /\ pc = "accept" /\ pc' = "start"
    BY <1>2, <2>1 DEF AcceptRule, Appended
  <2>3. Has(chain', Accept(line)) /\ Has(chain', Reply(line))
    BY <1>0, <2>1, AppendedHas, LineRules
  <2>4. Admitted'
    BY <1>0, <2>1, <2>2, <2>3, AppendedHas DEF Admitted, Loaded
  <2>5. NoBlock(chain)
    BY <2>2 DEF BlockLast, BlocksAdded, Trapped, Cleaning
  <2>6. QED
    BY <1>0, <2>1, <2>4, <2>5, AppendedHas DEF BlockLast
<1>3. CASE BlockUnmapped
  <2>1. Appended(BlockRules) /\ BlockRules \in Seq(ChainRule) /\ \A k \in 1..Len(BlockRules) : BlockRules[k].kind # "accept"
    BY <1>0, <1>3, RuleTypes, LineRules DEF BlockUnmapped
  <2>2. ver' = ver /\ line' = line /\ pc = "block" /\ pc' = "ready"
    BY <1>3, <2>1 DEF BlockUnmapped, Appended
  <2>3. Admitted'
    BY <1>0, <2>1, <2>2, AppendedHas DEF Admitted, Loaded, PastLoop
  <2>4. AcceptsFirst(chain')
    BY <1>0, <2>1, AppendedHas DEF BlockLast
  <2>5. QED
    BY <2>2, <2>3, <2>4 DEF BlockLast, BlocksAdded
<1>4. QED
  BY <1>1, <1>2, <1>3

LEMMA AdmittedStep == IInv /\ Admitted /\ BlockLast /\ [Next]_vars => Admitted' /\ BlockLast'
<1> SUFFICES ASSUME IInv, Admitted, BlockLast, [Next]_vars PROVE Admitted' /\ BlockLast'
  OBVIOUS
<1> USE DEF Loaded, PastLoop, BlocksAdded, Trapped, Cleaning, Goto, net, run, env
<1>1. CASE Exit \/ DockerRecreate \/ CleanupExit \/ Kill \/ Fail
  BY <1>1, ChainEmptied DEF Exit, NoNamespace, DockerRecreate, CleanupExit, Kill, Fail
<1>2. CASE Start \/ DockerStart \/ Probe \/ RemoveRunFiles \/ ClosePolicy
  BY <1>2, ChainLeft DEF Start, DockerStart, Probe, RemoveRunFiles, ClosePolicy
<1>3. CASE DockerStop
  BY <1>1, <1>3, ChainLeft DEF DockerStop
<1>4. CASE InitChain
  BY <1>4, ChainEmptied DEF InitChain, IInv, TypeOK
<1>5. CASE TunnelDevice \/ AddRule \/ StartDns \/ DeclareReady \/ ArmTrap
  BY <1>5, ChainLeft DEF TunnelDevice, AddRule, StartDns, DeclareReady, ArmTrap
<1>6. CASE UdpRule \/ AcceptRule \/ BlockUnmapped
  BY <1>6, ChainGrows
<1>7. CASE StartTunnel
  <2>1. CASE Exit
    BY <1>1, <2>1
  <2>2. CASE pc' = "device" /\ line' = line + 1
    <3>1. chain' = chain /\ ver' = ver /\ pc = "start" /\ line \in Nat /\ Lines(ver) \subseteq Nat
      BY <1>7, <2>2, LinesAreNumbers DEF StartTunnel, Exit, IInv, TypeOK
    <3>2. \A i \in Lines(ver) : i < line' => i < line \/ i = line
      BY <2>2, <3>1
    <3>3. Admitted'
      BY <2>2, <3>1, <3>2 DEF Admitted
    <3>4. QED
      BY <2>2, <3>1, <3>3 DEF BlockLast
  <2>3. QED
    BY <1>7, <2>1, <2>2 DEF StartTunnel
<1>8. CASE EndOfRoutes
  BY <1>1, <1>8, ChainLeft DEF EndOfRoutes
<1>9. CASE CleanupStart
  <2>1. chain' = chain /\ pc' = "drop" /\ pc \in {"watch", "stop"}
    BY <1>9 DEF CleanupStart
  <2>2. QED
    BY <2>1 DEF Admitted, BlockLast
<1>10. CASE CleanupLine \/ CleanupDone
  <2>1. CASE CleanupLine
    BY <2>1 DEF CleanupLine, Admitted, BlockLast
  <2>2. CASE CleanupDone
    BY <2>2, ChainEmptied DEF CleanupDone
  <2>3. QED
    BY <1>10, <2>1, <2>2
<1>11. CASE Processes
  BY <1>11, ChainLeft DEF Processes, HevUp, TunnelDies
<1>12. CASE DnsLoads \/ DnsDies \/ WriteRoutes \/ Calm \/ UNCHANGED vars
  BY <1>12, ChainLeft DEF DnsLoads, DnsDies, WriteRoutes, Calm, vars
<1>13. QED
  BY <1>1, <1>2, <1>3, <1>4, <1>5, <1>6, <1>7, <1>8, <1>9, <1>10, <1>11, <1>12
     DEF Next, Script, Docker

\* The chain lets the TCP packets of a line that is in it into the tunnel of that line.
LEMMA AdmittedForwarded ==
  ASSUME IInv, AcceptsFirst(chain), jump, NEW c, NEW i, ClientOf(i) = c, Has(chain, Accept(i))
  PROVE  Forwarded(c, "tcp", i)
<1> DEFINE hit == {k \in DOMAIN chain : Matches(chain[k], c, "tcp", i)}
<1>1. DOMAIN chain = 1..Len(chain) /\ Len(chain) \in Nat
  BY DEF IInv, TypeOK
<1>2. PICK a \in 1..Len(chain) : chain[a] = Accept(i)
  BY DEF Has
<1>3. a \in hit /\ chain[a].kind = "accept"
  BY <1>1, <1>2 DEF Matches, Accept
<1>4. FirstOf(hit) \in hit /\ FirstOf(hit) <= a
  <2>1. hit \in SUBSET Nat /\ hit # {}
    BY <1>1, <1>3
  <2>2. QED
    BY <1>3, <2>1, LeastExists
<1> DEFINE m == FirstOf(hit)
<1>5. m \in 1..Len(chain) /\ m \in 1..a /\ Matches(chain[m], c, "tcp", i)
  BY <1>1, <1>2, <1>4
<1>6. chain[m].kind # "block"
  BY <1>2, <1>3, <1>5 DEF AcceptsFirst
<1>7. chain[m].kind = "accept"
  BY <1>5, <1>6 DEF Matches
<1>8. QED
  BY <1>3, <1>7 DEF Forwarded, Accepts

\* A ready router whose tunnels run carries the TCP traffic of every client of its routes
\* file both ways, by the first of the client's lines, for every file, engine and policy.
THEOREM EveryLineServed == Spec => []ReadyServesEveryLine
<1>1. Init => ServeInv
  <2> SUFFICES ASSUME Init PROVE ServeInv
    OBVIOUS
  <2>1. pc = "down" /\ Len(chain) = 0
    BY DEF Init
  <2>2. QED
    BY <2>1 DEF ServeInv, Installed, Admitted, BlockLast, AcceptsFirst, NoBlock, Loaded, PastLoop
<1>2. IInv /\ ServeInv /\ [Next]_vars => ServeInv'
  BY InstalledStep, AdmittedStep DEF ServeInv
<1>3. IInv /\ ServeInv => ReadyServesEveryLine
  <2> SUFFICES ASSUME IInv, ServeInv, pc \in {"arm", "watch"},
                      \A i \in Lines(ver) : proc[i] # "dead" /\ (proc[i] = "run" => i \in table),
                      NEW c \in Client, Mapped(c) # {}
               PROVE  Serves(c)
    BY DEF ReadyServesEveryLine
  <2>1. /\ jump /\ line \notin Lines(ver) /\ line \in Nat \ {0}
        /\ ver \in Version /\ rule \subseteq Lines(ver) /\ table \subseteq Lines(ver)
    BY DEF IInv, TypeOK, ServeInv, Installed, Loaded, PastLoop
  <2>2. ASSUME NEW i \in Lines(ver) PROVE i < line
    <3>1. Routes[ver] \in Seq(Entry)
      BY <2>1, ConstantsAssumption
    <3>2. Lines(ver) = 1..Len(Routes[ver]) /\ Len(Routes[ver]) \in Nat
      BY <3>1 DEF Lines
    <3>3. QED
      BY <2>1, <3>2
  <2>3. \A i \in Lines(ver) : i \in rule /\ proc[i] # "none" /\ Has(chain, Accept(i)) /\ Has(chain, Reply(i))
    BY <2>2 DEF ServeInv, Installed, Admitted, Loaded, PastLoop
  <2>4. \A i \in Lines(ver) : proc[i] = "run" /\ i \in table
    BY <2>3 DEF IInv, TypeOK, ProcState
  <2> DEFINE out == FirstOf(Mapped(c))
  <2>5. out \in Mapped(c) /\ out # 0
    BY <2>1, LinesAreNumbers, LeastExists DEF Mapped
  <2>6. out \in Lines(ver) /\ ClientOf(out) = c
    BY <2>5 DEF Mapped
  <2>7. RouteOut(c) = out
    <3>1. {i \in rule \cap table : ClientOf(i) = c} = Mapped(c)
      BY <2>1, <2>3, <2>4 DEF Mapped
    <3>2. QED
      BY <3>1 DEF RouteOut
  <2> HIDE DEF out
  <2>8. Forwarded(c, "tcp", out)
    BY <2>1, <2>3, <2>6, AdmittedForwarded DEF ServeInv, BlockLast
  <2>9. ExitOf(c, "tcp") = ProxyOf(out)
    BY <2>4, <2>5, <2>6, <2>7, <2>8 DEF ExitOf, Through
  <2>10. RepliesReach(c)
    <3>1. PICK k \in 1..Len(chain) : chain[k] = Reply(out)
      BY <2>3, <2>6 DEF Has
    <3>2. DOMAIN chain = 1..Len(chain)
      BY DEF IInv, TypeOK
    <3>3. QED
      BY <2>1, <2>7, <3>1, <3>2 DEF RepliesReach
  <2>11. QED
    BY <2>9, <2>10 DEF Serves, out
<1>4. QED
  BY <1>1, <1>2, <1>3, Inductive, PTL DEF Spec
=============================================================================
