------------------------- MODULE ContainerLinksProofs -------------------------
(***************************************************************************)
(* What connects a session's container, for any number of containers,       *)
(* exits, crashes, connections, requests and approvals: what a limited      *)
(* session owns stays while it is owned and goes with it                    *)
(* (LimitedNetworking), and the approvals that the router shows are those   *)
(* its container waits for (GatewaySession).  The two share no state.       *)
(***************************************************************************)
EXTENDS LimitedNetworking, GatewaySession, FiniteSetTheorems, TLAPS

----------------------------------------------------------------------------
(* The topology of a limited session (LimitedNetworking).                   *)

Few(S) == \A x, y \in S : x = y

(* TypeOK, with the numbers that have been used; a box that is gone is      *)
(* NoBox, and a sidecar that runs is attached to both networks.             *)
Given == 1 .. used

BoxShapes ==
    /\ nets \subseteq Nets
    /\ box \in [Boxes -> [kind : {"none", "agent", "sidecar"}, up : BOOLEAN, at : SUBSET Nets]]
    /\ used \in 0 .. MaxBoxes
    /\ \A b \in Boxes :
          /\ box[b].at \subseteq nets
          /\ box[b].kind = "none" => box[b] = NoBox
          /\ b \notin Given => box[b] = NoBox
          /\ box[b].kind = "sidecar" /\ box[b].up => box[b].at = Nets

(* What an owner holds under the name of an agent, or of a sidecar, is one, *)
(* or is gone.                                                              *)
IsAgent(b)   == b \in Given /\ box[b].kind \in {"agent", "none"}
IsSidecar(b) == b = None \/ (b \in Given /\ box[b].kind \in {"sidecar", "none"})

Rows == [agent : Boxes, source : {"limited", "adopt"}]

OwnerShapes ==
    /\ boot \in [pc : {"none"} \cup Building \cup Undoing, made : SUBSET Nets,
                 sidecar : 0 .. MaxBoxes, agent : 0 .. MaxBoxes]
    /\ entry \subseteq Owners /\ Few(entry)
    /\ evicts \subseteq [of : Owners, step : Steps]
    /\ row \subseteq Rows /\ Few(row)
    /\ wanted \in BOOLEAN /\ crashes \in Nat
    /\ boot.agent # None => IsAgent(boot.agent)
    /\ IsSidecar(boot.sidecar)
    /\ \A e \in entry : IsAgent(e.agent) /\ IsSidecar(e.sidecar)
    /\ \A x \in evicts : IsAgent(x.of.agent) /\ IsSidecar(x.of.sidecar)

(* How far the boot is says what it has made.                               *)
BootStages ==
    /\ boot.pc = "none" => boot = NoBoot
    /\ boot.pc # "none" => Up /\ entry = {}
    /\ boot.pc \in {"net1", "net2", "sidecar"} => boot.sidecar = None
    /\ boot.pc = "net2" => "confined" \in boot.made
    /\ boot.pc \in {"sidecar", "sidecarReady", "agent", "agentReady", "ws"} => boot.made = Nets
    /\ boot.pc \in {"net1", "net2", "sidecar", "sidecarReady", "agent"} => boot.agent = None
    /\ boot.pc \in {"agentReady", "ws"} => boot.agent # None
    /\ boot.pc \in {"sidecarReady", "agent", "agentReady", "ws"}
          => boot.sidecar # None /\ box[boot.sidecar].kind = "sidecar"
    /\ boot.sidecar # None => boot.made = Nets
    /\ boot.agent # None => boot.sidecar # None

Startups == [phase : {"serving", "agents", "sidecars"}, agents : SUBSET Boxes, sidecars : SUBSET Boxes,
             kept : SUBSET Boxes, row : SUBSET Rows]

(* While the startup runs, nothing else does; a sidecar it has given to an  *)
(* entry is kept, and the row that said so is of that entry's agent.        *)
StartupStages ==
    /\ startup \in Startups
    /\ startup.agents \subseteq Given /\ startup.sidecars \subseteq Given /\ startup.kept \subseteq Given
    /\ \A b \in startup.agents : box[b].kind \in {"agent", "none"}
    /\ \A b \in startup.sidecars : box[b].kind \in {"sidecar", "none"}
    /\ Few(startup.row)
    /\ ~Up => boot = NoBoot /\ evicts = {}
    /\ startup.phase = "sidecars" => startup.agents = {}
    /\ ~Up => \A e \in entry : e.sidecar # None =>
          /\ e.sidecar \in startup.kept /\ RowOf(e.agent) # {} /\ e.agent \notin startup.agents

(* An eviction's sidecar belongs to nobody else: a later life of the session *)
(* has the same name, but another container.                                *)
SidecarsApart ==
    \A x \in evicts : x.of.sidecar # None =>
        /\ boot.sidecar # x.of.sidecar
        /\ \A e \in entry : e.sidecar # x.of.sidecar

EntryIntact == \A e \in entry : e.sidecar # None => box[e.sidecar].kind = "sidecar"

LinkInv ==
    BoxShapes /\ OwnerShapes /\ BootStages /\ StartupStages /\ SidecarsApart /\ EntryIntact

(* Who stops an agent's container that runs: the startup is one of them.    *)
AgentHeld(b) ==
    \/ \E e \in entry : e.agent = b
    \/ boot.agent = b /\ boot.pc \in {"agentReady", "ws", "undoAgent"}
    \/ \E x \in evicts : x.of.agent = b /\ x.step = "agent"
    \/ b \in startup.agents /\ startup.phase = "agents"

(* Before the first crash: who stops a sidecar, and who removes a network.  *)
SidecarHeld(b) ==
    \/ \E e \in entry : e.sidecar = b
    \/ boot.sidecar = b /\ boot.pc \in (Building \cup {"undoAgent", "undoSidecar"})
    \/ \E x \in evicts : x.of.sidecar = b /\ x.step \in {"agent", "sidecar"}

NetHeld(n) ==
    \/ entry # {}
    \/ n \in boot.made /\ (boot.pc = "undoNet2" => n = "egress")
    \/ \E x \in evicts : x.step = "net2" => n = "egress"

Relays == {b \in Sidecars : box[b].up}

AgentsHeld   == \A b \in Running : AgentHeld(b)
SidecarsHeld == \A b \in Relays : SidecarHeld(b)
NetsHeld     == \A n \in nets : NetHeld(n)

CrashFree ==
    crashes = 0 =>
        /\ Up /\ SidecarsHeld /\ NetsHeld
        /\ \A e \in entry : e.sidecar # None
        /\ \A x \in evicts : x.of.sidecar # None

HeldInv == LinkInv /\ AgentsHeld /\ CrashFree

----------------------------------------------------------------------------

Boxed == [kind : {"none", "agent", "sidecar"}, up : BOOLEAN, at : SUBSET Nets]
Dwindles ==
    /\ used' = used
    /\ \A b \in Boxes : box'[b].kind \in {box[b].kind, "none"} /\ (box'[b].up => box[b].up)

LEMMA Cut ==
    ASSUME NEW r \in Boxed, NEW ns
    PROVE  LET cut == [r EXCEPT !.at = @ \cap ns] IN
           cut \in Boxed /\ cut.kind = r.kind /\ cut.up = r.up /\ cut.at = r.at \cap ns
  BY DEF Boxed

LEMMA GivenBoxes == ASSUME used \in 0 .. MaxBoxes PROVE Given \subseteq Boxes /\ None \notin Boxes
  BY LimitedAssumption DEF Given, Boxes, None

LEMMA Stops ==
    ASSUME BoxShapes, NEW ids, box' = Stopped(ids), nets' = nets, used' = used
    PROVE  /\ BoxShapes' /\ Dwindles
           /\ \A b \in Boxes : /\ b \notin ids => box'[b] = box[b]
                               /\ b \in ids => ~box'[b].up
  <1>1. \A b \in Boxes : box'[b] = IF b \in ids /\ Goes(b) THEN NoBox ELSE box[b]
    BY DEF Stopped
  <1>2. box' \in [Boxes -> Boxed]
    BY <1>1 DEF BoxShapes, Stopped, NoBox, Boxed
  <1>3. NoBox.kind = "none" /\ NoBox.at = {} /\ NoBox.up = FALSE
    BY DEF NoBox
  <1>4. BoxShapes'
    BY <1>1, <1>2, <1>3 DEF BoxShapes, Boxed, Given
  <1> QED BY <1>1, <1>3, <1>4 DEF Dwindles, Goes

LEMMA Removes ==
    ASSUME BoxShapes, NEW left \in [Boxes -> Boxed], NEW ns, RemoveNetworks(left, ns), used' = used,
           \A b \in Boxes : left[b] \in {box[b], NoBox}
    PROVE  /\ BoxShapes' /\ Dwindles
           /\ \A b \in Boxes : box'[b].kind = left[b].kind /\ box'[b].up = left[b].up
           /\ nets' \subseteq nets /\ nets \ ns \subseteq nets'
           /\ \A n \in ns \cap nets' : InUse(left, n)
  <1>1. nets' = nets \ {n \in ns : ~InUse(left, n)}
    BY DEF RemoveNetworks
  <1>2. \A b \in Boxes : box'[b] = [left[b] EXCEPT !.at = @ \cap nets']
    BY DEF RemoveNetworks
  <1>3. \A b \in Boxes : /\ box'[b] \in Boxed /\ box'[b].kind = left[b].kind /\ box'[b].up = left[b].up
                         /\ box'[b].at = left[b].at \cap nets'
    <2> SUFFICES ASSUME NEW b \in Boxes
                 PROVE  /\ box'[b] \in Boxed /\ box'[b].kind = left[b].kind /\ box'[b].up = left[b].up
                        /\ box'[b].at = left[b].at \cap nets'
      OBVIOUS
    <2>1. PICK ms : ms = nets'
      OBVIOUS
    <2>2. PICK r \in Boxed : r = left[b]
      OBVIOUS
    <2>3. box'[b] = [r EXCEPT !.at = @ \cap ms]
      BY <1>2, <2>1, <2>2
    <2> QED BY <2>1, <2>2, <2>3, Cut
  <1>4. box' \in [Boxes -> Boxed]
    BY <1>3 DEF RemoveNetworks
  <1>5. NoBox.kind = "none" /\ NoBox.at = {} /\ NoBox.up = FALSE /\ NoBox \in Boxed
    BY DEF NoBox, Boxed
  <1>6. ASSUME NEW b \in Boxes
        PROVE  /\ box'[b].at \subseteq nets'
               /\ box'[b].kind = "none" => box'[b] = NoBox
               /\ b \notin Given => box'[b] = NoBox
               /\ box'[b].kind = "sidecar" /\ box'[b].up => box'[b].at = Nets
    <2>1. box'[b].at \subseteq nets'
      BY <1>3
    <2>2. left[b] = NoBox => box'[b] = NoBox
      BY <1>3, <1>5 DEF Boxed, NoBox
    <2>3. box'[b].kind = "none" \/ b \notin Given => left[b] = NoBox
      BY <1>3 DEF BoxShapes
    <2>4. ASSUME box'[b].kind = "sidecar", box'[b].up PROVE box'[b].at = Nets
      <3>1. left[b] = box[b] /\ left[b].at = Nets /\ left[b].up
        BY <1>3, <1>5, <2>4 DEF BoxShapes
      <3>2. \A n \in Nets : InUse(left, n)
        BY <3>1 DEF InUse
      <3>3. Nets \subseteq nets'
        BY <1>1, <3>1, <3>2 DEF BoxShapes
      <3> QED BY <1>3, <3>1, <3>3
    <2> QED BY <2>1, <2>2, <2>3, <2>4
  <1>7. BoxShapes'
    BY <1>1, <1>4, <1>6 DEF BoxShapes, Boxed, Given
  <1>8. Dwindles
    BY <1>3, <1>5 DEF Dwindles
  <1> QED BY <1>1, <1>3, <1>7, <1>8

(* A container is created, under a number that nobody knows.                *)
LEMMA Creates ==
    ASSUME BoxShapes, NEW new \in Boxed, new.kind # "none", new.at \subseteq nets,
           new.kind = "sidecar" /\ new.up => new.at = Nets,
           used < MaxBoxes, used' = used + 1, box' = [box EXCEPT ![used'] = new], nets' = nets
    PROVE  /\ BoxShapes' /\ used' \in Boxes /\ used' \notin Given
           /\ \A b \in Boxes : b # used' => box'[b] = box[b]
           /\ box'[used'] = new
  <1>1. /\ used' \in Boxes /\ used' \notin Given /\ used' \in 0 .. MaxBoxes
        /\ \A b \in Boxes : b \notin 1 .. used + 1 => b \notin Given
    <2>1. PICK m \in Nat : m = MaxBoxes
      BY LimitedAssumption
    <2>2. PICK u \in 0 .. m : u = used /\ u < m /\ used' = u + 1
      BY <2>1 DEF BoxShapes
    <2> QED BY <2>1, <2>2 DEF Boxes, Given
  <1>2. \A b \in Boxes : box'[b] = IF b = used' THEN new ELSE box[b]
    BY <1>1 DEF BoxShapes
  <1>3. box' \in [Boxes -> Boxed]
    BY <1>1 DEF BoxShapes, Boxed
  <1>4. \A b \in Boxes : b \notin Given' => b \notin Given /\ b # used'
    BY <1>1 DEF Given, BoxShapes
  <1>5. BoxShapes'
    BY <1>1, <1>2, <1>3, <1>4 DEF BoxShapes, Boxed
  <1> QED BY <1>1, <1>2, <1>5

LEMMA Spawns ==
    ASSUME BoxShapes, NEW kind \in {"agent", "sidecar"}, NEW at \in SUBSET Nets, Spawn(kind, at),
           kind = "sidecar" => at = Nets, nets' = nets
    PROVE  /\ BoxShapes' /\ used' = used + 1 /\ used' \in Boxes /\ used' \notin Given
           /\ \A b \in Boxes : b # used' => box'[b] = box[b]
           /\ box'[used'] = [kind |-> kind, up |-> TRUE, at |-> at]
           /\ kind = "sidecar" => Sidecars = {}
  <1>1. PICK new \in Boxed : new = [kind |-> kind, up |-> TRUE, at |-> at]
    BY DEF Boxed
  <1>2. new.kind = kind /\ new.at = at
    BY <1>1
  <1>3. /\ box' = [box EXCEPT ![used'] = new] /\ at \subseteq nets /\ (kind = "sidecar" => Sidecars = {})
        /\ used < MaxBoxes /\ used' = used + 1
    BY <1>1 DEF Spawn
  <1> QED BY <1>1, <1>2, <1>3, Creates

LEMMA SpawnsIt ==
    ASSUME BoxShapes, nets' = nets
    PROVE  /\ Spawn("sidecar", Nets) =>
                /\ BoxShapes' /\ used' = used + 1 /\ used' \in Boxes /\ used' \notin Given
                /\ \A b \in Boxes : b # used' => box'[b] = box[b]
                /\ box'[used'].kind = "sidecar" /\ Sidecars = {}
           /\ Spawn("agent", {"confined"}) =>
                /\ BoxShapes' /\ used' = used + 1 /\ used' \in Boxes /\ used' \notin Given
                /\ \A b \in Boxes : b # used' => box'[b] = box[b]
                /\ box'[used'].kind = "agent"
  <1> DEFINE Started(kind, at) ==
        /\ BoxShapes' /\ used' = used + 1 /\ used' \in Boxes /\ used' \notin Given
        /\ \A b \in Boxes : b # used' => box'[b] = box[b]
        /\ box'[used'] = [kind |-> kind, up |-> TRUE, at |-> at]
        /\ kind = "sidecar" => Sidecars = {}
  <1>1. ASSUME Spawn("sidecar", Nets) PROVE Started("sidecar", Nets)
    BY <1>1, Spawns
  <1>2. ASSUME Spawn("agent", {"confined"}) PROVE Started("agent", {"confined"})
    <2>1. {"confined"} \in SUBSET Nets
      BY DEF Nets
    <2>2. PICK at \in SUBSET Nets : at = {"confined"}
      BY <2>1
    <2>3. Spawn("agent", at)
      BY <1>2, <2>2
    <2>4. Started("agent", at)
      BY <2>3, Spawns
    <2> QED BY <2>2, <2>4
  <1> QED BY <1>1, <1>2

LEMMA LimInit == Init => HeldInv
  <1> SUFFICES ASSUME Init PROVE HeldInv
    OBVIOUS
  <1> USE DEF Init
  <1>1. BoxShapes
    BY LimitedAssumption DEF BoxShapes, NoBox, Nets
  <1>2. OwnerShapes /\ BootStages
    BY LimitedAssumption DEF OwnerShapes, BootStages, NoBoot, None, IsSidecar, Few
  <1>3. StartupStages /\ SidecarsApart /\ EntryIntact
    BY DEF StartupStages, SidecarsApart, EntryIntact, Serving, Startups, Few, Up
  <1>4. AgentsHeld /\ CrashFree
    BY DEF AgentsHeld, Running, Agents, CrashFree, SidecarsHeld, Relays, Sidecars, NetsHeld, Up, Serving, NoBox
  <1> QED BY <1>1, <1>2, <1>3, <1>4 DEF HeldInv, LinkInv

(* Containers go and containers come, under numbers nobody holds: what the  *)
(* owners hold keeps its shape.                                             *)
Settles == Given \subseteq Given' /\ \A b \in Given : box'[b].kind \in {box[b].kind, "none"}

LEMMA Kept ==
    ASSUME Settles
    PROVE  /\ \A b : IsAgent(b) => IsAgent(b)'
           /\ \A b : IsSidecar(b) => IsSidecar(b)'
  BY DEF Settles, IsAgent, IsSidecar

LEMMA DwindleSettles == ASSUME BoxShapes, Dwindles PROVE Settles /\ Given' = Given
  BY GivenBoxes DEF Settles, Dwindles, Given, BoxShapes

LEMMA StillSettles == ASSUME BoxShapes, UNCHANGED <<box, used>> PROVE Dwindles /\ Settles /\ Given' = Given
  BY GivenBoxes DEF Settles, Dwindles, Given, BoxShapes

LEMMA StillBoxes ==
    ASSUME BoxShapes, UNCHANGED <<box, used>>, nets \subseteq nets', nets' \subseteq Nets
    PROVE  BoxShapes'
  BY DEF BoxShapes, Given

(* A spawn that fails: a container is stopped, or one is there that never   *)
(* ran.                                                                     *)
LEMMA SpawnsNot ==
    ASSUME BoxShapes, Fail
    PROVE  /\ BoxShapes' /\ Given \subseteq Given'
           /\ \A b \in Given : box'[b].kind \in {box[b].kind, "none"}
           /\ \A b \in Boxes : box'[b].up => box[b].up /\ box'[b].kind = box[b].kind
  <1>1. nets' = nets /\ Given \subseteq Boxes
    BY GivenBoxes DEF Fail, BoxShapes
  <1>2. CASE used' = used /\ (box' = box \/ box' = Stopped(Sidecars))
    <2>1. BoxShapes' /\ Dwindles
      BY <1>1, <1>2, StillBoxes, StillSettles, Stops DEF BoxShapes
    <2>2. \A b \in Boxes : box'[b].kind = "none" => ~box'[b].up
      BY <2>1 DEF BoxShapes, NoBox
    <2> QED BY <1>1, <1>2, <2>1, <2>2 DEF Dwindles, Given
  <1>3. ASSUME NEW kind \in {"agent", "sidecar"}, used < MaxBoxes, used' = used + 1,
               box' = [box EXCEPT ![used'] = [kind |-> kind, up |-> FALSE, at |-> nets \cap {"confined"}]]
        PROVE  /\ BoxShapes' /\ Given \subseteq Given'
               /\ \A b \in Given : box'[b].kind \in {box[b].kind, "none"}
               /\ \A b \in Boxes : box'[b].up => box[b].up /\ box'[b].kind = box[b].kind
    <2>1. PICK new \in Boxed : new = [kind |-> kind, up |-> FALSE, at |-> nets \cap {"confined"}]
      BY DEF Boxed, Nets
    <2>2. new.kind = kind /\ ~new.up /\ new.at \subseteq nets
      BY <2>1
    <2>3. /\ BoxShapes' /\ used' \in Boxes /\ used' \notin Given /\ box'[used'] = new
          /\ \A b \in Boxes : b # used' => box'[b] = box[b]
      BY <1>1, <1>3, <2>1, <2>2, Creates
    <2>4. Given \subseteq Given'
      BY <1>3 DEF Given, BoxShapes
    <2> QED BY <1>1, <2>2, <2>3, <2>4
  <1> QED BY <1>2, <1>3 DEF Fail, SpawnFails

(* A step of the boot: it holds what it held, or lets go of it, or holds a  *)
(* container that has just been started.                                    *)
Boots == [pc : {"none"} \cup Building \cup Undoing, made : SUBSET Nets,
          sidecar : 0 .. MaxBoxes, agent : 0 .. MaxBoxes]

LEMMA BootLinks ==
    ASSUME LinkInv, BoxShapes', Settles, UNCHANGED <<entry, evicts, startup, row, wanted, crashes>>,
           boot' \in Boots, Up, entry = {},
           (boot.agent # None => IsAgent(boot.agent))', IsSidecar(boot.sidecar)',
           boot'.sidecar # None => boot'.sidecar = boot.sidecar \/ boot'.sidecar \notin Given,
           BootStages'
    PROVE  LinkInv'
  <1> USE DEF LinkInv
  <1>1. OwnerShapes'
    BY Kept DEF OwnerShapes, Boots, Few
  <1>2. StartupStages'
    BY DEF StartupStages, Settles, Up, Few
  <1>3. SidecarsApart'
    BY DEF SidecarsApart, OwnerShapes, IsSidecar
  <1>4. EntryIntact'
    BY DEF EntryIntact
  <1> QED BY <1>1, <1>2, <1>3, <1>4

Pcs == {"none"} \cup Building \cup Undoing

LEMMA BootPc ==
    ASSUME NEW r \in Boots, NEW pc \in Pcs, NEW m, m = [r EXCEPT !.pc = pc]
    PROVE  m \in Boots /\ m.pc = pc /\ m.made = r.made /\ m.sidecar = r.sidecar /\ m.agent = r.agent
  BY DEF Boots, Pcs

LEMMA LimExit == ASSUME LinkInv, Exit PROVE LinkInv' /\ Dwindles
  <1> USE DEF LinkInv
  <1>1. PICK c \in Boxes : box[c].up /\ box' = [box EXCEPT ![c].up = FALSE]
    BY DEF Exit
  <1>2. UNCHANGED <<nets, boot, entry, evicts, startup, row, wanted, used, crashes>>
    BY DEF Exit, orchestrator
  <1>3. PICK r \in Boxed : r = box[c]
    BY DEF BoxShapes, Boxed
  <1> DEFINE out == [r EXCEPT !.up = FALSE]
  <1>4. out \in Boxed /\ out.kind = r.kind /\ out.at = r.at /\ ~out.up
    BY DEF Boxed
  <1>5. box' = [box EXCEPT ![c] = out]
    BY <1>1, <1>3 DEF BoxShapes
  <1> HIDE DEF out
  <1>6. \A b \in Boxes : box'[b] = IF b = c THEN out ELSE box[b]
    BY <1>5 DEF BoxShapes
  <1>7. r.kind # "none" /\ c \in Given
    BY <1>1, <1>3 DEF BoxShapes, NoBox
  <1>8. box' \in [Boxes -> Boxed]
    BY <1>4, <1>5, <1>6 DEF BoxShapes, Boxed
  <1>9. BoxShapes'
    BY <1>2, <1>3, <1>4, <1>6, <1>7, <1>8 DEF BoxShapes, Boxed, Given
  <1>10. Dwindles /\ \A b \in Boxes : box'[b].kind = box[b].kind
    BY <1>2, <1>3, <1>4, <1>6 DEF Dwindles
  <1>11. Settles /\ Given' = Given
    BY <1>10, DwindleSettles
  <1>12. OwnerShapes'
    BY <1>2, <1>11, Kept DEF OwnerShapes, Few
  <1>13. \A b \in 0 .. MaxBoxes : b # None => b \in Boxes
    BY DEF Boxes, None
  <1>14. BootStages'
    BY <1>2, <1>10, <1>13 DEF BootStages, Up, OwnerShapes
  <1>15. StartupStages'
    BY <1>2, <1>11 DEF StartupStages, Up, RowOf, Few, Settles
  <1>16. SidecarsApart' /\ EntryIntact'
    BY <1>2, <1>10 DEF SidecarsApart, EntryIntact, OwnerShapes, Owners
  <1> QED BY <1>9, <1>10, <1>12, <1>14, <1>15, <1>16

LEMMA LimStartBoot == ASSUME LinkInv, StartBoot PROVE LinkInv'
  <1> USE DEF LinkInv
  <1>1. /\ Up /\ entry = {} /\ boot.pc = "none" /\ boot' = [NoBoot EXCEPT !.pc = "net1"]
        /\ UNCHANGED <<nets, box, entry, evicts, startup, row, wanted, used, crashes>>
    BY DEF StartBoot, bounds
  <1>2. /\ boot' \in Boots /\ boot'.pc = "net1" /\ boot'.sidecar = None /\ boot'.agent = None
    BY <1>1, LimitedAssumption DEF NoBoot, Boots, Building, None
  <1>3. Settles /\ BoxShapes'
    BY <1>1, StillSettles, StillBoxes DEF BoxShapes
  <1>4. BootStages'
    BY <1>1, <1>2 DEF BootStages, Up
  <1>5. (boot.agent # None => IsAgent(boot.agent))' /\ IsSidecar(boot.sidecar)'
    BY <1>2 DEF IsSidecar
  <1> QED BY <1>1, <1>2, <1>3, <1>4, <1>5, BootLinks

(* The steps of a boot that change only the stage it is at.                 *)
LEMMA LimMove ==
    ASSUME LinkInv, NEW pc \in Building \cup Undoing, boot.pc # "none", boot' = [boot EXCEPT !.pc = pc],
           BoxShapes', Settles,
           UNCHANGED <<entry, evicts, startup, row, wanted, crashes>>,
           \/ boot.pc = "sidecarReady" /\ pc = "agent"
           \/ boot.pc = "agentReady" /\ pc = "ws"
           \/ pc \in Undoing,
           pc \notin Undoing => UNCHANGED box
    PROVE  LinkInv'
  <1> USE DEF LinkInv
  <1>1. PICK r \in Boots : r = boot
    BY DEF OwnerShapes, Boots
  <1>2. boot' \in Boots /\ boot'.pc = pc /\ boot'.made = boot.made /\ boot'.sidecar = boot.sidecar /\ boot'.agent = boot.agent
    <2>1. boot' = [r EXCEPT !.pc = pc] /\ pc \in Pcs
      BY <1>1 DEF Pcs
    <2> QED BY <1>1, <2>1, BootPc
  <1>3. Up /\ entry = {}
    BY DEF BootStages
  <1>4. (boot.agent # None => IsAgent(boot.agent))' /\ IsSidecar(boot.sidecar)'
    BY <1>2, Kept DEF OwnerShapes
  <1>5. BootStages'
    BY <1>2, <1>3 DEF BootStages, Up, Building, Undoing
  <1> QED BY <1>2, <1>3, <1>4, <1>5, BootLinks

LEMMA LimReady == ASSUME LinkInv, SidecarReady \/ AgentReady PROVE LinkInv'
  <1> USE DEF LinkInv
  <1>1. /\ UNCHANGED <<nets, box, entry, evicts, startup, row, wanted, used, crashes>>
        /\ \/ boot.pc = "sidecarReady" /\ boot' = [boot EXCEPT !.pc = "agent"]
           \/ boot.pc = "agentReady" /\ boot' = [boot EXCEPT !.pc = "ws"]
    BY DEF SidecarReady, AgentReady, bounds
  <1>2. Settles /\ BoxShapes'
    BY <1>1, StillSettles, StillBoxes DEF BoxShapes
  <1> QED BY <1>1, <1>2, LimMove DEF Building

LEMMA LimEnsure ==
    ASSUME LinkInv, EnsureNetwork("net1", "confined", "net2") \/ EnsureNetwork("net2", "egress", "sidecar")
    PROVE  LinkInv'
  <1> USE DEF LinkInv
  <1>1. PICK net \in Nets, next \in {"net2", "sidecar"} :
           /\ boot.pc \in {"net1", "net2"} /\ nets' = nets \cup {net}
           /\ boot' = [boot EXCEPT !.pc = next, !.made = @ \cup {net}]
           /\ next = "net2" => net = "confined"
           /\ next = "sidecar" => boot.pc = "net2" /\ net = "egress"
           /\ UNCHANGED <<box, entry, evicts, startup, row, wanted, used, crashes>>
    BY DEF EnsureNetwork, bounds, Nets
  <1>2. PICK r \in Boots : r = boot
    BY DEF OwnerShapes, Boots
  <1>3. boot' \in Boots /\ boot'.pc = next /\ boot'.made = boot.made \cup {net} /\ boot'.sidecar = boot.sidecar /\ boot'.agent = boot.agent
    <2>1. next \in Pcs
      BY DEF Building, Pcs
    <2>2. boot' = [r EXCEPT !.pc = next, !.made = @ \cup {net}]
      BY <1>1, <1>2
    <2> QED BY <1>2, <2>1, <2>2 DEF Boots, Pcs
  <1>4. Up /\ entry = {}
    BY <1>1 DEF BootStages
  <1>5. Settles /\ BoxShapes'
    BY <1>1, StillSettles, StillBoxes DEF BoxShapes
  <1>6. (boot.agent # None => IsAgent(boot.agent))' /\ IsSidecar(boot.sidecar)'
    BY <1>3, <1>5, Kept DEF OwnerShapes
  <1>7. next = "sidecar" => boot'.made = Nets
    <2>1. boot'.made \subseteq Nets
      BY <1>3 DEF Boots
    <2>2. next = "sidecar" => "confined" \in boot'.made /\ "egress" \in boot'.made
      BY <1>1, <1>3 DEF BootStages
    <2> QED BY <2>1, <2>2 DEF Nets
  <1>8. BootStages'
    BY <1>1, <1>3, <1>4, <1>7 DEF BootStages, Up
  <1> QED BY <1>1, <1>3, <1>4, <1>5, <1>6, <1>8, BootLinks

LEMMA LimBootSidecar == ASSUME LinkInv, BootSidecar PROVE LinkInv'
  <1> USE DEF LinkInv
  <1>1. /\ boot.pc = "sidecar" /\ Spawn("sidecar", Nets)
        /\ boot' = [boot EXCEPT !.pc = "sidecarReady", !.sidecar = used']
        /\ UNCHANGED <<nets, entry, evicts, startup, row, wanted, crashes>>
    BY DEF BootSidecar
  <1>2. /\ BoxShapes' /\ used' \in Boxes /\ used' \notin Given /\ used' = used + 1
        /\ \A b \in Boxes : b # used' => box'[b] = box[b]
        /\ box'[used'].kind = "sidecar"
    BY <1>1, SpawnsIt
  <1>3. Settles /\ used' \in Given' /\ used' \in 0 .. MaxBoxes /\ used' # None
    BY <1>2, GivenBoxes DEF Settles, Given, BoxShapes, Boxes, None
  <1>4. PICK r \in Boots, c \in 0 .. MaxBoxes : r = boot /\ c = used'
    BY <1>3 DEF OwnerShapes, Boots
  <1>5. boot' \in Boots /\ boot'.pc = "sidecarReady" /\ boot'.made = boot.made /\ boot'.sidecar = used' /\ boot'.agent = boot.agent
    <2>1. boot' = [r EXCEPT !.pc = "sidecarReady", !.sidecar = c]
      BY <1>1, <1>4
    <2>2. "sidecarReady" \in Pcs
      BY DEF Pcs, Building
    <2> QED BY <1>4, <2>1, <2>2 DEF Boots, Pcs
  <1>6. Up /\ entry = {} /\ boot.agent = None /\ boot.made = Nets
    BY <1>1 DEF BootStages
  <1>7. (boot.agent # None => IsAgent(boot.agent))' /\ IsSidecar(boot.sidecar)'
    BY <1>2, <1>3, <1>5, <1>6 DEF IsSidecar
  <1>8. BootStages'
    BY <1>1, <1>2, <1>3, <1>5, <1>6 DEF BootStages, Up
  <1> QED BY <1>1, <1>2, <1>3, <1>5, <1>6, <1>7, <1>8, BootLinks

LEMMA LimBootAgent == ASSUME LinkInv, BootAgent PROVE LinkInv'
  <1> USE DEF LinkInv
  <1>1. /\ boot.pc = "agent" /\ Spawn("agent", {"confined"})
        /\ boot' = [boot EXCEPT !.pc = "agentReady", !.agent = used']
        /\ UNCHANGED <<nets, entry, evicts, startup, row, wanted, crashes>>
    BY DEF BootAgent
  <1>2. /\ BoxShapes' /\ used' \in Boxes /\ used' \notin Given /\ used' = used + 1
        /\ \A b \in Boxes : b # used' => box'[b] = box[b]
        /\ box'[used'].kind = "agent"
    BY <1>1, SpawnsIt
  <1>3. Settles /\ used' \in Given' /\ used' \in 0 .. MaxBoxes /\ used' # None
    BY <1>2, GivenBoxes DEF Settles, Given, BoxShapes, Boxes, None
  <1>4. PICK r \in Boots, c \in 0 .. MaxBoxes : r = boot /\ c = used'
    BY <1>3 DEF OwnerShapes, Boots
  <1>5. boot' \in Boots /\ boot'.pc = "agentReady" /\ boot'.made = boot.made /\ boot'.sidecar = boot.sidecar /\ boot'.agent = used'
    <2>1. boot' = [r EXCEPT !.pc = "agentReady", !.agent = c]
      BY <1>1, <1>4
    <2>2. "agentReady" \in Pcs
      BY DEF Pcs, Building
    <2> QED BY <1>4, <2>1, <2>2 DEF Boots, Pcs
  <1>6. Up /\ entry = {} /\ boot.sidecar # None /\ boot.made = Nets /\ box[boot.sidecar].kind = "sidecar"
    BY <1>1 DEF BootStages
  <1>7. boot.sidecar \in Given /\ boot.sidecar \in Boxes
    BY <1>6, GivenBoxes DEF OwnerShapes, IsSidecar, BoxShapes
  <1>8. box'[boot.sidecar].kind = "sidecar"
    BY <1>2, <1>6, <1>7
  <1>9. (boot.agent # None => IsAgent(boot.agent))' /\ IsSidecar(boot.sidecar)'
    <2>1. IsSidecar(boot.sidecar)'
      BY <1>3, <1>5, <1>7, Kept DEF OwnerShapes
    <2>2. IsAgent(boot.agent)'
      BY <1>2, <1>3, <1>5 DEF IsAgent
    <2> QED BY <2>1, <2>2
  <1>10. BootStages'
    BY <1>1, <1>3, <1>5, <1>6, <1>8 DEF BootStages, Up
  <1> QED BY <1>1, <1>2, <1>3, <1>5, <1>6, <1>9, <1>10, BootLinks

LEMMA LimFail == ASSUME LinkInv, Fail PROVE LinkInv'
  <1> USE DEF LinkInv
  <1>1. /\ boot.pc \in Building
        /\ boot' = [boot EXCEPT !.pc = "undoAgent"]
        /\ UNCHANGED <<nets, entry, evicts, startup, row, wanted, crashes>>
    BY DEF Fail, BootFails
  <1>2. BoxShapes' /\ Settles
    BY SpawnsNot DEF Settles
  <1> QED BY <1>1, <1>2, LimMove DEF Building, Undoing

LEMMA LimUndo == ASSUME LinkInv, Undo PROVE LinkInv'
  <1> USE DEF LinkInv
  <1>1. UNCHANGED <<entry, evicts, startup, row, wanted, used, crashes>>
    BY DEF Undo, bounds
  <1>2. CASE boot.pc = "undoAgent" /\ box' = Stopped({boot.agent}) /\ boot' = [boot EXCEPT !.pc = "undoSidecar"] /\ nets' = nets
    BY <1>1, <1>2, Stops, DwindleSettles, LimMove DEF Undoing
  <1>3. CASE boot.pc = "undoSidecar" /\ box' = Stopped({boot.sidecar}) /\ boot' = [boot EXCEPT !.pc = "undoNet1"] /\ nets' = nets
    BY <1>1, <1>3, Stops, DwindleSettles, LimMove DEF Undoing
  <1>4. box \in [Boxes -> Boxed]
    BY DEF BoxShapes, Boxed
  <1>5. CASE boot.pc = "undoNet1" /\ RemoveNetworks(box, Undone \cap {"confined"}) /\ boot' = [boot EXCEPT !.pc = "undoNet2"]
    BY <1>1, <1>4, <1>5, Removes, DwindleSettles, LimMove DEF Undoing
  <1>6. CASE boot.pc = "undoNet2" /\ RemoveNetworks(box, Undone \cap {"egress"}) /\ boot' = NoBoot
    <2>1. BoxShapes' /\ Settles
      BY <1>1, <1>4, <1>6, Removes, DwindleSettles
    <2>2. Up /\ entry = {}
      BY <1>6 DEF BootStages
    <2>3. boot' \in Boots /\ boot'.pc = "none" /\ boot'.sidecar = None /\ boot'.agent = None
      BY <1>6, LimitedAssumption DEF NoBoot, Boots, None
    <2>4. (boot.agent # None => IsAgent(boot.agent))' /\ IsSidecar(boot.sidecar)'
      BY <2>3 DEF IsSidecar
    <2>5. BootStages'
      BY <1>6, <2>3 DEF BootStages
    <2> QED BY <1>1, <2>1, <2>2, <2>3, <2>4, <2>5, BootLinks
  <1> QED BY <1>2, <1>3, <1>5, <1>6 DEF Undo

LEMMA LimClaim == ASSUME LinkInv, Claim PROVE LinkInv'
  <1> USE DEF LinkInv
  <1>1. /\ boot.pc = "ws" /\ boot' = NoBoot
        /\ entry' = {[agent |-> boot.agent, sidecar |-> boot.sidecar]}
        /\ row' = {[agent |-> boot.agent, source |-> "limited"]}
        /\ UNCHANGED <<nets, box, evicts, startup, wanted, used, crashes>>
    BY DEF Claim, bounds
  <1>2. BoxShapes' /\ Settles /\ Given \subseteq Boxes /\ None \notin Boxes
    BY <1>1, StillBoxes, StillSettles, GivenBoxes DEF BoxShapes
  <1>3. PICK a, c : a = boot.agent /\ c = boot.sidecar
    OBVIOUS
  <1>4. /\ a # None /\ c # None /\ IsAgent(a) /\ IsSidecar(c) /\ box[c].kind = "sidecar" /\ Up
        /\ a \in Boxes /\ c \in Boxes
    BY <1>1, <1>2, <1>3 DEF BootStages, OwnerShapes, IsAgent, IsSidecar
  <1> DEFINE e == [agent |-> a, sidecar |-> c]
  <1>5. e \in Owners /\ e.agent = a /\ e.sidecar = c /\ entry' = {e}
    BY <1>1, <1>3, <1>4 DEF Owners
  <1> HIDE DEF e
  <1>6. NoBoot.pc = "none" /\ NoBoot.sidecar = None /\ NoBoot.agent = None /\ NoBoot \in Boots
    BY LimitedAssumption DEF NoBoot, Boots, None
  <1>7. OwnerShapes'
    <2>1. IsAgent(a)' /\ IsSidecar(c)'
      BY <1>2, <1>4, Kept
    <2>2. row' \subseteq Rows /\ Few(row')
      BY <1>1, <1>3, <1>4 DEF Few, Rows
    <2>3. entry' \subseteq Owners /\ Few(entry')
      BY <1>5 DEF Few
    <2>4. \A x \in evicts' : (IsAgent(x.of.agent) /\ IsSidecar(x.of.sidecar))'
      BY <1>1, <1>2, Kept DEF OwnerShapes
    <2>5. IsSidecar(boot.sidecar)' /\ boot'.agent = None /\ boot' \in Boots
      BY <1>1, <1>6 DEF IsSidecar
    <2>6. \A o \in entry' : (IsAgent(o.agent) /\ IsSidecar(o.sidecar))'
      BY <1>5, <2>1
    <2> QED BY <1>1, <2>2, <2>3, <2>4, <2>5, <2>6 DEF OwnerShapes, Boots
  <1>8. BootStages'
    BY <1>1, <1>6 DEF BootStages
  <1>9. StartupStages'
    BY <1>1, <1>2, <1>4 DEF StartupStages, Up, Settles, Few
  <1>10. SidecarsApart' /\ EntryIntact'
    <2>1. \A x \in evicts : x.of.sidecar # None => x.of.sidecar # c
      BY <1>3 DEF SidecarsApart
    <2> QED BY <1>1, <1>4, <1>5, <1>6, <2>1 DEF SidecarsApart, EntryIntact
  <1> QED BY <1>2, <1>7, <1>8, <1>9, <1>10

LEMMA LimEvict == ASSUME LinkInv, Evict PROVE LinkInv'
  <1> USE DEF LinkInv
  <1>1. /\ Up /\ entry # {} /\ entry' = {} /\ row' = {} /\ wanted' \in BOOLEAN
        /\ evicts' = evicts \cup {[of |-> e, step |-> "agent"] : e \in entry}
        /\ UNCHANGED <<nets, box, boot, startup, used, crashes>>
    BY DEF Evict, bounds
  <1>2. BoxShapes' /\ Settles
    BY <1>1, StillBoxes, StillSettles DEF BoxShapes
  <1>3. \A x \in evicts' : x \in evicts \/ \E e \in entry : x.of = e /\ x \in [of : Owners, step : Steps]
    BY <1>1 DEF OwnerShapes, Steps
  <1>4. boot = NoBoot
    BY <1>1 DEF BootStages
  <1>5. NoBoot.pc = "none" /\ NoBoot.sidecar = None
    BY DEF NoBoot, None
  <1>6. OwnerShapes'
    <2>1. evicts' \subseteq [of : Owners, step : Steps]
      BY <1>3 DEF OwnerShapes
    <2>2. \A x \in evicts' : (IsAgent(x.of.agent) /\ IsSidecar(x.of.sidecar))'
      BY <1>2, <1>3, Kept DEF OwnerShapes
    <2>3. (boot.agent # None => IsAgent(boot.agent))' /\ IsSidecar(boot.sidecar)'
      BY <1>1, <1>2, Kept DEF OwnerShapes
    <2> QED BY <1>1, <2>1, <2>2, <2>3 DEF OwnerShapes, Few
  <1>7. BootStages' /\ StartupStages'
    BY <1>1, <1>2 DEF BootStages, StartupStages, Up, Settles, Few
  <1>8. SidecarsApart' /\ EntryIntact'
    BY <1>1, <1>4, <1>5 DEF SidecarsApart, EntryIntact
  <1> QED BY <1>2, <1>6, <1>7, <1>8

LEMMA LimWantAgain == ASSUME LinkInv, WantAgain PROVE LinkInv'
  <1> USE DEF LinkInv
  <1>1. Up /\ wanted' = TRUE /\ UNCHANGED <<nets, box, boot, entry, evicts, startup, row, used, crashes>>
    BY DEF WantAgain, orchestrator, bounds
  <1>2. BoxShapes' /\ Settles
    BY <1>1, StillBoxes, StillSettles DEF BoxShapes
  <1>3. OwnerShapes'
    BY <1>1, <1>2, Kept DEF OwnerShapes, Few
  <1> QED BY <1>1, <1>2, <1>3 DEF BootStages, StartupStages, SidecarsApart, EntryIntact, Up, Settles, RowOf, Few

(* Nothing but the containers and the networks outlives the orchestrator.   *)
LEMMA LimCrash == ASSUME LinkInv, Crash PROVE LinkInv' /\ crashes' # 0
  <1> USE DEF LinkInv
  <1>1. /\ crashes' = crashes + 1 /\ boot' = NoBoot /\ entry' = {} /\ evicts' = {}
        /\ startup' = [phase |-> "agents", agents |-> Agents, sidecars |-> Sidecars,
                       kept |-> {}, row |-> row]
        /\ UNCHANGED <<nets, box, row, wanted, used>>
    BY DEF Crash
  <1>2. BoxShapes'
    BY <1>1, StillBoxes DEF BoxShapes
  <1>3. NoBoot.pc = "none" /\ NoBoot.sidecar = None /\ NoBoot.agent = None /\ NoBoot \in Boots
    BY LimitedAssumption DEF NoBoot, Boots, None
  <1>4. OwnerShapes' /\ crashes' # 0
    BY <1>1, <1>3 DEF OwnerShapes, Boots, IsSidecar, Few
  <1>5. Agents \subseteq Given /\ Sidecars \subseteq Given
    BY DEF BoxShapes, Agents, Sidecars, NoBox
  <1>6. Given' = Given
    BY <1>1 DEF Given
  <1>7. StartupStages'
    <2>1. startup' \in Startups
      BY <1>1 DEF Startups, OwnerShapes, Agents, Sidecars
    <2>2. /\ startup'.phase = "agents" /\ startup'.agents = Agents /\ startup'.sidecars = Sidecars
          /\ startup'.kept = {} /\ startup'.row = row
      BY <1>1
    <2> QED BY <1>1, <1>5, <1>6, <2>1, <2>2 DEF StartupStages, OwnerShapes, Agents, Sidecars, Few, Up
  <1>8. BootStages' /\ SidecarsApart' /\ EntryIntact'
    BY <1>1, <1>3 DEF BootStages, SidecarsApart, EntryIntact
  <1> QED BY <1>2, <1>4, <1>7, <1>8

(* An eviction takes its own: no sidecar but that of its owner.             *)
Later(x) == IF x.step = "net2" \/ (x.step = "agent" /\ x.of.sidecar = None) THEN {}
            ELSE {[x EXCEPT !.step = After(x.step)]}

LEMMA EvictMoves ==
    ASSUME NEW x \in [of : Owners, step : Steps], NEW y \in Later(x)
    PROVE  /\ y \in [of : Owners, step : Steps] /\ y.of = x.of
           /\ x.step = "agent" => y.step = "sidecar" /\ x.of.sidecar # None
           /\ x.step = "sidecar" => y.step = "net1"
           /\ x.step = "net1" => y.step = "net2"
           /\ x.step # "net2"
  BY DEF Later, After, Steps

LEMMA EvictTakes ==
    ASSUME LinkInv, NEW x \in evicts, UNCHANGED used,
           CASE x.step = "agent"   -> box' = Stopped({x.of.agent}) /\ UNCHANGED nets
             [] x.step = "sidecar" -> box' = Stopped(SidecarOf(x.of)) /\ UNCHANGED nets
             [] x.step = "net1"    -> RemoveNetworks(box, {"confined"})
             [] x.step = "net2"    -> RemoveNetworks(box, {"egress"})
    PROVE  /\ BoxShapes' /\ Dwindles
           /\ \A b \in Boxes : box[b].kind = "sidecar" /\ b # x.of.sidecar => box'[b].kind = "sidecar"
  <1> USE DEF LinkInv
  <1>1. x.step \in Steps /\ IsAgent(x.of.agent) /\ box \in [Boxes -> Boxed]
    BY DEF OwnerShapes, BoxShapes, Boxed
  <1>2. CASE x.step = "agent"
    <2>1. box' = Stopped({x.of.agent}) /\ UNCHANGED nets
      BY <1>2
    <2> QED BY <1>1, <2>1, Stops DEF IsAgent
  <1>3. CASE x.step = "sidecar"
    <2>1. box' = Stopped(SidecarOf(x.of)) /\ UNCHANGED nets
      BY <1>3
    <2>2. BoxShapes' /\ Dwindles /\ \A b \in Boxes : b \notin SidecarOf(x.of) => box'[b] = box[b]
      BY <2>1, Stops
    <2> QED BY <2>2 DEF SidecarOf
  <1>4. CASE x.step = "net1"
    <2>1. RemoveNetworks(box, {"confined"})
      BY <1>4
    <2> QED BY <1>1, <2>1, Removes
  <1>5. CASE x.step = "net2"
    <2>1. RemoveNetworks(box, {"egress"})
      BY <1>5
    <2> QED BY <1>1, <2>1, Removes
  <1> QED BY <1>1, <1>2, <1>3, <1>4, <1>5 DEF Steps

LEMMA LimEvictStep == ASSUME LinkInv, EvictStep PROVE LinkInv'
  <1> USE DEF LinkInv
  <1>1. UNCHANGED <<boot, entry, startup, row, wanted, used, crashes>>
    BY DEF EvictStep, bounds
  <1>2. PICK x \in evicts :
          /\ CASE x.step = "agent"   -> box' = Stopped({x.of.agent}) /\ UNCHANGED nets
               [] x.step = "sidecar" -> box' = Stopped(SidecarOf(x.of)) /\ UNCHANGED nets
               [] x.step = "net1"    -> RemoveNetworks(box, {"confined"})
               [] x.step = "net2"    -> RemoveNetworks(box, {"egress"})
          /\ evicts' = (evicts \ {x}) \cup Later(x)
    BY DEF EvictStep, Later
  <1>3. /\ BoxShapes' /\ Dwindles
        /\ \A b \in Boxes : box[b].kind = "sidecar" /\ b # x.of.sidecar => box'[b].kind = "sidecar"
    BY <1>1, <1>2, EvictTakes
  <1>4. Settles /\ Given' = Given /\ Given \subseteq Boxes /\ None \notin Boxes
    BY <1>3, DwindleSettles, GivenBoxes DEF BoxShapes
  <1>5. x \in [of : Owners, step : Steps]
    BY DEF OwnerShapes
  <1>6. \A y \in evicts' : y \in [of : Owners, step : Steps] /\ \E z \in evicts : y.of = z.of
    BY <1>2, <1>5, EvictMoves DEF OwnerShapes
  <1>7. OwnerShapes'
    <2>1. \A y \in evicts' : (IsAgent(y.of.agent) /\ IsSidecar(y.of.sidecar))'
      BY <1>4, <1>6, Kept DEF OwnerShapes
    <2>2. (boot.agent # None => IsAgent(boot.agent))' /\ IsSidecar(boot.sidecar)'
      BY <1>1, <1>4, Kept DEF OwnerShapes
    <2>3. \A e \in entry' : (IsAgent(e.agent) /\ IsSidecar(e.sidecar))'
      BY <1>1, <1>4, Kept DEF OwnerShapes
    <2> QED BY <1>1, <1>6, <2>1, <2>2, <2>3 DEF OwnerShapes, Few
  <1>8. evicts # {} => Up
    BY DEF StartupStages
  <1>9. \A e \in entry : e.sidecar # None => e.sidecar \in Boxes
    BY <1>4 DEF OwnerShapes, IsSidecar
  <1>10. boot.sidecar # None => boot.sidecar \in Boxes
    BY <1>4 DEF OwnerShapes, IsSidecar
  <1>11. SidecarsApart' /\ EntryIntact'
    BY <1>1, <1>3, <1>6, <1>9 DEF SidecarsApart, EntryIntact
  <1>12. BootStages'
    <2>1. boot.pc \in {"sidecarReady", "agent", "agentReady", "ws"} => box'[boot.sidecar].kind = "sidecar"
      BY <1>3, <1>10 DEF BootStages, SidecarsApart
    <2> QED BY <1>1, <2>1 DEF BootStages, Up
  <1>13. StartupStages'
    BY <1>1, <1>4, <1>8 DEF StartupStages, Up, Settles, RowOf, Few
  <1> QED BY <1>3, <1>7, <1>11, <1>12, <1>13

LEMMA StartupFields ==
    ASSUME LinkInv
    PROVE  /\ \A b, k : startup' = [startup EXCEPT !.agents = @ \ {b}, !.kept = k] =>
                /\ startup'.phase = startup.phase /\ startup'.row = startup.row
                /\ startup'.agents = startup.agents \ {b} /\ startup'.sidecars = startup.sidecars
                /\ startup'.kept = k
                /\ k \subseteq Boxes => startup' \in Startups
           /\ \A p : startup' = [startup EXCEPT !.phase = p] =>
                /\ startup'.phase = p /\ startup'.row = startup.row /\ startup'.agents = startup.agents
                /\ startup'.sidecars = startup.sidecars /\ startup'.kept = startup.kept
                /\ p = "sidecars" => startup' \in Startups
           /\ \A s : startup' = [startup EXCEPT !.sidecars = @ \ {s}] =>
                /\ startup'.phase = startup.phase /\ startup'.row = startup.row /\ startup'.agents = startup.agents
                /\ startup'.sidecars = startup.sidecars \ {s} /\ startup'.kept = startup.kept
                /\ startup' \in Startups
  <1>1. PICK r \in Startups : r = startup
    BY DEF LinkInv, StartupStages
  <1>2. \A b, k : startup' = [startup EXCEPT !.agents = @ \ {b}, !.kept = k] =>
                /\ startup'.phase = startup.phase /\ startup'.row = startup.row
                /\ startup'.agents = startup.agents \ {b} /\ startup'.sidecars = startup.sidecars
                /\ startup'.kept = k
                /\ k \subseteq Boxes => startup' \in Startups
    <2> TAKE b, k
    <2> HAVE startup' = [startup EXCEPT !.agents = @ \ {b}, !.kept = k]
    <2>1. PICK left : left = r.agents \ {b}
      OBVIOUS
    <2>2. startup' = [r EXCEPT !.agents = left, !.kept = k]
      BY <1>1, <2>1
    <2>3. left \subseteq Boxes
      BY <2>1 DEF Startups
    <2>4. /\ startup'.phase = r.phase /\ startup'.row = r.row /\ startup'.agents = left
          /\ startup'.sidecars = r.sidecars /\ startup'.kept = k
      BY <2>2 DEF Startups
    <2>5. k \subseteq Boxes => startup' \in Startups
      BY <2>2, <2>3 DEF Startups
    <2> QED BY <1>1, <2>1, <2>4, <2>5
  <1>3. \A p : startup' = [startup EXCEPT !.phase = p] =>
                /\ startup'.phase = p /\ startup'.row = startup.row /\ startup'.agents = startup.agents
                /\ startup'.sidecars = startup.sidecars /\ startup'.kept = startup.kept
                /\ p = "sidecars" => startup' \in Startups
    <2> TAKE p
    <2> HAVE startup' = [startup EXCEPT !.phase = p]
    <2>1. startup' = [r EXCEPT !.phase = p]
      BY <1>1
    <2> QED BY <1>1, <2>1 DEF Startups
  <1>4. \A s : startup' = [startup EXCEPT !.sidecars = @ \ {s}] =>
                /\ startup'.phase = startup.phase /\ startup'.row = startup.row /\ startup'.agents = startup.agents
                /\ startup'.sidecars = startup.sidecars \ {s} /\ startup'.kept = startup.kept
                /\ startup' \in Startups
    <2> TAKE s
    <2> HAVE startup' = [startup EXCEPT !.sidecars = @ \ {s}]
    <2>1. startup' = [r EXCEPT !.sidecars = @ \ {s}]
      BY <1>1
    <2> QED BY <1>1, <2>1 DEF Startups
  <1> QED BY <1>2, <1>3, <1>4

(* The startup moves on: what it has still to look at becomes less, what it *)
(* keeps more, and the row is the one it has read.                          *)
LEMMA StartupLinks ==
    ASSUME LinkInv, BoxShapes', Dwindles, startup.phase \in {"agents", "sidecars"},
           UNCHANGED <<boot, evicts, wanted, crashes>>,
           row' \subseteq Rows, Few(row'),
           startup' \in Startups, startup'.phase \in {"agents", "sidecars"}, startup'.row = startup.row,
           startup'.agents \subseteq startup.agents, startup'.sidecars \subseteq startup.sidecars,
           startup.kept \subseteq startup'.kept, startup'.kept \subseteq startup.kept \cup startup.sidecars,
           (startup.phase = "agents" /\ startup'.phase = "agents") \/ startup'.agents = {},
           entry' = entry \/ \E e \in Owners :
                /\ entry' = {e} /\ e.agent \in startup.agents \ startup'.agents
                /\ e.sidecar # None => e.sidecar \in startup'.kept /\ RowOf(e.agent) # {}
                /\ e.sidecar # None => e.sidecar \in startup.sidecars,
           \A e \in entry' : e.sidecar # None => box'[e.sidecar].kind = "sidecar"
    PROVE  LinkInv'
  <1> USE DEF LinkInv
  <1>1. Settles /\ Given' = Given /\ Given \subseteq Boxes /\ None \notin Boxes
    BY DwindleSettles, GivenBoxes DEF BoxShapes
  <1>2. boot = NoBoot /\ evicts = {} /\ ~Up /\ ~(Up')
    BY DEF StartupStages, Up
  <1>3. \A b \in startup.agents : IsAgent(b)
    BY DEF StartupStages, IsAgent
  <1>4. \A b \in startup.sidecars : IsSidecar(b)
    BY DEF StartupStages, IsSidecar
  <1>5. \A e \in entry' : e \in Owners /\ IsAgent(e.agent)' /\ IsSidecar(e.sidecar)'
    <2>1. CASE entry' = entry
      BY <1>1, <2>1, Kept DEF OwnerShapes
    <2>2. CASE entry' # entry
      BY <1>1, <1>3, <1>4, <2>2, Kept DEF IsSidecar
    <2> QED BY <2>1, <2>2
  <1>6. OwnerShapes'
    <2>1. (boot.agent # None => IsAgent(boot.agent))' /\ IsSidecar(boot.sidecar)'
      BY <1>1, Kept DEF OwnerShapes
    <2>2. Few(entry')
      BY DEF OwnerShapes, Few
    <2> QED BY <1>2, <1>5, <2>1, <2>2 DEF OwnerShapes, Few
  <1>7. NoBoot.pc = "none" /\ boot'.pc = "none"
    BY <1>2 DEF NoBoot
  <1>8. BootStages' /\ SidecarsApart' /\ EntryIntact'
    BY <1>2, <1>7 DEF BootStages, SidecarsApart, EntryIntact
  <1>9. StartupStages'
    <2>1. \A e \in entry' : e.sidecar # None =>
             /\ e.sidecar \in startup'.kept /\ RowOf(e.agent)' # {} /\ e.agent \notin startup'.agents
      BY <1>2 DEF StartupStages, RowOf
    <2>2. /\ startup'.agents \subseteq Given' /\ startup'.sidecars \subseteq Given' /\ startup'.kept \subseteq Given'
          /\ \A b \in startup'.agents : box'[b].kind \in {"agent", "none"}
          /\ \A b \in startup'.sidecars : box'[b].kind \in {"sidecar", "none"}
      BY <1>1 DEF StartupStages, Settles
    <2> QED BY <1>2, <2>1, <2>2 DEF StartupStages, Few
  <1> QED BY <1>6, <1>8, <1>9

(* What StopBroken and StartupSidecar leave to removeNetwork.               *)
LEMMA StoppedBoxes ==
    ASSUME BoxShapes, NEW ids
    PROVE  /\ Stopped(ids) \in [Boxes -> Boxed]
           /\ \A b \in Boxes : /\ Stopped(ids)[b] = IF b \in ids /\ Goes(b) THEN NoBox ELSE box[b]
                               /\ Stopped(ids)[b] \in {box[b], NoBox}
  <1>1. NoBox \in Boxed
    BY DEF NoBox, Boxed
  <1> QED BY <1>1 DEF Stopped, BoxShapes, Boxed

LEMMA LimStartupAgent == ASSUME LinkInv, StartupAgent PROVE LinkInv'
  <1> USE DEF LinkInv
  <1>1. startup.phase = "agents" /\ UNCHANGED <<boot, evicts, wanted, used, crashes>>
    BY DEF StartupAgent, bounds
  <1>2. PICK b \in startup.agents :
           /\ StopOrphan(b) \/ StopBroken(b) \/ Adopt(b) \/ AdoptFails(b)
           /\ startup' = [startup EXCEPT
                 !.agents = @ \ {b},
                 !.kept = IF Adoptable(b) /\ Limited(b) THEN @ \cup LiveSidecars ELSE @]
    BY DEF StartupAgent
  <1>3. Given \subseteq Boxes /\ None \notin Boxes /\ b \in Given /\ ~Up /\ LiveSidecars \subseteq startup.sidecars
    BY <1>1, GivenBoxes DEF BoxShapes, StartupStages, Up, LiveSidecars
  <1>4. \A e \in entry : e.sidecar # None => e.sidecar \in Boxes /\ box[e.sidecar].kind = "sidecar" /\ e.sidecar # b
    BY <1>3 DEF EntryIntact, OwnerShapes, IsSidecar, StartupStages
  <1>5. /\ startup'.phase = "agents" /\ startup'.row = startup.row
        /\ startup'.agents = startup.agents \ {b} /\ startup'.sidecars = startup.sidecars
        /\ startup'.kept = IF Adoptable(b) /\ Limited(b) THEN startup.kept \cup LiveSidecars ELSE startup.kept
        /\ startup' \in Startups
    <2>1. PICK k : k = IF Adoptable(b) /\ Limited(b) THEN startup.kept \cup LiveSidecars ELSE startup.kept
      OBVIOUS
    <2>2. k \subseteq Boxes
      BY <1>3, <2>1 DEF StartupStages
    <2>3. startup' = [startup EXCEPT !.agents = @ \ {b}, !.kept = k]
      BY <1>2, <2>1
    <2> QED BY <1>1, <2>1, <2>2, <2>3, StartupFields
  <1>6. /\ row \subseteq Rows /\ Few(row)
        /\ {} \subseteq Rows /\ Few({})
    BY DEF OwnerShapes, Few
  <1>7. CASE StopOrphan(b) \/ AdoptFails(b)
    <2>1. box' = Stopped({b}) /\ row' \in {row, {}} /\ UNCHANGED <<nets, entry>>
      BY <1>7 DEF StopOrphan, AdoptFails
    <2>2. BoxShapes' /\ Dwindles /\ \A c \in Boxes : c # b => box'[c] = box[c]
      BY <1>1, <2>1, Stops
    <2> QED BY <1>1, <1>3, <1>4, <1>5, <1>6, <2>1, <2>2, StartupLinks
  <1>8. CASE StopBroken(b)
    <2>1. /\ RemoveNetworks(Stopped({b} \cup startup.sidecars), Nets)
          /\ row' = {} /\ entry' = entry /\ Limited(b)
      BY <1>8 DEF StopBroken
    <2>2. BoxShapes' /\ Dwindles
      BY <1>1, <2>1, StoppedBoxes, Removes
    <2>3. \A e \in entry : e.sidecar = None
      <3>1. SUFFICES ASSUME NEW e \in entry, e.sidecar # None PROVE FALSE
        OBVIOUS
      <3>2. RowOf(e.agent) # {} /\ e.agent \notin startup.agents
        BY <1>3, <3>1 DEF StartupStages
      <3>3. e.agent = b
        BY <2>1, <3>2 DEF Limited, RowOf, StartupStages, Few
      <3> QED BY <3>2, <3>3
    <2> QED BY <1>1, <1>3, <1>5, <1>6, <2>1, <2>2, <2>3, StartupLinks
  <1>9. CASE Adopt(b)
    <2>1. PICK c : c = IF Limited(b) THEN CHOOSE s \in LiveSidecars : TRUE ELSE None
      OBVIOUS
    <2> DEFINE e == [agent |-> b, sidecar |-> c]
    <2>2. /\ entry' = {e} /\ row' = {[agent |-> b, source |-> "adopt"]} /\ UNCHANGED <<nets, box>>
          /\ Adoptable(b) /\ (Limited(b) => LiveSidecars # {})
      BY <1>9, <2>1 DEF Adopt
    <2>3. c # None => c \in LiveSidecars /\ Limited(b)
      BY <2>1, <2>2
    <2>4. e \in Owners /\ e.agent = b /\ e.sidecar = c
      BY <1>3, <2>3 DEF Owners, StartupStages
    <2> HIDE DEF e
    <2>5. BoxShapes' /\ Dwindles
      BY <1>1, <2>2, StillBoxes, StillSettles DEF BoxShapes
    <2>6. c # None => /\ box'[c].kind = "sidecar" /\ c \in startup.sidecars /\ c \in startup'.kept
                      /\ RowOf(b) # {}
      <3>1. SUFFICES ASSUME c # None
                     PROVE  /\ box'[c].kind = "sidecar" /\ c \in startup.sidecars /\ c \in startup'.kept
                            /\ RowOf(b) # {}
        OBVIOUS
      <3>2. c \in startup.sidecars /\ box[c].up /\ Limited(b)
        BY <2>3, <3>1 DEF LiveSidecars
      <3>3. box[c].kind \in {"sidecar", "none"} /\ c \in Boxes
        BY <1>3, <3>2 DEF StartupStages
      <3>4. box[c].kind # "none"
        BY <3>2, <3>3 DEF BoxShapes, NoBox
      <3> QED BY <1>5, <2>2, <2>3, <3>1, <3>2, <3>3, <3>4 DEF Limited
    <2>7. row' \subseteq Rows /\ Few(row')
      BY <1>3, <2>2 DEF Few, Rows
    <2>8. /\ e.agent \in startup.agents \ startup'.agents
          /\ e.sidecar # None => e.sidecar \in startup'.kept /\ RowOf(e.agent) # {}
          /\ e.sidecar # None => e.sidecar \in startup.sidecars
      BY <1>5, <2>4, <2>6
    <2>9. \A o \in entry' : o.sidecar # None => box'[o.sidecar].kind = "sidecar"
      BY <2>2, <2>4, <2>6
    <2>10. startup.kept \subseteq startup'.kept /\ startup'.kept \subseteq startup.kept \cup startup.sidecars
      BY <1>3, <1>5
    <2> QED BY <1>1, <1>5, <2>2, <2>4, <2>5, <2>7, <2>8, <2>9, <2>10, StartupLinks
  <1> QED BY <1>2, <1>7, <1>8, <1>9

LEMMA LimStartupSidecars == ASSUME LinkInv, StartupSidecars PROVE LinkInv'
  <1> USE DEF LinkInv
  <1>1. /\ startup.phase = "agents" /\ startup.agents = {}
        /\ startup' = [startup EXCEPT !.phase = "sidecars"]
        /\ UNCHANGED <<nets, box, boot, entry, evicts, row, wanted, used, crashes>>
    BY DEF StartupSidecars, bounds
  <1>2. BoxShapes' /\ Dwindles
    BY <1>1, StillBoxes, StillSettles DEF BoxShapes
  <1>3. /\ startup'.phase = "sidecars" /\ startup'.row = startup.row
        /\ startup'.agents = startup.agents /\ startup'.sidecars = startup.sidecars /\ startup'.kept = startup.kept
        /\ startup' \in Startups
    BY <1>1, StartupFields
  <1> QED BY <1>1, <1>2, <1>3, StartupLinks DEF OwnerShapes, EntryIntact

LEMMA LimStartupSidecar == ASSUME LinkInv, StartupSidecar PROVE LinkInv'
  <1> USE DEF LinkInv
  <1>1. startup.phase = "sidecars" /\ UNCHANGED <<boot, entry, evicts, row, wanted, used, crashes>>
    BY DEF StartupSidecar, bounds
  <1>2. PICK s \in startup.sidecars \ startup.kept :
           RemoveNetworks(Stopped({s}), Nets) /\ startup' = [startup EXCEPT !.sidecars = @ \ {s}]
    BY DEF StartupSidecar
  <1>3. BoxShapes' /\ Dwindles /\ \A b \in Boxes : b # s => box'[b].kind = box[b].kind
    BY <1>1, <1>2, StoppedBoxes, Removes
  <1>4. /\ startup'.phase = "sidecars" /\ startup'.row = startup.row
        /\ startup'.agents = startup.agents /\ startup'.sidecars = startup.sidecars \ {s} /\ startup'.kept = startup.kept
        /\ startup' \in Startups
    BY <1>1, <1>2, StartupFields
  <1>5. \A e \in entry : e.sidecar # None => e.sidecar \in Boxes /\ e.sidecar # s
    BY <1>1, GivenBoxes DEF StartupStages, Up, BoxShapes
  <1>6. startup'.agents = {}
    BY <1>1, <1>4 DEF StartupStages
  <1>7. \A e \in entry' : e.sidecar # None => box'[e.sidecar].kind = "sidecar"
    BY <1>1, <1>3, <1>5 DEF EntryIntact
  <1> QED BY <1>1, <1>3, <1>4, <1>6, <1>7, StartupLinks DEF OwnerShapes

LEMMA LimStartServing == ASSUME LinkInv, StartServing PROVE LinkInv'
  <1> USE DEF LinkInv
  <1>1. /\ startup.phase = "sidecars" /\ startup' = Serving /\ wanted' \in {wanted, wanted /\ entry # {}}
        /\ UNCHANGED <<nets, box, boot, entry, evicts, row, used, crashes>>
    BY DEF StartServing, bounds
  <1>2. BoxShapes' /\ Settles /\ Given' = Given
    BY <1>1, StillBoxes, StillSettles DEF BoxShapes
  <1>3. boot = NoBoot /\ evicts = {}
    BY <1>1 DEF StartupStages, Up
  <1>4. wanted' \in BOOLEAN
    BY <1>1 DEF OwnerShapes
  <1>5. OwnerShapes'
    BY <1>1, <1>2, <1>4, Kept DEF OwnerShapes, Few
  <1>6. BootStages' /\ SidecarsApart' /\ EntryIntact'
    BY <1>1, <1>3 DEF BootStages, SidecarsApart, EntryIntact, NoBoot
  <1>7. StartupStages'
    BY <1>1 DEF StartupStages, Serving, Startups, Up, Few
  <1> QED BY <1>2, <1>5, <1>6, <1>7

LEMMA LimStill == ASSUME LinkInv, UNCHANGED vars PROVE LinkInv'
  <1> USE DEF LinkInv
  <1>1. UNCHANGED <<nets, box, boot, entry, evicts, startup, row, wanted, used, crashes>>
    BY DEF vars, orchestrator, bounds
  <1>2. BoxShapes' /\ Settles /\ Given' = Given
    BY <1>1, StillBoxes, StillSettles DEF BoxShapes
  <1>3. OwnerShapes'
    BY <1>1, <1>2, Kept DEF OwnerShapes, Few
  <1> QED BY <1>1, <1>2, <1>3 DEF BootStages, StartupStages, SidecarsApart, EntryIntact, Up, RowOf, Few

LEMMA LimLinks == LinkInv /\ [Next]_vars => LinkInv'
  BY LimExit, LimStartBoot, LimReady, LimEnsure, LimBootSidecar, LimBootAgent, LimFail, LimUndo, LimClaim,
     LimEvict, LimWantAgain, LimCrash, LimEvictStep, LimStartupAgent, LimStartupSidecars, LimStartupSidecar,
     LimStartServing, LimStill DEF Next, System

----------------------------------------------------------------------------
(* The containers and the networks are held.                                *)

(* A network that is in use is the network of somebody who has still to     *)
(* stop a container of his: he will remove the network later.               *)
LEMMA UserHolds ==
    ASSUME HeldInv, crashes = 0, NEW n, InUse(box, n)
    PROVE  \/ entry # {}
           \/ boot.made = Nets /\ boot.pc \in Building \cup {"undoAgent", "undoSidecar"}
           \/ \E x \in evicts : x.step \in {"agent", "sidecar"}
  <1>1. PICK b \in Boxes : box[b].up
    BY DEF InUse
  <1>2. box[b].kind \in {"agent", "sidecar"}
    BY <1>1 DEF HeldInv, LinkInv, BoxShapes, NoBox
  <1>3. AgentHeld(b) \/ SidecarHeld(b)
    BY <1>1, <1>2 DEF HeldInv, AgentsHeld, Running, Agents, CrashFree, SidecarsHeld, Relays, Sidecars
  <1>4. ~(b \in startup.agents /\ startup.phase = "agents")
    BY DEF HeldInv, CrashFree, Up
  <1>5. b # None
    BY DEF Boxes, None
  <1>6. boot.agent = b \/ boot.sidecar = b => boot.made = Nets
    BY <1>5 DEF HeldInv, LinkInv, BootStages
  <1> QED BY <1>3, <1>4, <1>6 DEF AgentHeld, SidecarHeld, Building

(* The steps that no container and no network is touched by.                *)
LEMMA HeldStill ==
    ASSUME HeldInv, LinkInv', UNCHANGED <<nets, box>>,
           \/ StartBoot \/ SidecarReady \/ AgentReady \/ WantAgain
           \/ StartupSidecars \/ StartServing \/ UNCHANGED vars
    PROVE  AgentsHeld' /\ CrashFree'
  <1> USE DEF HeldInv
  <1>1. \A b \in Boxes : b # None
    BY DEF Boxes, None
  <1>2. Running' = Running /\ Relays' = Relays /\ Running \subseteq Boxes /\ Relays \subseteq Boxes
    BY DEF Running, Agents, Relays, Sidecars
  <1>3. CASE StartBoot
    <2>1. /\ boot = NoBoot /\ boot' = [NoBoot EXCEPT !.pc = "net1"]
          /\ UNCHANGED <<entry, evicts, startup, crashes>>
      BY <1>3 DEF StartBoot, bounds, LinkInv, BootStages
    <2>2. /\ boot.agent = None /\ boot.sidecar = None /\ boot.made = {} /\ boot.pc = "none"
          /\ boot'.agent = None /\ boot'.sidecar = None /\ boot'.made = {} /\ boot'.pc = "net1"
      BY <2>1 DEF NoBoot
    <2>3. \A b \in Boxes : AgentHeld(b) => AgentHeld(b)'
      BY <1>1, <2>1, <2>2 DEF AgentHeld
    <2>4. \A b \in Boxes : SidecarHeld(b) => SidecarHeld(b)'
      BY <1>1, <2>1, <2>2 DEF SidecarHeld
    <2>5. \A n : NetHeld(n) => NetHeld(n)'
      BY <2>1, <2>2 DEF NetHeld
    <2> QED BY <1>2, <2>1, <2>3, <2>4, <2>5 DEF AgentsHeld, CrashFree, SidecarsHeld, NetsHeld, Up
  <1>4. CASE SidecarReady \/ AgentReady
    <2>1. PICK r \in Boots : r = boot
      BY DEF LinkInv, OwnerShapes, Boots
    <2>2. /\ UNCHANGED <<entry, evicts, startup, crashes>>
          /\ \/ boot.pc = "sidecarReady" /\ boot' = [r EXCEPT !.pc = "agent"]
             \/ boot.pc = "agentReady" /\ boot' = [r EXCEPT !.pc = "ws"]
      BY <1>4, <2>1 DEF SidecarReady, AgentReady, bounds
    <2>3. /\ boot'.agent = boot.agent /\ boot'.sidecar = boot.sidecar /\ boot'.made = boot.made
          /\ (boot.pc = "sidecarReady" /\ boot'.pc = "agent") \/ (boot.pc = "agentReady" /\ boot'.pc = "ws")
      BY <2>1, <2>2 DEF Boots
    <2>4. \A b \in Boxes : AgentHeld(b) => AgentHeld(b)'
      BY <2>2, <2>3 DEF AgentHeld
    <2>5. \A b \in Boxes : SidecarHeld(b) => SidecarHeld(b)'
      BY <2>2, <2>3 DEF SidecarHeld, Building
    <2>6. \A n : NetHeld(n) => NetHeld(n)'
      BY <2>2, <2>3 DEF NetHeld
    <2> QED BY <1>2, <2>2, <2>4, <2>5, <2>6 DEF AgentsHeld, CrashFree, SidecarsHeld, NetsHeld, Up
  <1>5. CASE WantAgain \/ UNCHANGED vars
    <2>1. UNCHANGED <<boot, entry, evicts, startup, crashes>>
      BY <1>5 DEF WantAgain, vars, orchestrator, bounds
    <2> QED BY <1>2, <2>1 DEF AgentsHeld, AgentHeld, CrashFree, SidecarsHeld, SidecarHeld, NetsHeld, NetHeld, Up
  <1>6. CASE StartupSidecars \/ StartServing
    <2>1. UNCHANGED <<boot, entry, evicts, crashes>> /\ startup.phase \in {"agents", "sidecars"} /\ startup.agents = {}
      BY <1>6 DEF StartupSidecars, StartServing, bounds, LinkInv, StartupStages
    <2>2. crashes' # 0
      BY <2>1 DEF CrashFree, Up
    <2>3. \A b \in Boxes : AgentHeld(b) => AgentHeld(b)'
      BY <2>1 DEF AgentHeld
    <2> QED BY <1>2, <2>2, <2>3 DEF AgentsHeld, CrashFree
  <1> QED BY <1>3, <1>4, <1>5, <1>6

LEMMA HeldExit == ASSUME HeldInv, Exit PROVE AgentsHeld' /\ CrashFree'
  <1> USE DEF HeldInv
  <1>1. Dwindles
    BY LimExit
  <1>2. UNCHANGED <<nets, boot, entry, evicts, startup, crashes>>
    BY DEF Exit, orchestrator
  <1>3. Running' \subseteq Running /\ Relays' \subseteq Relays
    BY <1>1 DEF Running, Agents, Relays, Sidecars, Dwindles
  <1> QED BY <1>2, <1>3 DEF AgentsHeld, AgentHeld, CrashFree, SidecarsHeld, SidecarHeld, NetsHeld, NetHeld, Up

LEMMA HeldEnsure ==
    ASSUME HeldInv, EnsureNetwork("net1", "confined", "net2") \/ EnsureNetwork("net2", "egress", "sidecar")
    PROVE  AgentsHeld' /\ CrashFree'
  <1> USE DEF HeldInv
  <1>1. PICK net \in Nets, next \in {"net2", "sidecar"} :
           /\ boot.pc \in {"net1", "net2"} /\ nets' = nets \cup {net}
           /\ boot' = [boot EXCEPT !.pc = next, !.made = @ \cup {net}]
           /\ UNCHANGED <<box, entry, evicts, startup, crashes>>
    BY DEF EnsureNetwork, bounds, Nets
  <1>2. PICK r \in Boots : r = boot
    BY DEF LinkInv, OwnerShapes, Boots
  <1>3. /\ boot'.pc = next /\ boot'.made = boot.made \cup {net}
        /\ boot'.sidecar = boot.sidecar /\ boot'.agent = boot.agent
    <2>1. boot' = [r EXCEPT !.pc = next, !.made = @ \cup {net}]
      BY <1>1, <1>2
    <2> QED BY <1>2, <2>1 DEF Boots
  <1>4. Running' = Running /\ Relays' = Relays
    BY <1>1 DEF Running, Agents, Relays, Sidecars
  <1>5. \A b \in Boxes : AgentHeld(b) => AgentHeld(b)'
    BY <1>1, <1>3 DEF AgentHeld
  <1>6. \A b \in Boxes : SidecarHeld(b) => SidecarHeld(b)'
    BY <1>1, <1>3 DEF SidecarHeld, Building
  <1>7. NetHeld(net)' /\ \A n : NetHeld(n) => NetHeld(n)'
    BY <1>1, <1>3 DEF NetHeld
  <1> QED BY <1>1, <1>4, <1>5, <1>6, <1>7
          DEF AgentsHeld, Running, Agents, CrashFree, SidecarsHeld, Relays, Sidecars, NetsHeld, Up

LEMMA HeldBootSidecar == ASSUME HeldInv, BootSidecar PROVE AgentsHeld' /\ CrashFree'
  <1> USE DEF HeldInv
  <1>1. /\ boot.pc = "sidecar" /\ Spawn("sidecar", Nets)
        /\ boot' = [boot EXCEPT !.pc = "sidecarReady", !.sidecar = used']
        /\ UNCHANGED <<nets, entry, evicts, startup, crashes>>
    BY DEF BootSidecar
  <1>2. /\ used' \in Boxes /\ used' = used + 1 /\ Relays = {} /\ box'[used'].kind = "sidecar"
        /\ \A b \in Boxes : b # used' => box'[b] = box[b]
    BY <1>1, SpawnsIt DEF LinkInv, Relays
  <1>3. /\ boot'.pc = "sidecarReady" /\ boot'.made = boot.made /\ boot'.sidecar = used' /\ boot'.agent = boot.agent
    <2>1. PICK r \in Boots : r = boot
      BY DEF LinkInv, OwnerShapes, Boots
    <2>2. boot' = [r EXCEPT !.pc = "sidecarReady", !.sidecar = used']
      BY <1>1, <2>1
    <2> QED BY <2>1, <2>2 DEF Boots
  <1>4. Running' \subseteq Running /\ Relays' \subseteq {used'} /\ Running \subseteq Boxes
    BY <1>2 DEF Running, Agents, Relays, Sidecars
  <1>5. \A b \in Boxes : AgentHeld(b) => AgentHeld(b)'
    BY <1>1, <1>3 DEF AgentHeld
  <1>6. SidecarHeld(used)' /\ \A n : NetHeld(n) => NetHeld(n)'
    BY <1>1, <1>3 DEF SidecarHeld, NetHeld, Building
  <1> QED BY <1>1, <1>4, <1>5, <1>6 DEF AgentsHeld, CrashFree, SidecarsHeld, NetsHeld, Up

LEMMA HeldBootAgent == ASSUME HeldInv, BootAgent PROVE AgentsHeld' /\ CrashFree'
  <1> USE DEF HeldInv
  <1>1. /\ boot.pc = "agent" /\ Spawn("agent", {"confined"})
        /\ boot' = [boot EXCEPT !.pc = "agentReady", !.agent = used']
        /\ UNCHANGED <<nets, entry, evicts, startup, crashes>>
    BY DEF BootAgent
  <1>2. /\ used' \in Boxes /\ used' = used + 1 /\ box'[used'].kind = "agent"
        /\ \A b \in Boxes : b # used' => box'[b] = box[b]
    BY <1>1, SpawnsIt DEF LinkInv
  <1>3. /\ boot'.pc = "agentReady" /\ boot'.made = boot.made /\ boot'.sidecar = boot.sidecar /\ boot'.agent = used'
    <2>1. PICK r \in Boots : r = boot
      BY DEF LinkInv, OwnerShapes, Boots
    <2>2. boot' = [r EXCEPT !.pc = "agentReady", !.agent = used']
      BY <1>1, <2>1
    <2> QED BY <2>1, <2>2 DEF Boots
  <1>4. Running' \subseteq Running \cup {used'} /\ Relays' \subseteq Relays /\ Running \subseteq Boxes /\ Relays \subseteq Boxes
    BY <1>2 DEF Running, Agents, Relays, Sidecars
  <1>5. \A b \in Boxes : AgentHeld(b) => AgentHeld(b)'
    BY <1>1, <1>3 DEF AgentHeld
  <1>6. AgentHeld(used)' /\ \A n : NetHeld(n) => NetHeld(n)'
    BY <1>1, <1>3 DEF AgentHeld, NetHeld
  <1>7. \A b \in Boxes : SidecarHeld(b) => SidecarHeld(b)'
    BY <1>1, <1>3 DEF SidecarHeld, Building
  <1> QED BY <1>1, <1>4, <1>5, <1>6, <1>7 DEF AgentsHeld, CrashFree, SidecarsHeld, NetsHeld, Up

LEMMA HeldClaim == ASSUME HeldInv, Claim PROVE AgentsHeld' /\ CrashFree'
  <1> USE DEF HeldInv
  <1>1. /\ boot.pc = "ws" /\ boot' = NoBoot
        /\ entry' = {[agent |-> boot.agent, sidecar |-> boot.sidecar]}
        /\ UNCHANGED <<nets, box, evicts, startup, crashes>>
    BY DEF Claim, bounds
  <1>2. boot.sidecar # None /\ entry = {}
    BY <1>1 DEF LinkInv, BootStages
  <1>3. PICK e : e = [agent |-> boot.agent, sidecar |-> boot.sidecar]
    OBVIOUS
  <1>4. e.agent = boot.agent /\ e.sidecar = boot.sidecar /\ entry' = {e}
    BY <1>1, <1>3
  <1>5. Running' = Running /\ Relays' = Relays
    BY <1>1 DEF Running, Agents, Relays, Sidecars
  <1>6. \A b : AgentHeld(b) => AgentHeld(b)'
    BY <1>1, <1>2, <1>4 DEF AgentHeld
  <1>7. \A b : SidecarHeld(b) => SidecarHeld(b)'
    BY <1>1, <1>2, <1>4 DEF SidecarHeld
  <1>8. \A n : NetHeld(n)'
    BY <1>4 DEF NetHeld
  <1> QED BY <1>1, <1>2, <1>4, <1>5, <1>6, <1>7, <1>8 DEF AgentsHeld, CrashFree, SidecarsHeld, NetsHeld, Up

LEMMA HeldEvict == ASSUME HeldInv, Evict PROVE AgentsHeld' /\ CrashFree'
  <1> USE DEF HeldInv
  <1>1. /\ Up /\ entry # {} /\ entry' = {}
        /\ evicts' = evicts \cup {[of |-> e, step |-> "agent"] : e \in entry}
        /\ UNCHANGED <<nets, box, boot, startup, crashes>>
    BY DEF Evict, bounds
  <1>2. \A e \in entry : \E x \in evicts' : x.of = e /\ x.step = "agent"
    <2> SUFFICES ASSUME NEW e \in entry PROVE \E x \in evicts' : x.of = e /\ x.step = "agent"
      OBVIOUS
    <2>1. PICK x : x = [of |-> e, step |-> "agent"]
      OBVIOUS
    <2>2. x \in evicts' /\ x.of = e /\ x.step = "agent"
      BY <1>1, <2>1
    <2> QED BY <2>2
  <1>3. \A x \in evicts' : x \in evicts \/ \E e \in entry : x.of = e
    BY <1>1
  <1>4. Running' = Running /\ Relays' = Relays
    BY <1>1 DEF Running, Agents, Relays, Sidecars
  <1>5. \A b : AgentHeld(b) => AgentHeld(b)'
    BY <1>1, <1>2 DEF AgentHeld
  <1>6. \A b : SidecarHeld(b) => SidecarHeld(b)'
    BY <1>1, <1>2 DEF SidecarHeld
  <1>7. \A n : NetHeld(n)'
    BY <1>1, <1>2 DEF NetHeld
  <1> QED BY <1>1, <1>3, <1>4, <1>5, <1>6, <1>7 DEF AgentsHeld, CrashFree, SidecarsHeld, NetsHeld, Up

LEMMA HeldCrash == ASSUME HeldInv, Crash PROVE AgentsHeld' /\ CrashFree'
  <1>1. crashes' # 0
    BY LimCrash DEF HeldInv
  <1>2. Running' \subseteq startup'.agents /\ startup'.phase = "agents"
    BY DEF Crash, Running, Agents
  <1> QED BY <1>1, <1>2 DEF AgentsHeld, AgentHeld, CrashFree

LEMMA HeldFail == ASSUME HeldInv, Fail PROVE AgentsHeld' /\ CrashFree'
  <1> USE DEF HeldInv
  <1>1. /\ boot.pc \in Building
        /\ boot' = [boot EXCEPT !.pc = "undoAgent"]
        /\ UNCHANGED <<nets, entry, evicts, startup, crashes>>
    BY DEF Fail, BootFails
  <1>2. /\ boot'.pc = "undoAgent" /\ boot'.made = boot.made
        /\ boot'.sidecar = boot.sidecar /\ boot'.agent = boot.agent
    <2>1. PICK r \in Boots : r = boot
      BY DEF LinkInv, OwnerShapes, Boots
    <2>2. boot' = [r EXCEPT !.pc = "undoAgent"]
      BY <1>1, <2>1
    <2> QED BY <2>1, <2>2 DEF Boots
  <1>3. \A b \in Boxes : box'[b].up => box[b].up /\ box'[b].kind = box[b].kind
    BY SpawnsNot DEF LinkInv
  <1>4. Running' \subseteq Running /\ Relays' \subseteq Relays
    BY <1>3 DEF Running, Agents, Relays, Sidecars
  <1>5. \A b : AgentHeld(b) => AgentHeld(b)'
    BY <1>1, <1>2 DEF AgentHeld
  <1>6. \A b : SidecarHeld(b) => SidecarHeld(b)'
    BY <1>1, <1>2 DEF SidecarHeld
  <1>7. \A n : NetHeld(n) => NetHeld(n)'
    BY <1>1, <1>2 DEF NetHeld, Building
  <1> QED BY <1>1, <1>4, <1>5, <1>6, <1>7 DEF AgentsHeld, CrashFree, SidecarsHeld, NetsHeld, Up

(* A rollback lets go of what it has stopped; a network that it could not   *)
(* remove is somebody else's.                                               *)
LEMMA HeldUndo == ASSUME HeldInv, Undo PROVE AgentsHeld' /\ CrashFree'
  <1> USE DEF HeldInv
  <1>1. UNCHANGED <<entry, evicts, startup, used, crashes>>
    BY DEF Undo, bounds
  <1>2. PICK r \in Boots : r = boot
    BY DEF LinkInv, OwnerShapes, Boots
  <1>3. \A b \in Boxes : b # None
    BY DEF Boxes, None
  <1>4. box \in [Boxes -> Boxed] /\ NoBox.kind = "none" /\ BoxShapes /\ nets \subseteq Nets
    BY DEF LinkInv, BoxShapes, Boxed, NoBox
  <1>5. ASSUME Dwindles PROVE Running' \subseteq Running /\ Relays' \subseteq Relays
    BY <1>5 DEF Running, Agents, Relays, Sidecars, Dwindles
  <1>6. boot.pc \in Undoing => entry = {}
    BY DEF LinkInv, BootStages, Undoing
  <1>7. CASE boot.pc = "undoAgent" /\ box' = Stopped({boot.agent}) /\ boot' = [boot EXCEPT !.pc = "undoSidecar"] /\ nets' = nets
    <2>1. /\ boot'.pc = "undoSidecar" /\ boot'.made = boot.made
          /\ boot'.sidecar = boot.sidecar /\ boot'.agent = boot.agent
      BY <1>2, <1>7 DEF Boots
    <2>2. Dwindles /\ \A b \in Boxes : b = boot.agent => ~box'[b].up
      BY <1>1, <1>3, <1>4, <1>7, Stops
    <2>3. \A b \in Running' : AgentHeld(b)'
      <3> SUFFICES ASSUME NEW b \in Running' PROVE AgentHeld(b)'
        OBVIOUS
      <3>1. b \in Running /\ b # boot.agent
        BY <1>4, <1>5, <2>2 DEF Running, Agents
      <3> QED BY <1>1, <3>1 DEF AgentsHeld, AgentHeld
    <2>4. \A b : SidecarHeld(b) => SidecarHeld(b)'
      BY <1>1, <1>7, <2>1 DEF SidecarHeld
    <2>5. \A n : NetHeld(n) => NetHeld(n)'
      BY <1>1, <1>7, <2>1 DEF NetHeld
    <2> QED BY <1>1, <1>5, <1>7, <2>2, <2>3, <2>4, <2>5 DEF AgentsHeld, CrashFree, SidecarsHeld, NetsHeld, Up
  <1>8. CASE boot.pc = "undoSidecar" /\ box' = Stopped({boot.sidecar}) /\ boot' = [boot EXCEPT !.pc = "undoNet1"] /\ nets' = nets
    <2>1. /\ boot'.pc = "undoNet1" /\ boot'.made = boot.made
          /\ boot'.sidecar = boot.sidecar /\ boot'.agent = boot.agent
      BY <1>2, <1>8 DEF Boots
    <2>2. Dwindles /\ \A b \in Boxes : b = boot.sidecar => ~box'[b].up
      BY <1>1, <1>3, <1>4, <1>8, Stops
    <2>3. \A b : AgentHeld(b) => AgentHeld(b)'
      BY <1>1, <1>8, <2>1 DEF AgentHeld
    <2>4. crashes = 0 => \A b \in Relays' : SidecarHeld(b)'
      <3> SUFFICES ASSUME crashes = 0, NEW b \in Relays' PROVE SidecarHeld(b)'
        OBVIOUS
      <3>1. b \in Relays /\ b # boot.sidecar
        BY <1>4, <1>5, <2>2 DEF Relays, Sidecars
      <3> QED BY <1>1, <3>1 DEF SidecarsHeld, SidecarHeld, CrashFree
    <2>5. \A n : NetHeld(n) => NetHeld(n)'
      BY <1>1, <1>8, <2>1 DEF NetHeld
    <2> QED BY <1>1, <1>5, <1>8, <2>2, <2>3, <2>4, <2>5 DEF AgentsHeld, CrashFree, SidecarsHeld, NetsHeld, Up
  <1>9. CASE boot.pc = "undoNet1" /\ RemoveNetworks(box, Undone \cap {"confined"}) /\ boot' = [boot EXCEPT !.pc = "undoNet2"]
    <2>1. /\ boot'.pc = "undoNet2" /\ boot'.made = boot.made
          /\ boot'.sidecar = boot.sidecar /\ boot'.agent = boot.agent
      BY <1>2, <1>9 DEF Boots
    <2>2. Dwindles /\ nets' \subseteq nets /\ \A n \in Undone \cap {"confined"} : n \in nets' => InUse(box, n)
      BY <1>1, <1>4, <1>9, Removes
    <2>3. \A b : AgentHeld(b) => AgentHeld(b)'
      BY <1>1, <1>9, <2>1 DEF AgentHeld
    <2>4. \A b : SidecarHeld(b) => SidecarHeld(b)'
      BY <1>1, <1>9, <2>1 DEF SidecarHeld, Building
    <2>5. crashes = 0 => \A n \in nets' : NetHeld(n)'
      <3> SUFFICES ASSUME crashes = 0, NEW n \in nets' PROVE NetHeld(n)'
        OBVIOUS
      <3>1. NetHeld(n) /\ n \in Nets
        BY <1>4, <2>2 DEF CrashFree, NetsHeld
      <3>2. CASE n = "egress"
        BY <1>1, <2>1, <3>1, <3>2 DEF NetHeld
      <3>3. CASE n = "confined" /\ n \notin boot.made
        BY <1>1, <3>1, <3>3 DEF NetHeld
      <3>4. CASE n = "confined" /\ n \in boot.made
        <4>1. InUse(box, n)
          BY <2>2, <3>4 DEF Undone
        <4>2. \E x \in evicts : x.step \in {"agent", "sidecar"}
          BY <1>6, <1>9, <4>1, UserHolds DEF Building, Undoing
        <4> QED BY <1>1, <4>2 DEF NetHeld
      <3> QED BY <3>1, <3>2, <3>3, <3>4 DEF Nets
    <2> QED BY <1>1, <1>5, <2>2, <2>3, <2>4, <2>5 DEF AgentsHeld, CrashFree, SidecarsHeld, NetsHeld, Up
  <1>10. CASE boot.pc = "undoNet2" /\ RemoveNetworks(box, Undone \cap {"egress"}) /\ boot' = NoBoot
    <2>1. boot'.pc = "none" /\ boot'.made = {} /\ boot'.sidecar = None /\ boot'.agent = None
      BY <1>10 DEF NoBoot
    <2>2. Dwindles /\ nets' \subseteq nets /\ \A n \in Undone \cap {"egress"} : n \in nets' => InUse(box, n)
      BY <1>1, <1>4, <1>10, Removes
    <2>3. \A b : AgentHeld(b) => AgentHeld(b)'
      BY <1>1, <1>10, <2>1 DEF AgentHeld
    <2>4. \A b : SidecarHeld(b) => SidecarHeld(b)'
      BY <1>1, <1>10, <2>1 DEF SidecarHeld, Building
    <2>5. crashes = 0 => \A n \in nets' : NetHeld(n)'
      <3> SUFFICES ASSUME crashes = 0, NEW n \in nets' PROVE NetHeld(n)'
        OBVIOUS
      <3>1. NetHeld(n) /\ n \in Nets
        BY <1>4, <2>2 DEF CrashFree, NetsHeld
      <3>2. CASE ~(n \in boot.made /\ n = "egress")
        BY <1>1, <1>10, <3>1, <3>2 DEF NetHeld
      <3>3. CASE n \in boot.made /\ n = "egress"
        <4>1. InUse(box, n)
          BY <2>2, <3>3 DEF Undone
        <4>2. \E x \in evicts : x.step \in {"agent", "sidecar"}
          BY <1>6, <1>10, <4>1, UserHolds DEF Building, Undoing
        <4> QED BY <1>1, <4>2 DEF NetHeld
      <3> QED BY <3>2, <3>3
    <2> QED BY <1>1, <1>5, <2>2, <2>3, <2>4, <2>5 DEF AgentsHeld, CrashFree, SidecarsHeld, NetsHeld, Up
  <1> QED BY <1>7, <1>8, <1>9, <1>10 DEF Undo

LEMMA EvictGoesOn ==
    ASSUME NEW x \in [of : Owners, step : Steps]
    PROVE  /\ x.step = "agent" /\ x.of.sidecar # None => \E y \in Later(x) : y.of = x.of /\ y.step = "sidecar"
           /\ x.step = "sidecar" => \E y \in Later(x) : y.of = x.of /\ y.step = "net1"
           /\ x.step = "net1" => \E y \in Later(x) : y.of = x.of /\ y.step = "net2"
  <1>1. PICK y : y = [x EXCEPT !.step = After(x.step)]
    OBVIOUS
  <1>2. y.of = x.of /\ y.step = After(x.step)
    BY <1>1
  <1>3. CASE x.step = "agent" /\ x.of.sidecar # None
    <2>1. Later(x) = {y} /\ y.step = "sidecar"
      BY <1>1, <1>2, <1>3 DEF Later, After
    <2> QED BY <1>2, <1>3, <2>1
  <1>4. CASE x.step = "sidecar"
    <2>1. Later(x) = {y} /\ y.step = "net1"
      BY <1>1, <1>2, <1>4 DEF Later, After
    <2> QED BY <1>2, <1>4, <2>1
  <1>5. CASE x.step = "net1"
    <2>1. Later(x) = {y} /\ y.step = "net2"
      BY <1>1, <1>2, <1>5 DEF Later, After
    <2> QED BY <1>2, <1>5, <2>1
  <1> QED BY <1>3, <1>4, <1>5

LEMMA HeldEvictStep == ASSUME HeldInv, EvictStep PROVE AgentsHeld' /\ CrashFree'
  <1> USE DEF HeldInv
  <1>1. UNCHANGED <<boot, entry, startup, used, crashes>>
    BY DEF EvictStep, bounds
  <1>2. PICK x \in evicts :
          /\ CASE x.step = "agent"   -> box' = Stopped({x.of.agent}) /\ UNCHANGED nets
               [] x.step = "sidecar" -> box' = Stopped(SidecarOf(x.of)) /\ UNCHANGED nets
               [] x.step = "net1"    -> RemoveNetworks(box, {"confined"})
               [] x.step = "net2"    -> RemoveNetworks(box, {"egress"})
          /\ evicts' = (evicts \ {x}) \cup Later(x)
    BY DEF EvictStep, Later
  <1>3. BoxShapes' /\ Dwindles
    BY <1>1, <1>2, EvictTakes
  <1>4. Running' \subseteq Running /\ Relays' \subseteq Relays /\ Running' \subseteq Boxes /\ Relays' \subseteq Boxes
    BY <1>3 DEF Running, Agents, Relays, Sidecars, Dwindles
  <1>5. x \in [of : Owners, step : Steps]
    BY DEF LinkInv, OwnerShapes
  <1>6. \A b \in Boxes : b # None
    BY DEF Boxes, None
  <1>7. BoxShapes /\ box \in [Boxes -> Boxed] /\ NoBox.kind = "none" /\ nets \subseteq Nets
    BY DEF LinkInv, BoxShapes, Boxed, NoBox
  <1>8. \A b \in Running' : AgentHeld(b)'
    <2> SUFFICES ASSUME NEW b \in Running' PROVE AgentHeld(b)'
      OBVIOUS
    <2>1. AgentHeld(b) /\ b \in Boxes
      BY <1>4 DEF AgentsHeld
    <2>2. ~(x.of.agent = b /\ x.step = "agent")
      <3> SUFFICES ASSUME x.of.agent = b, x.step = "agent" PROVE FALSE
        OBVIOUS
      <3>1. box' = Stopped({b}) /\ UNCHANGED nets
        BY <1>2
      <3>2. ~box'[b].up
        BY <1>1, <1>6, <1>7, <2>1, <3>1, Stops
      <3> QED BY <1>7, <3>2 DEF Running, Agents
    <2> QED BY <1>1, <1>2, <2>1, <2>2 DEF AgentHeld
  <1>9. \A b \in Relays' : crashes = 0 => SidecarHeld(b)'
    <2> SUFFICES ASSUME NEW b \in Relays', crashes = 0 PROVE SidecarHeld(b)'
      OBVIOUS
    <2>1. SidecarHeld(b) /\ b \in Boxes
      BY <1>4 DEF CrashFree, SidecarsHeld
    <2>2. ~(x.of.sidecar = b /\ x.step = "sidecar")
      <3> SUFFICES ASSUME x.of.sidecar = b, x.step = "sidecar" PROVE FALSE
        OBVIOUS
      <3>1. box' = Stopped({b}) /\ UNCHANGED nets
        BY <1>2, <2>1 DEF SidecarOf
      <3>2. ~box'[b].up
        BY <1>1, <1>6, <1>7, <2>1, <3>1, Stops
      <3> QED BY <1>7, <3>2 DEF Relays, Sidecars
    <2>3. CASE x.of.sidecar = b /\ x.step = "agent"
      <3>1. PICK y \in Later(x) : y.of = x.of /\ y.step = "sidecar"
        BY <1>5, <1>6, <2>1, <2>3, EvictGoesOn
      <3> QED BY <1>2, <2>3, <3>1 DEF SidecarHeld
    <2>4. CASE ~(x.of.sidecar = b /\ x.step \in {"agent", "sidecar"})
      BY <1>1, <1>2, <2>1, <2>4 DEF SidecarHeld
    <2> QED BY <2>2, <2>3, <2>4
  <1>10. \A n \in nets' : crashes = 0 => NetHeld(n)'
    <2> SUFFICES ASSUME NEW n \in nets', crashes = 0 PROVE NetHeld(n)'
      OBVIOUS
    <2>1. x.of.sidecar # None
      BY DEF CrashFree
    <2>2. ASSUME n \in nets, x.step \in {"agent", "sidecar"} PROVE NetHeld(n)'
      <3>1. \E y \in Later(x) : y.step # "net2"
        BY <1>5, <2>1, <2>2, EvictGoesOn
      <3> QED BY <1>2, <3>1 DEF NetHeld
    <2>3. ASSUME InUse(box, n), x.step \notin {"agent", "sidecar"} PROVE NetHeld(n)'
      <3>1. /\ n \in Nets
        BY <1>3 DEF BoxShapes
      <3>2. \/ entry # {}
            \/ boot.made = Nets /\ boot.pc \in Building \cup {"undoAgent", "undoSidecar"}
            \/ \E z \in evicts : z.step \in {"agent", "sidecar"}
        BY <2>3, UserHolds
      <3>3. ASSUME NEW z \in evicts, z.step \in {"agent", "sidecar"} PROVE NetHeld(n)'
        <4>1. z \in evicts'
          BY <1>2, <2>3, <3>3
        <4> QED BY <3>3, <4>1 DEF NetHeld
      <3>4. entry # {} => NetHeld(n)'
        BY <1>1 DEF NetHeld
      <3>5. boot.made = Nets /\ boot.pc \in Building \cup {"undoAgent", "undoSidecar"} => NetHeld(n)'
        BY <1>1, <3>1 DEF NetHeld, Building
      <3> QED BY <3>2, <3>3, <3>4, <3>5
    <2>4. CASE x.step \in {"agent", "sidecar"}
      <3>1. nets' = nets
        BY <1>2, <2>4
      <3> QED BY <2>2, <2>4, <3>1
    <2>5. CASE x.step = "net1"
      <3>1. RemoveNetworks(box, {"confined"})
        BY <1>2, <2>5
      <3>2. n \in nets /\ (n = "confined" => InUse(box, n))
        BY <1>1, <1>7, <3>1, Removes
      <3>3. \E y \in Later(x) : y.step = "net2"
        BY <1>5, <2>5, EvictGoesOn
      <3>4. n = "egress" => NetHeld(n)'
        BY <1>2, <3>3 DEF NetHeld
      <3> QED BY <1>7, <2>3, <2>5, <3>2, <3>4 DEF Nets
    <2>6. CASE x.step = "net2"
      <3>1. RemoveNetworks(box, {"egress"})
        BY <1>2, <2>6
      <3>2. n \in nets /\ (n = "egress" => InUse(box, n))
        BY <1>1, <1>7, <3>1, Removes
      <3>3. ASSUME n # "egress" PROVE NetHeld(n)'
        <4>1. NetHeld(n)
          BY <3>2 DEF CrashFree, NetsHeld
        <4>2. \A z \in evicts : (z.step = "net2" => n = "egress") => z # x
          BY <2>6, <3>3
        <4> QED BY <1>1, <1>2, <4>1, <4>2 DEF NetHeld
      <3> QED BY <2>3, <2>6, <3>2, <3>3
    <2> QED BY <1>5, <2>4, <2>5, <2>6 DEF Steps
  <1>11. \A y \in evicts' : \E z \in evicts : y.of = z.of
    BY <1>2, <1>5, EvictMoves
  <1> QED BY <1>1, <1>8, <1>9, <1>10, <1>11 DEF AgentsHeld, CrashFree, SidecarsHeld, NetsHeld, Up

LEMMA HeldStartupAgent == ASSUME HeldInv, StartupAgent PROVE AgentsHeld' /\ CrashFree'
  <1> USE DEF HeldInv
  <1>1. startup.phase = "agents" /\ UNCHANGED <<boot, evicts, used, crashes>>
    BY DEF StartupAgent, bounds
  <1>2. PICK b \in startup.agents :
           /\ StopOrphan(b) \/ StopBroken(b) \/ Adopt(b) \/ AdoptFails(b)
           /\ startup' = [startup EXCEPT
                 !.agents = @ \ {b},
                 !.kept = IF Adoptable(b) /\ Limited(b) THEN @ \cup LiveSidecars ELSE @]
    BY DEF StartupAgent
  <1>3. CrashFree'
    BY <1>1 DEF CrashFree, Up
  <1>4. startup'.phase = "agents" /\ startup'.agents = startup.agents \ {b}
    <2>1. PICK k : k = IF Adoptable(b) /\ Limited(b) THEN startup.kept \cup LiveSidecars ELSE startup.kept
      OBVIOUS
    <2>2. startup' = [startup EXCEPT !.agents = @ \ {b}, !.kept = k]
      BY <1>2, <2>1
    <2> QED BY <1>1, <2>2, StartupFields
  <1>5. BoxShapes /\ b \in Boxes /\ NoBox.up = FALSE
    BY GivenBoxes DEF LinkInv, StartupStages, BoxShapes, NoBox
  <1>6. (Dwindles /\ ~box'[b].up /\ entry' = entry) \/ Adopt(b)
    <2>1. ASSUME StopOrphan(b) \/ AdoptFails(b) PROVE Dwindles /\ ~box'[b].up /\ entry' = entry
      BY <1>1, <1>5, <2>1, Stops DEF StopOrphan, AdoptFails
    <2>2. ASSUME StopBroken(b) PROVE Dwindles /\ ~box'[b].up /\ entry' = entry
      <3>1. RemoveNetworks(Stopped({b} \cup startup.sidecars), Nets) /\ entry' = entry
        BY <2>2 DEF StopBroken
      <3>2. ~Stopped({b} \cup startup.sidecars)[b].up
        BY <1>5, StoppedBoxes DEF Goes
      <3> QED BY <1>1, <1>5, <3>1, <3>2, StoppedBoxes, Removes
    <2> QED BY <1>2, <2>1, <2>2
  <1>7. CASE Dwindles /\ ~box'[b].up /\ entry' = entry
    <2>1. Running' \subseteq Running /\ b \notin Running'
      BY <1>7 DEF Running, Agents, Dwindles
    <2> QED BY <1>1, <1>3, <1>4, <1>7, <2>1 DEF AgentsHeld, AgentHeld
  <1>8. CASE Adopt(b)
    <2>1. box' = box /\ entry = {} /\ \E e \in entry' : e.agent = b
      <3>1. PICK c : c = IF Limited(b) THEN CHOOSE s \in LiveSidecars : TRUE ELSE None
        OBVIOUS
      <3>2. PICK e : e = [agent |-> b, sidecar |-> c]
        OBVIOUS
      <3> QED BY <1>8, <3>1, <3>2 DEF Adopt
    <2>2. Running' = Running
      BY <2>1 DEF Running, Agents
    <2> QED BY <1>1, <1>3, <1>4, <2>1, <2>2 DEF AgentsHeld, AgentHeld
  <1> QED BY <1>6, <1>7, <1>8

LEMMA HeldStartupSidecar == ASSUME HeldInv, StartupSidecar PROVE AgentsHeld' /\ CrashFree'
  <1> USE DEF HeldInv
  <1>1. startup.phase = "sidecars" /\ UNCHANGED <<boot, entry, evicts, used, crashes>>
    BY DEF StartupSidecar, bounds
  <1>2. PICK s \in startup.sidecars \ startup.kept : RemoveNetworks(Stopped({s}), Nets)
    BY DEF StartupSidecar
  <1>3. Dwindles
    BY <1>1, <1>2, StoppedBoxes, Removes DEF LinkInv
  <1>4. Running' \subseteq Running
    BY <1>3 DEF Running, Agents, Dwindles
  <1> QED BY <1>1, <1>4 DEF AgentsHeld, AgentHeld, CrashFree, Up

LEMMA HeldHolds == HeldInv /\ [Next]_vars => HeldInv'
  <1> SUFFICES ASSUME HeldInv, [Next]_vars PROVE HeldInv'
    OBVIOUS
  <1>1. LinkInv'
    BY LimLinks DEF HeldInv
  <1>2. ASSUME UNCHANGED vars PROVE UNCHANGED <<nets, box>>
    BY <1>2 DEF vars
  <1>3. ASSUME StartBoot \/ SidecarReady \/ AgentReady \/ WantAgain \/ StartupSidecars \/ StartServing
        PROVE  UNCHANGED <<nets, box>>
    BY <1>3 DEF StartBoot, SidecarReady, AgentReady, WantAgain, StartupSidecars, StartServing
  <1> QED BY <1>1, <1>2, <1>3, HeldStill, HeldExit, HeldEnsure, HeldBootSidecar, HeldBootAgent, HeldClaim,
             HeldFail, HeldUndo, HeldEvict, HeldEvictStep, HeldCrash, HeldStartupAgent, HeldStartupSidecar
          DEF HeldInv, Next, System

----------------------------------------------------------------------------

LEMMA FewCount == ASSUME NEW S, Few(S) PROVE Cardinality(S) <= 1
  <1>1. CASE S = {}
    BY <1>1, FS_EmptySet
  <1>2. CASE S # {}
    <2>1. PICK x \in S : TRUE
      BY <1>2
    <2>2. S = {x}
      BY <2>1 DEF Few
    <2>3. Cardinality(S) = 1
      BY <2>2, FS_Singleton
    <2> QED BY <2>3
  <1> QED BY <1>1, <1>2

LEMMA LinkTypes == LinkInv => TypeOK
  <1> SUFFICES ASSUME LinkInv PROVE TypeOK
    OBVIOUS
  <1> USE DEF LinkInv
  <1>1. Cardinality(entry) <= 1 /\ Cardinality(row) <= 1
    BY FewCount DEF OwnerShapes
  <1>2. /\ nets \subseteq Nets
        /\ box \in [Boxes -> [kind : {"none", "agent", "sidecar"}, up : BOOLEAN, at : SUBSET Nets]]
        /\ \A b \in Boxes : box[b].at \subseteq nets
    BY DEF BoxShapes
  <1>3. /\ startup.agents \subseteq Boxes /\ startup.sidecars \subseteq Boxes
        /\ startup.kept \subseteq Boxes /\ startup.phase \in {"serving", "agents", "sidecars"}
    BY DEF StartupStages, Startups
  <1> QED BY <1>1, <1>2, <1>3 DEF TypeOK, OwnerShapes, Rows

LEMMA LinkIntact == LinkInv => OwnedIntact
  <1> SUFFICES ASSUME LinkInv, NEW e \in entry, e.sidecar # None
               PROVE  box[e.sidecar].kind = "sidecar" /\ (box[e.sidecar].up => Nets \subseteq nets)
    BY DEF OwnedIntact
  <1> USE DEF LinkInv
  <1>1. box[e.sidecar].kind = "sidecar"
    BY DEF EntryIntact
  <1>2. e.sidecar \in Boxes
    BY GivenBoxes DEF OwnerShapes, IsSidecar, BoxShapes
  <1> QED BY <1>1, <1>2 DEF BoxShapes

LEMMA HeldReclaims == HeldInv => Reclaimed /\ AgentsOwned
  <1> SUFFICES ASSUME HeldInv PROVE Reclaimed /\ AgentsOwned
    OBVIOUS
  <1>1. AgentsOwned
    BY DEF AgentsOwned, HeldInv, AgentsHeld, AgentHeld, Up
  <1>2. ASSUME Quiet, crashes = 0 PROVE nets = {} /\ \A b \in Boxes : ~box[b].up
    <2>1. boot = NoBoot /\ entry = {} /\ evicts = {} /\ Up
      BY <1>2 DEF Quiet, HeldInv, LinkInv, BootStages
    <2>2. boot.agent = None /\ boot.sidecar = None /\ boot.made = {} /\ boot.pc = "none"
      BY <2>1 DEF NoBoot
    <2>3. \A b \in Boxes : b \notin Running /\ b \notin Relays
      BY <1>2, <2>1, <2>2 DEF HeldInv, AgentsHeld, AgentHeld, CrashFree, SidecarsHeld, SidecarHeld, Up, Building
    <2>4. nets = {}
      BY <1>2, <2>1, <2>2 DEF HeldInv, CrashFree, NetsHeld, NetHeld
    <2>5. \A b \in Boxes : box[b].kind \in {"none", "agent", "sidecar"}
      BY DEF HeldInv, LinkInv, BoxShapes
    <2>6. \A b \in Boxes : box[b].kind = "none" => ~box[b].up
      BY DEF HeldInv, LinkInv, BoxShapes, NoBox
    <2> QED BY <2>3, <2>4, <2>5, <2>6 DEF Running, Agents, Relays, Sidecars
  <1> QED BY <1>1, <1>2 DEF Reclaimed

(* What an active entry owns is there, whichever containers have exited and *)
(* whatever earlier lives of the session have left.                         *)
THEOREM OwnedStays == Spec => [](TypeOK /\ OwnedIntact)
  <1>1. Init => LinkInv
    BY LimInit DEF HeldInv
  <1>2. LinkInv /\ [Next]_vars => LinkInv'
    BY LimLinks
  <1> QED BY <1>1, <1>2, LinkTypes, LinkIntact, PTL DEF Spec

(* And of a dead session no container runs on, and before a crash no        *)
(* network stays: stops that fail because a container has exited, and what  *)
(* they leave, included.                                                    *)
THEOREM TopologyHolds == Spec => []TopologyInv
  <1>1. Init => HeldInv
    BY LimInit
  <1>2. HeldInv /\ [Next]_vars => HeldInv'
    BY HeldHolds
  <1>3. HeldInv => TopologyInv
    BY LinkTypes, LinkIntact, HeldReclaims DEF HeldInv, TopologyInv
  <1> QED BY <1>1, <1>2, <1>3, PTL DEF Spec

----------------------------------------------------------------------------
(* The gateway socket (GatewaySession).                                     *)

Frames == [type : {"requested", "resolved", "reply"}, about : SUBSET Approvals,
           of : 0 .. MaxCalls, ok : BOOLEAN]

Requests == [kind : Kinds, about : SUBSET Approvals, client : 0 .. MaxClients, stage : Stages, ok : BOOLEAN]

(* An event of an approval is on the wire, at the k-th frame or later.      *)
Due(w, type, a, k) == \E j \in k .. Len(w) : w[j].type = type /\ a \in w[j].about

(* Of a list of approvals: those that wait no more are still to be heard of *)
(* as resolved, and those that wait and are not on it as requested.         *)
GoneDue(w, list, waiting, k) == \A a \in list : a \in waiting \/ Due(w, "resolved", a, k)
CameDue(w, list, waiting, k) == \A a \in waiting : a \in list \/ Due(w, "requested", a, k)

(* What a frame says is so, but for the frames behind it.                   *)
FrameTrue(w, waiting, i) ==
    /\ w[i].type = "requested" => GoneDue(w, w[i].about, waiting, i + 1)
    /\ w[i].type = "resolved" => w[i].about \cap waiting = {}
    /\ w[i].type = "reply" =>
          /\ w[i].of \in 1 .. calls
          /\ w[i].ok /\ call[w[i].of].kind = "list" =>
                /\ GoneDue(w, w[i].about, waiting, i + 1)
                /\ CameDue(w, w[i].about, waiting, i + 1)
          /\ w[i].ok /\ call[w[i].of].kind = "resolve" => w[i].about \cap waiting = {}

WireTrue(w, waiting) == \A i \in 1 .. Len(w) : FrameTrue(w, waiting, i)

GatewayShapes ==
    /\ GatewayTypeOK /\ live \in BOOLEAN /\ connected \in BOOLEAN
    /\ wire \in Seq(Frames)
    /\ \A i \in 1 .. Len(wire) : wire[i].about \subseteq asked
    /\ connected => sub = client
    /\ ~connected => wire = <<>>

(* A request that has not been sent is fresh; a reply being handed over is  *)
(* as true as it was on the wire, if no event has overtaken it.             *)
CallInv ==
    \A n \in CallIds :
        /\ n > calls \/ call[n].kind = "none" => call[n].stage = "unused"
        /\ call[n].about \subseteq asked
        /\ call[n].kind = "resolve" /\ call[n].stage = "sent" => \E a \in Approvals : call[n].about = {a}

SettlingInv ==
    \A n \in CallIds : Settling(n) /\ call[n].ok =>
        /\ call[n].kind = "resolve" => call[n].about \cap gateway = {}
        /\ call[n].kind = "list" /\ connected /\ call[n].client = client /\ ~overtaken
              => GoneDue(wire, call[n].about, gateway, 1) /\ CameDue(wire, call[n].about, gateway, 1)

(* What is shown is what waits, but for what is on the wire.                *)
ShownInv ==
    connected /\ synced =>
        /\ GoneDue(wire, shown, gateway, 1)
        /\ run = "turn" => CameDue(wire, shown, gateway, 1)

GatewayInv == GatewayShapes /\ CallInv /\ SettlingInv /\ WireTrue(wire, gateway) /\ ShownInv

----------------------------------------------------------------------------
(* Frames arrive at one end and are handled at the other.                   *)

LEMMA DueAppend ==
    ASSUME NEW w \in Seq(Frames), NEW f \in Frames, NEW type, NEW a, NEW k \in Nat \ {0}
    PROVE  /\ Due(w, type, a, k) => Due(Append(w, f), type, a, k)
           /\ k <= Len(w) + 1 /\ f.type = type /\ a \in f.about => Due(Append(w, f), type, a, k)
  <1>1. /\ Append(w, f) \in Seq(Frames) /\ Len(Append(w, f)) = Len(w) + 1
        /\ \A j \in 1 .. Len(w) : Append(w, f)[j] = w[j]
        /\ Append(w, f)[Len(w) + 1] = f /\ Len(w) \in Nat
    OBVIOUS
  <1> QED BY <1>1 DEF Due

LEMMA DueTail ==
    ASSUME NEW w \in Seq(Frames), w # <<>>, NEW type, NEW a, NEW k \in Nat \ {0}
    PROVE  /\ Due(w, type, a, k + 1) => Due(Tail(w), type, a, k)
           /\ Due(w, type, a, 1) => Due(Tail(w), type, a, 1) \/ (Head(w).type = type /\ a \in Head(w).about)
  <1>1. /\ Tail(w) \in Seq(Frames) /\ Len(Tail(w)) = Len(w) - 1 /\ Len(w) \in Nat \ {0}
        /\ \A j \in 1 .. Len(w) - 1 : Tail(w)[j] = w[j + 1]
        /\ Head(w) = w[1]
    OBVIOUS
  <1>2. ASSUME NEW j \in 2 .. Len(w) PROVE j - 1 \in 1 .. Len(Tail(w)) /\ Tail(w)[j - 1] = w[j]
    BY <1>1
  <1>3. Due(w, type, a, k + 1) => Due(Tail(w), type, a, k)
    <2> SUFFICES ASSUME NEW j \in k + 1 .. Len(w), w[j].type = type, a \in w[j].about
                 PROVE  Due(Tail(w), type, a, k)
      BY DEF Due
    <2>1. j \in 2 .. Len(w) /\ j - 1 \in k .. Len(Tail(w))
      BY <1>1
    <2> QED BY <1>2, <2>1 DEF Due
  <1>4. Due(w, type, a, 1) => Due(Tail(w), type, a, 1) \/ (Head(w).type = type /\ a \in Head(w).about)
    <2> SUFFICES ASSUME NEW j \in 1 .. Len(w), w[j].type = type, a \in w[j].about, j # 1
                 PROVE  Due(Tail(w), type, a, 1)
      BY <1>1 DEF Due
    <2>1. j \in 2 .. Len(w)
      BY <1>1
    <2> QED BY <1>2, <2>1 DEF Due
  <1> QED BY <1>3, <1>4

(* A frame arrives with a change of what waits that it tells of.            *)
Tells(f, waiting, now) ==
    /\ \A a \in waiting \ now : f.type = "resolved" /\ a \in f.about
    /\ \A a \in now \ waiting : f.type = "requested" /\ a \in f.about

LEMMA DueArrives ==
    ASSUME NEW w \in Seq(Frames), NEW f \in Frames, NEW waiting, NEW now, Tells(f, waiting, now),
           NEW list, NEW k \in 1 .. Len(w) + 1
    PROVE  /\ GoneDue(w, list, waiting, k) => GoneDue(Append(w, f), list, now, k)
           /\ CameDue(w, list, waiting, k) => CameDue(Append(w, f), list, now, k)
  <1>1. k \in Nat \ {0} /\ k <= Len(w) + 1
    OBVIOUS
  <1>2. \A type, a : /\ Due(w, type, a, k) => Due(Append(w, f), type, a, k)
                     /\ f.type = type /\ a \in f.about => Due(Append(w, f), type, a, k)
    BY <1>1, DueAppend
  <1> QED BY <1>2 DEF GoneDue, CameDue, Tells

(* The frame is true, and those before it stay so.                          *)
LEMMA WireArrives ==
    ASSUME NEW w \in Seq(Frames), NEW f \in Frames, NEW waiting, NEW now, Tells(f, waiting, now),
           WireTrue(w, waiting), \A i \in 1 .. Len(w) : w[i].about \cap (now \ waiting) = {},
           f.type = "requested" => f.about \subseteq now,
           f.type = "resolved" => f.about \cap now = {},
           f.type = "reply" =>
              /\ f.of \in 1 .. calls
              /\ f.ok /\ call[f.of].kind = "list" => f.about = now
              /\ f.ok /\ call[f.of].kind = "resolve" => f.about \cap now = {}
    PROVE  Append(w, f) \in Seq(Frames) /\ WireTrue(Append(w, f), now)
  <1> DEFINE v == Append(w, f)
  <1>1. /\ v \in Seq(Frames) /\ Len(v) = Len(w) + 1 /\ Len(w) \in Nat
        /\ \A j \in 1 .. Len(w) : v[j] = w[j]
        /\ v[Len(w) + 1] = f
    OBVIOUS
  <1> SUFFICES ASSUME NEW i \in 1 .. Len(w) + 1 PROVE FrameTrue(v, now, i)
    BY <1>1 DEF WireTrue
  <1>2. CASE i \in 1 .. Len(w)
    <2>1. FrameTrue(w, waiting, i) /\ v[i] = w[i] /\ i + 1 \in 1 .. Len(w) + 1
      BY <1>1, <1>2 DEF WireTrue
    <2>2. /\ GoneDue(w, w[i].about, waiting, i + 1) => GoneDue(v, w[i].about, now, i + 1)
          /\ CameDue(w, w[i].about, waiting, i + 1) => CameDue(v, w[i].about, now, i + 1)
      BY <2>1, DueArrives
    <2>3. w[i].about \cap waiting = {} => w[i].about \cap now = {}
      BY <1>2
    <2> HIDE DEF v
    <2> QED BY <2>1, <2>2, <2>3 DEF FrameTrue
  <1>3. CASE i = Len(w) + 1
    <2>1. v[i] = f
      BY <1>1, <1>3
    <2> HIDE DEF v
    <2> QED BY <2>1 DEF FrameTrue, GoneDue, CameDue
  <1> QED BY <1>2, <1>3

(* The frame at the head is handled.                                        *)
LEMMA WireHandled ==
    ASSUME NEW w \in Seq(Frames), w # <<>>, NEW waiting, WireTrue(w, waiting)
    PROVE  /\ Tail(w) \in Seq(Frames) /\ WireTrue(Tail(w), waiting)
           /\ Head(w) \in Frames
           /\ FrameTrue(w, waiting, 1) /\ Head(w) = w[1]
           /\ \A i \in 1 .. Len(Tail(w)) : i + 1 \in 1 .. Len(w) /\ Tail(w)[i] = w[i + 1]
           /\ \A list : \A k \in Nat \ {0} :
                 /\ GoneDue(w, list, waiting, k + 1) => GoneDue(Tail(w), list, waiting, k)
                 /\ CameDue(w, list, waiting, k + 1) => CameDue(Tail(w), list, waiting, k)
  <1>1. /\ Tail(w) \in Seq(Frames) /\ Len(Tail(w)) = Len(w) - 1 /\ Len(w) \in Nat \ {0}
        /\ \A j \in 1 .. Len(w) - 1 : Tail(w)[j] = w[j + 1]
        /\ Head(w) = w[1] /\ w[1] \in Frames
    OBVIOUS
  <1>2. \A i \in 1 .. Len(Tail(w)) : i + 1 \in 1 .. Len(w) /\ Tail(w)[i] = w[i + 1]
    BY <1>1
  <1>3. ASSUME NEW list, NEW k \in Nat \ {0}
        PROVE  /\ GoneDue(w, list, waiting, k + 1) => GoneDue(Tail(w), list, waiting, k)
               /\ CameDue(w, list, waiting, k + 1) => CameDue(Tail(w), list, waiting, k)
    <2>1. \A type, a : Due(w, type, a, k + 1) => Due(Tail(w), type, a, k)
      BY DueTail
    <2> QED BY <2>1 DEF GoneDue, CameDue
  <1>4. ASSUME NEW i \in 1 .. Len(Tail(w)) PROVE FrameTrue(Tail(w), waiting, i)
    <2>1. FrameTrue(w, waiting, i + 1) /\ Tail(w)[i] = w[i + 1]
      BY <1>2 DEF WireTrue
    <2>2. i \in Nat \ {0} /\ i + 1 \in Nat \ {0}
      BY <1>1
    <2>3. PICK t : t = Tail(w)
      OBVIOUS
    <2>4. PICK r : r = t[i]
      OBVIOUS
    <2>5. /\ GoneDue(w, r.about, waiting, i + 1 + 1) => GoneDue(t, r.about, waiting, i + 1)
          /\ CameDue(w, r.about, waiting, i + 1 + 1) => CameDue(t, r.about, waiting, i + 1)
      BY <1>3, <2>2, <2>3
    <2>6. FrameTrue(t, waiting, i)
      BY <2>1, <2>3, <2>4, <2>5 DEF FrameTrue
    <2> QED BY <2>3, <2>6
  <1> QED BY <1>1, <1>2, <1>3, <1>4 DEF WireTrue

(* Requests are sent and settle: of what a reply is, is not revised.        *)
LEMMA WireKeeps ==
    ASSUME NEW w, NEW waiting, wire' = w, gateway' = waiting, WireTrue(w, waiting),
           calls \in Nat, calls' \in {calls, calls + 1},
           \A n \in 1 .. calls : call'[n].kind = call[n].kind
    PROVE  WireTrue(wire, gateway)'
  <1> SUFFICES ASSUME NEW i \in 1 .. Len(w) PROVE FrameTrue(wire, gateway, i)'
    BY DEF WireTrue
  <1>1. FrameTrue(w, waiting, i)
    BY DEF WireTrue
  <1>2. \A n \in 1 .. calls : n \in 1 .. calls'
    OBVIOUS
  <1> QED BY <1>1, <1>2 DEF FrameTrue

CallsSame == calls' = calls /\ \A n \in CallIds : call'[n].kind = call[n].kind

LEMMA CallBounds ==
    ASSUME calls \in 0 .. MaxCalls
    PROVE  calls \in Nat /\ 1 .. calls \subseteq CallIds
  BY GatewayAssumption DEF CallIds

(* A step that no reply is handed over by: what settles has failed.         *)
LEMMA QuietCalls ==
    ASSUME GatewayShapes, CallInv, asked \subseteq asked',
           call' \in [CallIds -> Requests],
           \A n \in CallIds :
              \/ call'[n] = call[n] /\ calls' = calls
              \/ calls' = calls /\ Waiting(n) /\ call'[n].kind = call[n].kind
                 /\ call'[n].about = call[n].about /\ call'[n].stage \in {"answered", "settling"}
              \/ n # calls + 1 /\ call'[n] = call[n] /\ calls' = calls + 1
              \/ /\ n = calls + 1 /\ calls' = calls + 1 /\ call'[n].about \subseteq asked
                 /\ call'[n].kind # "none"
                 /\ call'[n].kind = "resolve" => \E a \in Approvals : call'[n].about = {a}
    PROVE  CallInv'
  <1> SUFFICES ASSUME NEW n \in CallIds
               PROVE  /\ n > calls' \/ call'[n].kind = "none" => call'[n].stage = "unused"
                      /\ call'[n].about \subseteq asked'
                      /\ call'[n].kind = "resolve" /\ call'[n].stage = "sent" => \E a \in Approvals : call'[n].about = {a}
    BY DEF CallInv
  <1>1. /\ n > calls \/ call[n].kind = "none" => call[n].stage = "unused"
        /\ call[n].about \subseteq asked
        /\ call[n].kind = "resolve" /\ call[n].stage = "sent" => \E a \in Approvals : call[n].about = {a}
    BY DEF CallInv
  <1>2. calls \in Nat /\ n \in Nat
    BY CallBounds DEF GatewayShapes, GatewayTypeOK, CallIds
  <1> QED BY <1>1, <1>2 DEF Waiting

LEMMA QuietSettling ==
    ASSUME \A n \in CallIds : call'[n].stage = "settling" => ~call'[n].ok
    PROVE  SettlingInv'
  BY DEF SettlingInv, Settling

LEMMA Sends ==
    ASSUME GatewayShapes, NEW kind \in Kinds \ {"none"}, NEW about \in SUBSET asked, NEW who \in 0 .. MaxClients,
           NEW open \in BOOLEAN, Request(kind, about, who, open),
           kind = "resolve" => \E a \in Approvals : about = {a}
    PROVE  /\ calls' = calls + 1 /\ calls' \in CallIds /\ call' \in [CallIds -> Requests]
           /\ \A n \in CallIds : n # calls' => call'[n] = call[n]
           /\ call'[calls'].kind = kind /\ call'[calls'].about = about /\ ~call'[calls'].ok
  <1> DEFINE r == [kind |-> kind, about |-> about, client |-> who, ok |-> FALSE,
                   stage |-> IF open THEN "sent" ELSE "settling"]
  <1>1. calls < MaxCalls /\ calls' = calls + 1 /\ call' = [call EXCEPT ![calls'] = r]
    BY DEF Request
  <1>2. r \in Requests /\ r.kind = kind /\ r.about = about /\ ~r.ok
    BY DEF Requests, Stages, GatewayShapes, GatewayTypeOK
  <1> HIDE DEF r
  <1>3. PICK m \in Nat : m = MaxCalls
    BY GatewayAssumption
  <1>4. calls' \in CallIds
    <2>1. PICK c \in 0 .. m : c = calls
      BY <1>3 DEF GatewayShapes, GatewayTypeOK
    <2> QED BY <1>1, <1>3, <2>1 DEF CallIds
  <1>5. call \in [CallIds -> Requests]
    BY DEF GatewayShapes, GatewayTypeOK, Requests
  <1>6. \A n \in CallIds : call'[n] = IF n = calls' THEN r ELSE call[n]
    BY <1>1, <1>4, <1>5
  <1>7. call' \in [CallIds -> Requests]
    BY <1>1, <1>2, <1>4, <1>5
  <1> QED BY <1>1, <1>2, <1>4, <1>6, <1>7

LEMMA GwConfirm == ASSUME GatewayInv, ConfirmTool \/ Compact PROVE GatewayInv'
  <1> USE DEF GatewayInv
  <1>1. /\ Quiescent /\ UNCHANGED <<run, sub, shown, synced, overtaken, live, client, connected, wire, gateway, asked>>
    BY DEF ConfirmTool, Compact, router, socket, agent
  <1>2. PICK kind \in {"resolve", "compact"}, about \in SUBSET asked :
           /\ Request(kind, about, client, connected)
           /\ kind = "resolve" => \E a \in Approvals : about = {a}
    <2>1. CASE ConfirmTool
      <3>1. PICK a \in asked : Request("resolve", {a}, client, connected)
        BY <2>1 DEF ConfirmTool
      <3> QED BY <3>1 DEF GatewayShapes, GatewayTypeOK
    <2>2. CASE Compact
      BY <2>2 DEF Compact
    <2> QED BY <2>1, <2>2
  <1>3. client \in 0 .. MaxClients /\ connected \in BOOLEAN
    BY DEF GatewayShapes, GatewayTypeOK
  <1>4. /\ calls' = calls + 1 /\ calls' \in CallIds /\ call' \in [CallIds -> Requests]
        /\ \A n \in CallIds : n # calls' => call'[n] = call[n]
        /\ call'[calls'].kind = kind /\ call'[calls'].about = about /\ ~call'[calls'].ok
    BY <1>2, <1>3, Sends DEF Kinds
  <1>5. CallInv'
    BY <1>1, <1>2, <1>4, QuietCalls
  <1>6. SettlingInv'
    BY <1>1, <1>4, QuietSettling DEF Quiescent, Settling
  <1>7. WireTrue(wire, gateway)'
    <2>1. calls \in Nat /\ \A n \in 1 .. calls : n \in CallIds /\ n # calls'
      BY <1>4, CallBounds DEF GatewayShapes, GatewayTypeOK
    <2>2. PICK w, g : w = wire /\ g = gateway
      OBVIOUS
    <2> QED BY <1>1, <1>4, <2>1, <2>2, WireKeeps
  <1>8. GatewayShapes'
    BY <1>1, <1>4 DEF GatewayShapes, GatewayTypeOK, CallIds, Requests
  <1>9. ShownInv'
    BY <1>1 DEF ShownInv
  <1> QED BY <1>5, <1>6, <1>7, <1>8, <1>9

LEMMA GwStartRun == ASSUME GatewayInv, StartRun PROVE GatewayInv'
  <1> USE DEF GatewayInv
  <1>1. /\ Quiescent /\ run' = "prepare" /\ synced' = FALSE
        /\ UNCHANGED <<shown, overtaken, wire, gateway, asked>>
    BY DEF StartRun
  <1>2. PICK who \in 0 .. MaxClients :
           /\ client' = who /\ connected' = TRUE /\ live' = TRUE /\ sub' = who
           /\ Request("list", {}, who, TRUE)
    <2>1. connected \/ client < MaxClients
      BY DEF StartRun
    <2>2. PICK m \in Nat : m = MaxClients
      BY GatewayAssumption
    <2>3. PICK c \in 0 .. m : c = client
      BY <2>2 DEF GatewayShapes, GatewayTypeOK
    <2>4. (IF connected THEN client ELSE client + 1) \in 0 .. MaxClients
      BY <2>1, <2>2, <2>3
    <2> QED BY <2>4 DEF StartRun, Subscribe
  <1>3. /\ calls' = calls + 1 /\ calls' \in CallIds /\ call' \in [CallIds -> Requests]
        /\ \A n \in CallIds : n # calls' => call'[n] = call[n]
        /\ call'[calls'].kind = "list" /\ call'[calls'].about = {} /\ ~call'[calls'].ok
    BY <1>2, Sends DEF Kinds
  <1>4. CallInv'
    BY <1>1, <1>3, QuietCalls
  <1>5. SettlingInv'
    BY <1>1, <1>3, QuietSettling DEF Quiescent, Settling
  <1>6. WireTrue(wire, gateway)'
    <2>1. calls \in Nat /\ \A n \in 1 .. calls : n \in CallIds /\ n # calls'
      BY <1>3, CallBounds DEF GatewayShapes, GatewayTypeOK
    <2>2. PICK w, g : w = wire /\ g = gateway
      OBVIOUS
    <2> QED BY <1>1, <1>3, <2>1, <2>2, WireKeeps
  <1>7. GatewayShapes'
    <2>1. who \in 0 .. who /\ calls' \in 0 .. MaxCalls
      BY <1>3, GatewayAssumption DEF CallIds
    <2>2. GatewayTypeOK'
      BY <1>1, <1>2, <1>3, <2>1 DEF GatewayShapes, GatewayTypeOK, Requests
    <2> QED BY <1>1, <1>2, <2>2 DEF GatewayShapes
  <1>8. ShownInv'
    BY <1>1 DEF ShownInv
  <1> QED BY <1>4, <1>5, <1>6, <1>7, <1>8

(* The gateway acts: frames arrive, while no reply is being handed over.    *)
LEMMA GwArrives ==
    ASSUME GatewayInv, Quiescent, NEW v \in Seq(Frames), NEW now \in SUBSET Approvals, WireTrue(v, now),
           wire' = v, gateway' = now, connected \/ v = <<>>, ~live => now = {},
           asked \subseteq asked', asked' \subseteq Approvals, now \subseteq asked',
           \A i \in 1 .. Len(v) : v[i].about \subseteq asked',
           connected => /\ GoneDue(wire, shown, gateway, 1) => GoneDue(v, shown, now, 1)
                        /\ CameDue(wire, shown, gateway, 1) => CameDue(v, shown, now, 1),
           UNCHANGED <<run, sub, shown, synced, overtaken, live, client, connected, calls>>,
           call' \in [CallIds -> Requests],
           \A n \in CallIds : \/ call'[n] = call[n]
                              \/ /\ Waiting(n) /\ call'[n].kind = call[n].kind
                                 /\ call'[n].about = call[n].about /\ call'[n].stage = "answered"
    PROVE  GatewayInv'
  <1> USE DEF GatewayInv
  <1>1. CallInv'
    BY QuietCalls
  <1>2. SettlingInv'
    BY QuietSettling DEF Quiescent, Settling
  <1>3. WireTrue(wire, gateway)'
    <2>1. calls \in Nat /\ \A n \in 1 .. calls : call'[n].kind = call[n].kind
      BY CallBounds DEF GatewayShapes, GatewayTypeOK
    <2> QED BY <2>1, WireKeeps
  <1>4. GatewayShapes'
    BY DEF GatewayShapes, GatewayTypeOK, Requests
  <1>5. ShownInv'
    BY DEF ShownInv
  <1> QED BY <1>1, <1>2, <1>3, <1>4, <1>5

(* Nobody is connected: nothing arrives.                                    *)
LEMMA EmptyWire == ASSUME NEW waiting PROVE <<>> \in Seq(Frames) /\ WireTrue(<<>>, waiting) /\ Len(<<>>) = 0
  BY DEF WireTrue

LEMMA GwAsks == ASSUME GatewayInv, AgentAsks PROVE GatewayInv'
  <1> USE DEF GatewayInv
  <1>1. PICK a \in Approvals \ asked :
           /\ asked' = asked \cup {a} /\ gateway' = gateway \cup {a}
           /\ wire' = IF connected
                      THEN Append(wire, [type |-> "requested", about |-> {a}, of |-> 0, ok |-> TRUE])
                      ELSE wire
    BY DEF AgentAsks
  <1>2. Quiescent /\ live /\ UNCHANGED <<run, sub, shown, synced, overtaken, live, client, connected, call, calls>>
    BY DEF AgentAsks, router
  <1>3. PICK f : f = [type |-> "requested", about |-> {a}, of |-> 0, ok |-> TRUE]
    OBVIOUS
  <1>4. f \in Frames /\ f.type = "requested" /\ f.about = {a}
    BY <1>3, GatewayAssumption DEF Frames
  <1>5. PICK w \in Seq(Frames), g \in SUBSET asked : w = wire /\ g = gateway
    BY DEF GatewayShapes, GatewayTypeOK
  <1>6. Tells(f, g, g \cup {a}) /\ a \notin g
    BY <1>4, <1>5 DEF Tells
  <1>7. /\ \A i \in 1 .. Len(w) : w[i].about \subseteq asked /\ w[i].about \cap ((g \cup {a}) \ g) = {}
        /\ call' \in [CallIds -> Requests] /\ asked \subseteq Approvals
    BY <1>2, <1>5 DEF GatewayShapes, GatewayTypeOK, Requests
  <1>8. CASE connected
    <2>1. Append(w, f) \in Seq(Frames) /\ WireTrue(Append(w, f), g \cup {a})
      BY <1>4, <1>5, <1>6, <1>7, WireArrives
    <2>2. /\ GoneDue(w, shown, g, 1) => GoneDue(Append(w, f), shown, g \cup {a}, 1)
          /\ CameDue(w, shown, g, 1) => CameDue(Append(w, f), shown, g \cup {a}, 1)
      BY <1>4, <1>5, <1>6, DueArrives
    <2>3. \A i \in 1 .. Len(Append(w, f)) : Append(w, f)[i].about \subseteq asked'
      BY <1>1, <1>4, <1>7
    <2>4. wire' = Append(w, f) /\ gateway' = g \cup {a}
      BY <1>1, <1>3, <1>5, <1>8
    <2>5. PICK v \in Seq(Frames), now \in SUBSET Approvals : v = Append(w, f) /\ now = g \cup {a}
      BY <1>5, <1>7, <2>1
    <2> QED BY <1>1, <1>2, <1>5, <1>7, <1>8, <2>1, <2>2, <2>3, <2>4, <2>5, GwArrives
  <1>9. CASE ~connected
    <2>1. wire' = <<>> /\ wire = <<>>
      BY <1>1, <1>9 DEF GatewayShapes
    <2>2. PICK now \in SUBSET Approvals : now = g \cup {a}
      BY <1>5, <1>7
    <2> QED BY <1>1, <1>2, <1>5, <1>7, <1>9, <2>1, <2>2, EmptyWire, GwArrives
  <1> QED BY <1>8, <1>9

LEMMA GwExpires == ASSUME GatewayInv, ApprovalExpires PROVE GatewayInv'
  <1> USE DEF GatewayInv
  <1>1. PICK a \in gateway :
           /\ gateway' = gateway \ {a}
           /\ wire' = IF connected THEN Append(wire, Resolved(a)) ELSE wire
    BY DEF ApprovalExpires
  <1>2. Quiescent /\ UNCHANGED <<run, sub, shown, synced, overtaken, live, client, connected, asked, call, calls>>
    BY DEF ApprovalExpires, router
  <1>3. a \in asked /\ asked \subseteq Approvals
    BY DEF GatewayShapes, GatewayTypeOK
  <1>4. PICK f : f = Resolved(a)
    OBVIOUS
  <1>5. f \in Frames /\ f.type = "resolved" /\ f.about = {a}
    BY <1>3, <1>4, GatewayAssumption DEF Frames, Resolved
  <1>6. PICK w \in Seq(Frames), g \in SUBSET asked : w = wire /\ g = gateway
    BY DEF GatewayShapes, GatewayTypeOK
  <1>7. Tells(f, g, g \ {a})
    BY <1>5, <1>6 DEF Tells
  <1>8. /\ \A i \in 1 .. Len(w) : w[i].about \subseteq asked /\ w[i].about \cap ((g \ {a}) \ g) = {}
        /\ call' \in [CallIds -> Requests] /\ (~live => g \ {a} = {})
    BY <1>2, <1>6 DEF GatewayShapes, GatewayTypeOK, Requests
  <1>9. CASE connected
    <2>1. Append(w, f) \in Seq(Frames) /\ WireTrue(Append(w, f), g \ {a})
      BY <1>5, <1>6, <1>7, <1>8, WireArrives
    <2>2. /\ GoneDue(w, shown, g, 1) => GoneDue(Append(w, f), shown, g \ {a}, 1)
          /\ CameDue(w, shown, g, 1) => CameDue(Append(w, f), shown, g \ {a}, 1)
      BY <1>5, <1>6, <1>7, DueArrives
    <2>3. \A i \in 1 .. Len(Append(w, f)) : Append(w, f)[i].about \subseteq asked'
      BY <1>2, <1>3, <1>5, <1>8
    <2>4. wire' = Append(w, f) /\ gateway' = g \ {a}
      BY <1>1, <1>4, <1>6, <1>9
    <2>5. PICK v \in Seq(Frames), now \in SUBSET Approvals : v = Append(w, f) /\ now = g \ {a}
      BY <1>3, <1>6, <2>1
    <2> QED BY <1>2, <1>3, <1>6, <1>8, <1>9, <2>1, <2>2, <2>3, <2>4, <2>5, GwArrives
  <1>10. CASE ~connected
    <2>1. wire' = <<>> /\ wire = <<>>
      BY <1>1, <1>10 DEF GatewayShapes
    <2>2. PICK now \in SUBSET Approvals : now = g \ {a}
      BY <1>3, <1>6
    <2> QED BY <1>1, <1>2, <1>3, <1>6, <1>8, <1>10, <2>1, <2>2, EmptyWire, GwArrives
  <1> QED BY <1>9, <1>10

LEMMA CallStage ==
    ASSUME GatewayShapes, NEW n \in CallIds, NEW stage \in Stages, call' = [call EXCEPT ![n].stage = stage]
    PROVE  /\ call' \in [CallIds -> Requests]
           /\ \A m \in CallIds : m # n => call'[m] = call[m]
           /\ call'[n].kind = call[n].kind /\ call'[n].about = call[n].about /\ call'[n].stage = stage
           /\ call'[n].ok = call[n].ok
  <1>1. PICK r \in Requests : r = call[n]
    BY DEF GatewayShapes, GatewayTypeOK, Requests
  <1> DEFINE q == [r EXCEPT !.stage = stage]
  <1>2. q \in Requests /\ q.kind = r.kind /\ q.about = r.about /\ q.stage = stage /\ q.ok = r.ok
    BY DEF Requests
  <1>3. call' = [call EXCEPT ![n] = q] /\ call \in [CallIds -> Requests]
    BY <1>1 DEF GatewayShapes, GatewayTypeOK, Requests
  <1> HIDE DEF q
  <1> QED BY <1>1, <1>2, <1>3

(* A reply is as true as the gateway's approvals when it is sent; the event *)
(* of an approval that is resolved goes before the reply.                   *)
LEMMA GwAnswers == ASSUME GatewayInv, GatewayAnswers PROVE GatewayInv'
  <1> USE DEF GatewayInv
  <1> DEFINE reply(n, ok, what) == [type |-> "reply", about |-> what, of |-> n, ok |-> ok]
  <1>1. Quiescent /\ connected /\ UNCHANGED <<run, sub, shown, synced, overtaken, live, client, connected, asked, calls>>
    BY DEF GatewayAnswers, router
  <1>2. PICK n \in CallIds :
          /\ call[n].stage = "sent" /\ call' = [call EXCEPT ![n].stage = "answered"]
          /\ CASE call[n].kind = "list" ->
                    wire' = Append(wire, reply(n, TRUE, gateway)) /\ gateway' = gateway
               [] call[n].kind = "compact" ->
                    /\ \E ok \in BOOLEAN : wire' = Append(wire, reply(n, ok, {}))
                    /\ gateway' = gateway
               [] call[n].kind = "resolve" ->
                    /\ gateway' = gateway \ call[n].about
                    /\ wire' = IF call[n].about \subseteq gateway
                               THEN wire \o <<Resolved(CHOOSE a \in call[n].about : TRUE),
                                              reply(n, TRUE, call[n].about)>>
                               ELSE Append(wire, reply(n, FALSE, call[n].about))
    BY DEF GatewayAnswers
  <1>3. /\ call' \in [CallIds -> Requests]
        /\ \A m \in CallIds : \/ call'[m] = call[m]
                              \/ /\ Waiting(m) /\ call'[m].kind = call[m].kind
                                 /\ call'[m].about = call[m].about /\ call'[m].stage = "answered"
    BY <1>2, CallStage DEF Stages, Waiting
  <1>4. n \in 1 .. calls /\ n \in 0 .. MaxCalls
    BY <1>2 DEF CallInv, CallIds, GatewayShapes, GatewayTypeOK
  <1>5. PICK w \in Seq(Frames), g \in SUBSET asked, c \in SUBSET asked :
          w = wire /\ g = gateway /\ c = call[n].about
    BY DEF GatewayShapes, GatewayTypeOK, CallInv
  <1>6. /\ \A i \in 1 .. Len(w) : w[i].about \subseteq asked
        /\ asked \subseteq Approvals /\ live
    BY <1>1, <1>5 DEF GatewayShapes, GatewayTypeOK
  (* One reply, and nothing that waits has changed.                         *)
  <1>7. ASSUME NEW ok \in BOOLEAN, NEW what \in SUBSET asked,
               ok /\ call[n].kind = "list" => what = g,
               ok => call[n].kind # "resolve",
               wire' = Append(w, reply(n, ok, what)), gateway' = g
        PROVE  GatewayInv'
    <2>1. PICK f : f = reply(n, ok, what)
      OBVIOUS
    <2>2. f \in Frames /\ f.type = "reply" /\ f.about = what /\ f.of = n /\ f.ok = ok
      BY <1>4, <1>6, <2>1 DEF Frames
    <2>3. Tells(f, g, g) /\ \A i \in 1 .. Len(w) : w[i].about \cap (g \ g) = {}
      BY DEF Tells
    <2>4. Append(w, f) \in Seq(Frames) /\ WireTrue(Append(w, f), g)
      BY <1>4, <1>5, <1>7, <2>2, <2>3, WireArrives
    <2>5. /\ GoneDue(w, shown, g, 1) => GoneDue(Append(w, f), shown, g, 1)
          /\ CameDue(w, shown, g, 1) => CameDue(Append(w, f), shown, g, 1)
      BY <1>5, <2>2, <2>3, DueArrives
    <2>6. \A i \in 1 .. Len(Append(w, f)) : Append(w, f)[i].about \subseteq asked'
      BY <1>1, <1>6, <2>2
    <2>7. PICK v \in Seq(Frames), now \in SUBSET Approvals : v = Append(w, f) /\ now = g
      BY <1>6, <2>4
    <2>8. wire' = v
      BY <1>7, <2>1, <2>7
    <2> QED BY <1>1, <1>3, <1>5, <1>6, <1>7, <2>4, <2>5, <2>6, <2>7, <2>8, GwArrives
  <1>8. CASE call[n].kind = "list"
    BY <1>2, <1>5, <1>7, <1>8
  <1>9. CASE call[n].kind = "compact"
    <2>1. PICK ok \in BOOLEAN : wire' = Append(wire, reply(n, ok, {}))
      BY <1>2, <1>9
    <2>2. gateway' = g /\ wire' = Append(w, reply(n, ok, {}))
      BY <1>2, <1>5, <1>9, <2>1
    <2>3. call[n].kind # "list" /\ call[n].kind # "resolve" /\ {} \in SUBSET asked
      BY <1>9
    <2> HIDE DEF reply
    <2> QED BY <1>7, <2>2, <2>3
  <1>10. CASE call[n].kind = "resolve"
    <2>1. PICK a \in Approvals : c = {a}
      BY <1>2, <1>5, <1>10 DEF CallInv
    <2>2. /\ gateway' = g \ {a}
          /\ wire' = IF {a} \subseteq g
                     THEN w \o <<Resolved(CHOOSE b \in {a} : TRUE), reply(n, TRUE, {a})>>
                     ELSE Append(w, reply(n, FALSE, {a}))
      BY <1>2, <1>5, <1>10, <2>1
    <2>3. CASE a \notin g
      <3>1. gateway' = g /\ wire' = Append(w, reply(n, FALSE, {a}))
        BY <2>2, <2>3
      <3> QED BY <1>5, <1>7, <1>10, <2>1, <3>1
    <2>4. CASE a \in g
      <3>1. PICK e, f : e = Resolved(a) /\ f = reply(n, TRUE, {a})
        OBVIOUS
      <3>2. /\ e \in Frames /\ e.type = "resolved" /\ e.about = {a}
            /\ f \in Frames /\ f.type = "reply" /\ f.about = {a} /\ f.of = n
        BY <1>4, <2>1, <3>1, GatewayAssumption DEF Frames, Resolved
      <3>3. PICK h \in SUBSET asked : h = g \ {a}
        BY <1>5
      <3>4. (CHOOSE b \in {a} : TRUE) = a
        OBVIOUS
      <3>5. wire' = w \o <<e, f>>
        BY <2>2, <2>4, <3>1, <3>4
      <3>6. w \o <<e, f>> = Append(Append(w, e), f)
        BY <3>2
      <3>7. Tells(e, g, h) /\ Tells(f, h, h) /\ (h \ g) = {} /\ (h \ h) = {}
        BY <3>2, <3>3 DEF Tells
      <3>8. Append(w, e) \in Seq(Frames) /\ WireTrue(Append(w, e), h)
        BY <1>5, <3>2, <3>3, <3>7, WireArrives
      <3>9. PICK u \in Seq(Frames) : u = Append(w, e)
        BY <3>8
      <3>10. Append(u, f) \in Seq(Frames) /\ WireTrue(Append(u, f), h)
        BY <1>4, <1>10, <3>2, <3>3, <3>7, <3>8, <3>9, WireArrives
      <3>11. /\ GoneDue(w, shown, g, 1) => GoneDue(u, shown, h, 1)
             /\ CameDue(w, shown, g, 1) => CameDue(u, shown, h, 1)
        BY <1>5, <3>2, <3>7, <3>9, DueArrives
      <3>12. /\ GoneDue(u, shown, h, 1) => GoneDue(Append(u, f), shown, h, 1)
             /\ CameDue(u, shown, h, 1) => CameDue(Append(u, f), shown, h, 1)
        BY <3>2, <3>7, DueArrives
      <3>13. \A i \in 1 .. Len(u) : u[i].about \subseteq asked
        BY <1>5, <1>6, <2>1, <2>4, <3>2, <3>9
      <3>14. \A i \in 1 .. Len(Append(u, f)) : Append(u, f)[i].about \subseteq asked'
        BY <1>1, <1>5, <2>1, <3>2, <3>13
      <3>15. PICK v \in Seq(Frames), now \in SUBSET Approvals : v = Append(u, f) /\ now = h
        BY <1>6, <3>10
      <3>16. wire' = v /\ gateway' = now
        BY <2>2, <3>3, <3>5, <3>6, <3>9, <3>15
      <3> QED BY <1>1, <1>3, <1>5, <1>6, <3>10, <3>11, <3>12, <3>14, <3>15, <3>16, GwArrives
    <2> QED BY <2>3, <2>4
  <1>11. call[n].kind \in {"list", "compact", "resolve"}
    BY <1>2 DEF CallInv, GatewayShapes, GatewayTypeOK, Kinds
  <1> QED BY <1>8, <1>9, <1>10, <1>11

(* What is handled by a step of the client settles as the wire has it.      *)
LEMMA GwHandles == ASSUME GatewayInv, HandleMessage PROVE GatewayInv'
  <1> USE DEF GatewayInv
  <1>1. /\ connected /\ wire # <<>> /\ wire' = Tail(wire)
        /\ UNCHANGED <<run, sub, synced, live, client, connected, gateway, asked, calls>>
    BY DEF HandleMessage, agent
  <1>2. PICK w \in Seq(Frames), g \in SUBSET asked : w = wire /\ g = gateway
    BY DEF GatewayShapes, GatewayTypeOK
  <1>3. PICK f, v : f = Head(w) /\ v = Tail(w)
    OBVIOUS
  <1>4. /\ v \in Seq(Frames) /\ WireTrue(v, g) /\ f \in Frames /\ FrameTrue(w, g, 1) /\ f = w[1]
        /\ \A i \in 1 .. Len(v) : i + 1 \in 1 .. Len(w) /\ v[i] = w[i + 1]
        /\ \A list : \A k \in Nat \ {0} :
              /\ GoneDue(w, list, g, k + 1) => GoneDue(v, list, g, k)
              /\ CameDue(w, list, g, k + 1) => CameDue(v, list, g, k)
    BY <1>1, <1>2, <1>3, WireHandled
  <1>5. \A type, a : Due(w, type, a, 1) => Due(v, type, a, 1) \/ (f.type = type /\ a \in f.about)
    BY <1>1, <1>2, <1>3, DueTail
  <1>6. Len(w) \in Nat /\ Len(w) # 0 /\ 1 \in 1 .. Len(w)
    BY <1>1, <1>2
  <1>12. \A list : /\ GoneDue(w, list, g, 2) => GoneDue(v, list, g, 1)
                   /\ CameDue(w, list, g, 2) => CameDue(v, list, g, 1)
    <2>1. PICK k \in Nat \ {0} : k = 1
      OBVIOUS
    <2>2. k + 1 = 2
      BY <2>1
    <2>3. \A list : /\ GoneDue(w, list, g, k + 1) => GoneDue(v, list, g, k)
                    /\ CameDue(w, list, g, k + 1) => CameDue(v, list, g, k)
      BY <1>4
    <2> QED BY <2>1, <2>2, <2>3
  <1>13. FrameTrue(w, g, 1) /\ w[1] = f /\ 1 + 1 = 2
    BY <1>4
  <1>7. f.about \subseteq asked /\ asked \subseteq Approvals /\ sub = client
    BY <1>1, <1>2, <1>4, <1>6 DEF GatewayShapes, GatewayTypeOK
  <1>8. \A i \in 1 .. Len(v) : v[i].about \subseteq asked'
    BY <1>1, <1>2, <1>4 DEF GatewayShapes
  <1>9. ASSUME call' \in [CallIds -> Requests], \A m \in 1 .. calls : call'[m].kind = call[m].kind
        PROVE  WireTrue(wire, gateway)'
    <2>1. calls \in Nat
      BY CallBounds DEF GatewayShapes, GatewayTypeOK
    <2> QED BY <1>1, <1>2, <1>3, <1>4, <1>9, <2>1, WireKeeps
  <1>10. ASSUME f.type = "reply", Settle(f.of, f), UNCHANGED <<shown, overtaken>> PROVE GatewayInv'
    <2>1. PICK n : n = f.of
      OBVIOUS
    <2>2. /\ n \in 1 .. calls /\ n \in CallIds
          /\ f.ok /\ call[n].kind = "list" => GoneDue(w, f.about, g, 2) /\ CameDue(w, f.about, g, 2)
          /\ f.ok /\ call[n].kind = "resolve" => f.about \cap g = {}
      BY <1>10, <1>13, <2>1, CallBounds DEF FrameTrue, GatewayShapes, GatewayTypeOK
    <2>3. f.ok /\ call[n].kind = "list" => GoneDue(v, f.about, g, 1) /\ CameDue(v, f.about, g, 1)
      BY <1>12, <2>2
    <2>4. /\ call' \in [CallIds -> Requests]
          /\ \A m \in CallIds : m # n => call'[m] = call[m]
          /\ call'[n].kind = call[n].kind /\ call'[n].client = call[n].client
          /\ call'[n] = call[n] \/ (/\ Waiting(n) /\ call'[n].stage = "settling"
                                    /\ call'[n].ok = f.ok /\ call'[n].about = f.about)
      <3>1. PICK r \in Requests : r = call[n]
        BY <2>2 DEF GatewayShapes, GatewayTypeOK, Requests
      <3>2. PICK ok \in BOOLEAN, about \in SUBSET Approvals : ok = f.ok /\ about = f.about
        BY <1>4 DEF Frames
      <3> DEFINE q == [r EXCEPT !.stage = "settling", !.ok = ok, !.about = about]
      <3>3. q \in Requests /\ q.kind = r.kind /\ q.client = r.client /\ q.stage = "settling" /\ q.ok = ok /\ q.about = about
        BY DEF Requests, Stages
      <3>4. call \in [CallIds -> Requests]
        BY DEF GatewayShapes, GatewayTypeOK, Requests
      <3>5. call' = IF Waiting(n) THEN [call EXCEPT ![n] = q] ELSE call
        BY <1>10, <2>1, <2>2, <3>1, <3>2, <3>4 DEF Settle
      <3> HIDE DEF q
      <3> QED BY <2>2, <3>1, <3>2, <3>3, <3>4, <3>5
    <2>5. CallInv'
      <3> SUFFICES ASSUME NEW m \in CallIds
                   PROVE  /\ m > calls' \/ call'[m].kind = "none" => call'[m].stage = "unused"
                          /\ call'[m].about \subseteq asked'
                          /\ call'[m].kind = "resolve" /\ call'[m].stage = "sent"
                                => \E a \in Approvals : call'[m].about = {a}
        BY DEF CallInv
      <3>1. /\ m > calls \/ call[m].kind = "none" => call[m].stage = "unused"
            /\ call[m].about \subseteq asked
            /\ call[m].kind = "resolve" /\ call[m].stage = "sent" => \E a \in Approvals : call[m].about = {a}
        BY DEF CallInv
      <3> QED BY <1>1, <1>7, <2>4, <3>1 DEF Waiting
    <2>6. \A list : /\ GoneDue(w, list, g, 1) => GoneDue(v, list, g, 1)
                    /\ CameDue(w, list, g, 1) => CameDue(v, list, g, 1)
      BY <1>5, <1>10 DEF GoneDue, CameDue
    <2>7. SettlingInv'
      <3> SUFFICES ASSUME NEW m \in CallIds, call'[m].stage = "settling", call'[m].ok
                   PROVE  /\ call'[m].kind = "resolve" => call'[m].about \cap g = {}
                          /\ call'[m].kind = "list" /\ connected' /\ call'[m].client = client' /\ ~(overtaken')
                                => GoneDue(v, call'[m].about, g, 1) /\ CameDue(v, call'[m].about, g, 1)
        BY <1>1, <1>2, <1>3 DEF SettlingInv, Settling
      <3>1. CASE call'[m] = call[m]
        <4>1. /\ call[m].kind = "resolve" => call[m].about \cap g = {}
              /\ call[m].kind = "list" /\ connected /\ call[m].client = client /\ ~overtaken
                    => GoneDue(w, call[m].about, g, 1) /\ CameDue(w, call[m].about, g, 1)
          BY <1>2, <3>1 DEF SettlingInv, Settling
        <4> QED BY <1>1, <1>10, <2>6, <3>1, <4>1
      <3>2. CASE call'[m] # call[m]
        BY <2>2, <2>3, <2>4, <3>2
      <3> QED BY <3>1, <3>2
    <2>8. WireTrue(wire, gateway)'
      <3>1. \A m \in 1 .. calls : call'[m].kind = call[m].kind
        BY <2>4, CallBounds DEF GatewayShapes, GatewayTypeOK
      <3> QED BY <1>9, <2>4, <3>1
    <2>9. ShownInv'
      BY <1>1, <1>2, <1>3, <1>10, <2>6 DEF ShownInv
    <2>10. GatewayShapes'
      BY <1>1, <1>3, <1>2, <1>4, <1>8, <1>10, <2>4 DEF GatewayShapes, GatewayTypeOK, Requests
    <2> QED BY <2>5, <2>7, <2>8, <2>9, <2>10
  <1>11. ASSUME f.type # "reply", OnApproval(f), overtaken' = ListSettling, call' = call PROVE GatewayInv'
    <2>1. shown' = IF f.type = "requested" THEN shown \cup f.about ELSE shown \ f.about
      BY <1>7, <1>11 DEF OnApproval
    <2>2. f.type \in {"requested", "resolved"}
      BY <1>4, <1>11 DEF Frames
    <2>3. CallInv'
      BY <1>1, <1>11 DEF CallInv
    <2>4. SettlingInv'
      BY <1>1, <1>11 DEF SettlingInv, Settling, ListSettling
    <2>5. WireTrue(wire, gateway)'
      BY <1>9, <1>11 DEF GatewayShapes, GatewayTypeOK, Requests
    <2>6. GatewayShapes'
      <3>1. shown' \subseteq asked' /\ overtaken' \in BOOLEAN
        BY <1>1, <1>7, <1>11, <2>1 DEF GatewayShapes, GatewayTypeOK, ListSettling
      <3> QED BY <1>1, <1>2, <1>3, <1>4, <1>8, <1>11, <3>1 DEF GatewayShapes, GatewayTypeOK, Requests
    <2>7. ShownInv'
      <3> SUFFICES ASSUME connected, synced
                   PROVE  /\ GoneDue(v, shown', g, 1)
                          /\ run = "turn" => CameDue(v, shown', g, 1)
        BY <1>1, <1>2, <1>3 DEF ShownInv
      <3>1. /\ GoneDue(w, shown, g, 1)
            /\ run = "turn" => CameDue(w, shown, g, 1)
        BY <1>2 DEF ShownInv
      <3>2. CASE f.type = "requested"
        <4>1. GoneDue(v, f.about, g, 1)
          BY <1>12, <1>13, <3>2 DEF FrameTrue
        <4> QED BY <1>5, <2>1, <3>1, <3>2, <4>1 DEF GoneDue, CameDue
      <3>3. CASE f.type = "resolved"
        <4>1. f.about \cap g = {}
          BY <1>4, <3>3 DEF FrameTrue
        <4> QED BY <1>5, <2>1, <3>1, <3>3, <4>1 DEF GoneDue, CameDue
      <3> QED BY <2>2, <3>2, <3>3
    <2> QED BY <2>3, <2>4, <2>5, <2>6, <2>7
  <1> QED BY <1>2, <1>3, <1>10, <1>11 DEF HandleMessage

(* What is given up settles as a failure.                                   *)
LEMMA Rejects ==
    ASSUME GatewayShapes, CallInv, calls' = calls, NEW given \in SUBSET CallIds, \A n \in given : Waiting(n),
           call' = [n \in CallIds |->
                      IF n \in given THEN [call[n] EXCEPT !.stage = "settling", !.ok = FALSE] ELSE call[n]]
    PROVE  /\ call' \in [CallIds -> Requests]
           /\ \A n \in CallIds : \/ call'[n] = call[n]
                                 \/ /\ Waiting(n) /\ call'[n].kind = call[n].kind
                                    /\ call'[n].about = call[n].about /\ call'[n].stage = "settling"
                                    /\ ~call'[n].ok
  <1>1. ASSUME NEW n \in CallIds
        PROVE  /\ call'[n] \in Requests
               /\ \/ call'[n] = call[n]
                  \/ /\ Waiting(n) /\ call'[n].kind = call[n].kind
                     /\ call'[n].about = call[n].about /\ call'[n].stage = "settling"
                     /\ ~call'[n].ok
    <2>1. PICK r \in Requests : r = call[n]
      BY DEF GatewayShapes, GatewayTypeOK, Requests
    <2> DEFINE q == [r EXCEPT !.stage = "settling", !.ok = FALSE]
    <2>2. q \in Requests /\ q.kind = r.kind /\ q.about = r.about /\ q.stage = "settling" /\ ~q.ok
      BY DEF Requests, Stages
    <2>3. call'[n] = IF n \in given THEN q ELSE r
      BY <2>1
    <2> HIDE DEF q
    <2> QED BY <2>1, <2>2, <2>3
  <1>2. call' \in [CallIds -> Requests]
    BY <1>1
  <1> QED BY <1>1, <1>2

LEMMA GivesUp ==
    ASSUME GatewayInv, Quiescent, calls' = calls, asked' = asked, call' \in [CallIds -> Requests],
           \A n \in CallIds : \/ call'[n] = call[n]
                              \/ /\ Waiting(n) /\ call'[n].kind = call[n].kind
                                 /\ call'[n].about = call[n].about /\ call'[n].stage = "settling"
                                 /\ ~call'[n].ok
    PROVE  CallInv' /\ SettlingInv' /\ \A n \in 1 .. calls : call'[n].kind = call[n].kind
  <1> USE DEF GatewayInv
  <1>1. CallInv'
    BY QuietCalls
  <1>2. SettlingInv'
    BY QuietSettling DEF Quiescent, Settling
  <1>3. \A n \in 1 .. calls : call'[n].kind = call[n].kind
    BY CallBounds DEF GatewayShapes, GatewayTypeOK
  <1> QED BY <1>1, <1>2, <1>3

LEMMA RejectAllRejects ==
    ASSUME GatewayShapes, CallInv, calls' = calls, call' = RejectAll
    PROVE  /\ call' \in [CallIds -> Requests]
           /\ \A n \in CallIds : \/ call'[n] = call[n]
                                 \/ /\ Waiting(n) /\ call'[n].kind = call[n].kind
                                    /\ call'[n].about = call[n].about /\ call'[n].stage = "settling"
                                    /\ ~call'[n].ok
  <1>1. PICK given \in SUBSET CallIds : given = {n \in CallIds : Waiting(n)}
    OBVIOUS
  <1>2. call' = [n \in CallIds |->
                   IF n \in given THEN [call[n] EXCEPT !.stage = "settling", !.ok = FALSE] ELSE call[n]]
    BY <1>1 DEF RejectAll
  <1> QED BY <1>1, <1>2, Rejects

LEMMA GwTimesOut == ASSUME GatewayInv, RequestTimesOut PROVE GatewayInv'
  <1> USE DEF GatewayInv
  <1>1. PICK n \in CallIds : Waiting(n) /\ call' = [call EXCEPT ![n].stage = "settling", ![n].ok = FALSE]
    BY DEF RequestTimesOut
  <1>2. /\ Quiescent
        /\ UNCHANGED <<run, sub, shown, synced, overtaken, live, client, connected, wire, gateway, asked, calls>>
    BY DEF RequestTimesOut, router, socket, agent
  <1>3. call' = [m \in CallIds |->
                   IF m \in {n} THEN [call[m] EXCEPT !.stage = "settling", !.ok = FALSE] ELSE call[m]]
    BY <1>1 DEF GatewayShapes, GatewayTypeOK
  <1>4. /\ call' \in [CallIds -> Requests]
        /\ \A m \in CallIds : \/ call'[m] = call[m]
                              \/ /\ Waiting(m) /\ call'[m].kind = call[m].kind
                                 /\ call'[m].about = call[m].about /\ call'[m].stage = "settling"
                                 /\ ~call'[m].ok
    <2>1. PICK given \in SUBSET CallIds : given = {n}
      OBVIOUS
    <2> QED BY <1>1, <1>2, <1>3, <2>1, Rejects
  <1>5. CallInv' /\ SettlingInv' /\ \A m \in 1 .. calls : call'[m].kind = call[m].kind
    BY <1>2, <1>4, GivesUp
  <1>6. WireTrue(wire, gateway)'
    <2>1. PICK w, g : w = wire /\ g = gateway
      OBVIOUS
    <2> QED BY <1>2, <1>5, <2>1, CallBounds, WireKeeps DEF GatewayShapes, GatewayTypeOK
  <1>7. GatewayShapes'
    BY <1>2, <1>4 DEF GatewayShapes, GatewayTypeOK, Requests
  <1> QED BY <1>2, <1>5, <1>6, <1>7 DEF ShownInv

(* The connection goes, with everything on it.                              *)
LEMMA GwCuts ==
    ASSUME GatewayInv, Quiescent, connected' = FALSE, wire' = <<>>, call' = RejectAll,
           UNCHANGED <<client, calls, asked>>, live' \in BOOLEAN, gateway' \subseteq asked, shown' \subseteq asked,
           synced' \in BOOLEAN, overtaken' = overtaken, run' \in {"idle", "turn", "prepare"}, sub' \in 0 .. client,
           ~live' => gateway' = {} /\ run' = "idle"
    PROVE  GatewayInv'
  <1> USE DEF GatewayInv
  <1>1. /\ call' \in [CallIds -> Requests]
        /\ \A m \in CallIds : \/ call'[m] = call[m]
                              \/ /\ Waiting(m) /\ call'[m].kind = call[m].kind
                                 /\ call'[m].about = call[m].about /\ call'[m].stage = "settling"
                                 /\ ~call'[m].ok
    BY RejectAllRejects
  <1>2. CallInv' /\ SettlingInv'
    BY <1>1, GivesUp
  <1>3. WireTrue(wire, gateway)'
    BY DEF WireTrue
  <1>4. GatewayShapes'
    <2>1. GatewayTypeOK'
      BY <1>1 DEF GatewayShapes, GatewayTypeOK, Requests
    <2>2. wire' \in Seq(Frames) /\ \A i \in 1 .. Len(wire') : wire'[i].about \subseteq asked'
      BY EmptyWire
    <2> QED BY <2>1, <2>2 DEF GatewayShapes
  <1> QED BY <1>2, <1>3, <1>4 DEF ShownInv

LEMMA GwEnds ==
    ASSUME GatewayInv, ConnectionLost \/ FailRun \/ ReapIdle
    PROVE  GatewayInv'
  <1> USE DEF GatewayInv
  <1>1. CASE ConnectionLost
    BY <1>1, GwCuts DEF ConnectionLost, router, agent, GatewayShapes, GatewayTypeOK
  <1>2. CASE FailRun
    <2>1. 0 \in 0 .. client
      BY GatewayAssumption DEF GatewayShapes, GatewayTypeOK
    <2> QED BY <1>2, <2>1, GwCuts DEF FailRun, EvictRuntime, ClearApprovals, GatewayShapes, GatewayTypeOK
  <1>3. CASE ReapIdle
    BY <1>3, GwCuts DEF ReapIdle, EvictRuntime, router, GatewayShapes, GatewayTypeOK
  <1> QED BY <1>1, <1>2, <1>3

(* The run ends, and what is shown goes; or nothing happens.                *)
LEMMA GwClears ==
    ASSUME GatewayInv, EndRun \/ CancelRun \/ UNCHANGED gatewayVars
    PROVE  GatewayInv'
  <1> USE DEF GatewayInv
  <1>1. UNCHANGED <<sub, synced, overtaken, live, client, connected, wire, gateway, asked, call, calls>>
    BY DEF EndRun, CancelRun, gatewayVars, router, socket, agent
  <1>2. (run' = "idle" /\ shown' = {}) \/ (run' = run /\ shown' = shown)
    BY DEF EndRun, CancelRun, ClearApprovals, gatewayVars, router
  <1>3. WireTrue(wire, gateway)'
    <2>1. PICK w, g : w = wire /\ g = gateway
      OBVIOUS
    <2> QED BY <1>1, <2>1, CallBounds, WireKeeps DEF GatewayShapes, GatewayTypeOK
  <1>4. GatewayShapes' /\ CallInv'
    BY <1>1, <1>2 DEF GatewayShapes, GatewayTypeOK, CallInv
  <1>5. SettlingInv' /\ ShownInv'
    BY <1>1, <1>2 DEF SettlingInv, Settling, ShownInv, GoneDue
  <1> QED BY <1>3, <1>4, <1>5

(* The promise of a reply is awaited: the list is taken over, or nothing of *)
(* it that has been resolved since is left.                                 *)
LEMMA GwContinues == ASSUME GatewayInv, Continue PROVE GatewayInv'
  <1> USE DEF GatewayInv
  <1>1. PICK n \in CallIds :
          /\ Settling(n)
          /\ call' = [call EXCEPT ![n].stage = "settled", ![n].about = {}]
          /\ shown' = Apply(n)
          /\ run' = IF run = "prepare" /\ call[n].kind = "list" THEN "turn" ELSE run
          /\ IF call[n].kind = "list"
             THEN /\ synced' = (call[n].ok /\ call[n].client = client /\ ~overtaken)
                  /\ overtaken' = (overtaken /\ ListSettling')
             ELSE UNCHANGED <<synced, overtaken>>
    BY DEF Continue
  <1>2. UNCHANGED <<sub, live, client, connected, wire, gateway, asked, calls>>
    BY DEF Continue, socket, agent
  <1>3. /\ call' \in [CallIds -> Requests]
        /\ \A m \in CallIds : m # n => call'[m] = call[m]
        /\ call'[n].kind = call[n].kind /\ call'[n].about = {} /\ call'[n].stage = "settled"
    <2>1. PICK r \in Requests : r = call[n]
      BY DEF GatewayShapes, GatewayTypeOK, Requests
    <2> DEFINE q == [r EXCEPT !.stage = "settled", !.about = {}]
    <2>2. q \in Requests /\ q.kind = r.kind /\ q.about = {} /\ q.stage = "settled"
      BY DEF Requests, Stages
    <2>3. call' = [call EXCEPT ![n] = q] /\ call \in [CallIds -> Requests]
      BY <1>1, <2>1 DEF GatewayShapes, GatewayTypeOK, Requests
    <2> HIDE DEF q
    <2> QED BY <2>1, <2>2, <2>3
  <1>4. /\ call[n].about \subseteq asked /\ call[n].ok \in BOOLEAN
        /\ call[n].kind # "none" /\ ~(n > calls)
    BY <1>1 DEF Settling, CallInv, GatewayShapes, GatewayTypeOK
  <1>5. \A m \in CallIds : Settling(m)' => m # n /\ Settling(m) /\ call'[m] = call[m]
    BY <1>3 DEF Settling
  <1>6. CallInv'
    BY <1>2, <1>3, <1>4 DEF CallInv
  <1>7. \A m \in CallIds : Settling(m)' /\ call[m].kind = "list" /\ ~(overtaken') => ~overtaken
    <2> SUFFICES ASSUME NEW m \in CallIds, Settling(m)', call[m].kind = "list", ~(overtaken') PROVE ~overtaken
      OBVIOUS
    <2>1. CASE call[n].kind = "list"
      <3>1. ListSettling'
        BY <1>5 DEF ListSettling
      <3> QED BY <1>1, <2>1, <3>1
    <2>2. CASE call[n].kind # "list"
      BY <1>1, <2>2
    <2> QED BY <2>1, <2>2
  <1>8. SettlingInv'
    BY <1>2, <1>5, <1>7 DEF SettlingInv
  <1>9. WireTrue(wire, gateway)'
    <2>1. PICK w, g : w = wire /\ g = gateway
      OBVIOUS
    <2>2. \A m \in 1 .. calls : call'[m].kind = call[m].kind
      BY <1>3, CallBounds DEF GatewayShapes, GatewayTypeOK
    <2> QED BY <1>2, <2>1, <2>2, CallBounds, WireKeeps DEF GatewayShapes, GatewayTypeOK
  <1>10. overtaken' \in BOOLEAN /\ synced' \in BOOLEAN
    <2>1. CASE call[n].kind = "list"
      BY <1>1, <1>4, <2>1
    <2>2. CASE call[n].kind # "list"
      BY <1>1, <2>2 DEF GatewayShapes, GatewayTypeOK
    <2> QED BY <2>1, <2>2
  <1>11. GatewayShapes'
    <2>1. shown' \subseteq asked
      BY <1>1, <1>4 DEF Apply, GatewayShapes, GatewayTypeOK
    <2>2. run' \in {"idle", "prepare", "turn"} /\ (run' # "idle" => run # "idle")
      BY <1>1 DEF GatewayShapes, GatewayTypeOK
    <2> QED BY <1>2, <1>3, <1>10, <2>1, <2>2 DEF GatewayShapes, GatewayTypeOK, Requests
  <1>12. ShownInv'
    <2> SUFFICES ASSUME connected, synced'
                 PROVE  /\ GoneDue(wire, shown', gateway, 1)
                        /\ run' = "turn" => CameDue(wire, shown', gateway, 1)
      BY <1>2 DEF ShownInv
    <2>1. CASE call[n].kind = "list"
      <3>1. call[n].ok /\ call[n].client = client /\ ~overtaken /\ shown' = call[n].about
        BY <1>1, <2>1 DEF Apply
      <3> QED BY <1>1, <2>1, <3>1 DEF SettlingInv
    <2>2. CASE call[n].kind # "list"
      <3>1. /\ synced /\ run' = run
            /\ GoneDue(wire, shown, gateway, 1)
            /\ run = "turn" => CameDue(wire, shown, gateway, 1)
        BY <1>1, <2>2 DEF ShownInv
      <3>2. shown' = shown \/ (shown' = shown \ call[n].about /\ call[n].about \cap gateway = {})
        <4>1. CASE ~call[n].ok
          BY <1>1, <4>1 DEF Apply
        <4>2. CASE call[n].ok /\ call[n].kind = "resolve"
          <5>1. shown' = shown \ call[n].about
            BY <1>1, <4>2 DEF Apply
          <5>2. call[n].about \cap gateway = {}
            BY <1>1, <4>2 DEF SettlingInv
          <5> QED BY <5>1, <5>2
        <4>3. CASE call[n].ok /\ call[n].kind # "resolve"
          BY <1>1, <2>2, <4>3 DEF Apply
        <4> QED BY <4>1, <4>2, <4>3
      <3> QED BY <3>1, <3>2 DEF GoneDue, CameDue
    <2> QED BY <2>1, <2>2
  <1> QED BY <1>6, <1>8, <1>9, <1>11, <1>12

LEMMA GwInit == GatewayInit => GatewayInv
  <1> SUFFICES ASSUME GatewayInit PROVE GatewayInv
    OBVIOUS
  <1>1. PICK one \in Requests, none \in Requests :
           /\ one = [NoCall EXCEPT !.kind = "list", !.client = 1, !.stage = "sent"] /\ none = NoCall
           /\ one.kind = "list" /\ one.about = {} /\ one.stage = "sent"
           /\ none.kind = "none" /\ none.about = {} /\ none.stage = "unused"
    <2>1. 0 \in 0 .. MaxClients /\ 1 \in 0 .. MaxClients
      BY GatewayAssumption
    <2>2. /\ NoCall \in Requests
          /\ [NoCall EXCEPT !.kind = "list", !.client = 1, !.stage = "sent"] \in Requests
      BY <2>1 DEF NoCall, Requests, Kinds, Stages
    <2> QED BY <2>2 DEF NoCall
  <1>2. shown = {} /\ wire = <<>> /\ synced = FALSE /\ overtaken = FALSE
    BY DEF GatewayInit
  <1>3. \/ /\ run = "idle" /\ live = FALSE /\ connected = FALSE /\ client = 0 /\ sub = 0 /\ calls = 0
           /\ asked = {} /\ gateway = {} /\ call = [n \in CallIds |-> none]
        \/ /\ run = "turn" /\ live = TRUE /\ connected = TRUE /\ client = 1 /\ sub = 1 /\ calls = 1
           /\ asked \subseteq Approvals /\ gateway = asked
           /\ call = [n \in CallIds |-> IF n = 1 THEN one ELSE none]
    BY <1>1 DEF GatewayInit
  <1>4. /\ call \in [CallIds -> Requests]
        /\ \A n \in CallIds : /\ call[n].kind \in {"none", "list"} /\ call[n].about = {}
                              /\ call[n].stage # "settling"
                              /\ n > calls \/ call[n].kind = "none" => call[n].stage = "unused"
    <2>1. CASE call = [n \in CallIds |-> none] /\ calls = 0
      <3>1. call \in [CallIds -> Requests]
        BY <1>1, <2>1
      <3>2. \A n \in CallIds : call[n] = none
        BY <2>1
      <3> QED BY <1>1, <3>1, <3>2
    <2>2. CASE call = [n \in CallIds |-> IF n = 1 THEN one ELSE none] /\ calls = 1
      <3>1. call \in [CallIds -> Requests]
        BY <1>1, <2>2
      <3>2. \A n \in CallIds : (n = 1 /\ call[n] = one) \/ (n # 1 /\ call[n] = none)
        BY <2>2
      <3>3. ASSUME NEW n \in CallIds
            PROVE  /\ call[n].kind \in {"none", "list"} /\ call[n].about = {}
                   /\ call[n].stage # "settling"
                   /\ n > calls \/ call[n].kind = "none" => call[n].stage = "unused"
        <4>1. CASE n = 1
          <5>1. call[n] = one /\ ~(n > calls)
            BY <2>2, <3>2, <4>1
          <5> QED BY <1>1, <5>1
        <4>2. CASE n # 1
          BY <1>1, <3>2, <4>2
        <4> QED BY <4>1, <4>2
      <3> QED BY <3>1, <3>3
    <2> QED BY <1>3, <2>1, <2>2
  <1>5. /\ calls \in 0 .. MaxCalls /\ client \in 0 .. MaxClients /\ sub \in 0 .. client /\ (connected => sub = client)
    BY <1>3, GatewayAssumption
  <1>6. GatewayTypeOK /\ live \in BOOLEAN /\ connected \in BOOLEAN
    BY <1>2, <1>3, <1>4, <1>5 DEF GatewayTypeOK, Requests
  <1>7. GatewayShapes
    BY <1>2, <1>5, <1>6, EmptyWire DEF GatewayShapes
  <1>8. CallInv /\ SettlingInv
    BY <1>4 DEF CallInv, SettlingInv, Settling
  <1>9. WireTrue(wire, gateway) /\ ShownInv
    BY <1>2 DEF WireTrue, ShownInv
  <1> QED BY <1>7, <1>8, <1>9 DEF GatewayInv

LEMMA GwShown == GatewayInv => ApprovalInv
  <1> SUFFICES ASSUME GatewayInv, Still, synced PROVE shown \subseteq gateway /\ (run = "turn" => shown = gateway)
    BY DEF GatewayInv, GatewayShapes, ApprovalInv, ShownIsPending
  <1>1. \A type, a : ~Due(wire, type, a, 1)
    BY DEF Still, Due
  <1> QED BY <1>1 DEF Still, GatewayInv, ShownInv, GoneDue, CameDue

(* What the router shows of a session is what its container waits for.      *)
THEOREM ApprovalsShown == GatewaySpec => []ApprovalInv
  <1>1. GatewayInv /\ [GatewayNext]_gatewayVars => GatewayInv'
    BY GwStartRun, GwConfirm, GwAsks, GwExpires, GwAnswers, GwHandles, GwTimesOut, GwEnds, GwContinues, GwClears
       DEF GatewayNext
  <1> QED BY <1>1, GwInit, GwShown, PTL DEF GatewaySpec

(* What the caller of a request was told is not revised.                    *)
THEOREM SettledStays == GatewaySpec => SettledForGood
  <1>1. GatewayInv /\ [GatewayNext]_gatewayVars => GatewayInv'
    BY GwStartRun, GwConfirm, GwAsks, GwExpires, GwAnswers, GwHandles, GwTimesOut, GwEnds, GwContinues, GwClears
       DEF GatewayNext
  <1>2. ASSUME GatewayInv, GatewayNext PROVE \A n \in CallIds : call[n].stage = "settled" => call'[n] = call[n]
    <2> SUFFICES ASSUME NEW n \in CallIds, call[n].stage = "settled" PROVE call'[n] = call[n]
      OBVIOUS
    <2>1. call \in [CallIds -> Requests] /\ calls \in Nat /\ n # calls + 1 /\ ~Waiting(n) /\ ~Settling(n)
      BY <1>2 DEF GatewayInv, GatewayShapes, GatewayTypeOK, CallInv, Requests, CallIds, Waiting, Settling
    <2>2. CASE StartRun \/ ConfirmTool \/ Compact
      BY <2>1, <2>2 DEF StartRun, ConfirmTool, Compact, Request
    <2>3. CASE AgentAsks \/ ApprovalExpires \/ EndRun \/ CancelRun
      BY <2>3 DEF AgentAsks, ApprovalExpires, EndRun, CancelRun
    <2>4. CASE GatewayAnswers
      BY <2>1, <2>4 DEF GatewayAnswers
    <2>5. CASE HandleMessage
      BY <2>1, <2>5 DEF HandleMessage, Settle
    <2>6. CASE RequestTimesOut
      BY <2>1, <2>6 DEF RequestTimesOut
    <2>7. CASE ConnectionLost \/ FailRun \/ ReapIdle
      BY <2>1, <2>7 DEF ConnectionLost, FailRun, ReapIdle, EvictRuntime, RejectAll
    <2>8. CASE Continue
      BY <2>1, <2>8 DEF Continue
    <2> QED BY <1>2, <2>2, <2>3, <2>4, <2>5, <2>6, <2>7, <2>8 DEF GatewayNext
  <1>3. GatewayInv /\ [GatewayNext]_gatewayVars
        => [\A n \in CallIds : call[n].stage = "settled" => call'[n] = call[n]]_gatewayVars
    BY <1>2
  <1> QED BY <1>1, <1>3, GwInit, PTL DEF GatewaySpec, SettledForGood

====
