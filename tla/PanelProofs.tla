----------------------------- MODULE PanelProofs -----------------------------
(* The renderer and the panel's writes, for every set of nodes, tunnels,    *)
(* links, rules and users, whatever is written in whatever order.           *)
EXTENDS Panel, FiniteSetTheorems, TLAPS

\* The foreign keys of a link: its node and its tunnel have rows.
LinksHaveRows ==
    \A l \in Link : link[l] # None => node[link[l].node] # None /\ tunnel[link[l].tunnel] # None

-----------------------------------------------------------------------------
(* The first out link.                                                     *)

\* A set of natural numbers that is not empty has a least element.
LEMMA LeastNat ==
    ASSUME NEW S \in SUBSET Nat, S # {}
    PROVE  \E m \in S : \A n \in S : m <= n
<1> DEFINE R == OpToRel(<, Nat)
<1>1. IsWellFoundedOn(R, Nat)
  BY NatLessThanWellFounded
<1>2. PICK m \in S : \A n \in S : ~(<<n, m>> \in R)
  <2> HIDE DEF R
  <2> QED
    BY <1>1, WFMin
<1>3. \A n \in S : ~(n < m)
  <2> SUFFICES ASSUME NEW n \in S, n < m PROVE FALSE
    OBVIOUS
  <2>1. <<n, m>> \in R
    BY DEF OpToRel
  <2> HIDE DEF R
  <2> QED
    BY <1>2, <2>1
<1> HIDE DEF R
<1>4. m \in Nat /\ \A n \in S : n \in Nat
  OBVIOUS
<1>5. \A n \in S : m <= n
  BY <1>3, <1>4
<1> QED
  BY <1>5

\* A link of a tunnel is a typed row of it.
LEMMA LinkTypes ==
    ASSUME RowsOK, NEW t, NEW l \in LinksOf(t)
    PROVE  /\ l \in Link /\ l \in Nat /\ link[l] # None /\ link[l] \in LinkRow
           /\ link[l].tunnel = t /\ link[l].node \in Node /\ link[l].index \in Nat
           /\ link[l].end \in {"in", "out"} /\ link[l].tls \in BOOLEAN
BY RowAssumption DEF LinksOf, RowsOK, LinkRow

\* A tunnel with out links has a first one, and only one.
LEMMA FirstOutIsFirst ==
    ASSUME RowsOK, NEW t, Outs(t) # {}
    PROVE  /\ FirstOut(t) \in Outs(t)
           /\ \A m \in Outs(t) \ {FirstOut(t)} : Before(FirstOut(t), m)
           /\ \A l \in Outs(t) : (\A m \in Outs(t) \ {l} : Before(l, m)) => l = FirstOut(t)
<1>1. \A l \in Outs(t) : l \in Nat /\ link[l].index \in Nat
  BY LinkTypes DEF Outs
<1>2. PICK i \in {link[l].index : l \in Outs(t)} : \A j \in {link[l].index : l \in Outs(t)} : i <= j
  <2> DEFINE I == {link[l].index : l \in Outs(t)}
  <2>1. I \in SUBSET Nat /\ I # {}
    BY <1>1
  <2> HIDE DEF I
  <2>2. \E i \in I : \A j \in I : i <= j
    BY <2>1, LeastNat
  <2> QED
    BY <2>2 DEF I
<1>3. PICK l \in {x \in Outs(t) : link[x].index = i} : \A m \in {x \in Outs(t) : link[x].index = i} : l <= m
  <2> DEFINE L == {x \in Outs(t) : link[x].index = i}
  <2>1. L \in SUBSET Nat /\ L # {}
    BY <1>1, <1>2
  <2> HIDE DEF L
  <2>2. \E l \in L : \A m \in L : l <= m
    BY <2>1, LeastNat
  <2> QED
    BY <2>2 DEF L
<1>4. \A m \in Outs(t) \ {l} : Before(l, m)
  <2> SUFFICES ASSUME NEW m \in Outs(t) \ {l} PROVE Before(l, m)
    OBVIOUS
  <2>1. l \in Outs(t) /\ link[l].index = i /\ i <= link[m].index
    BY <1>2, <1>3
  <2>2. l \in Nat /\ m \in Nat /\ i \in Nat /\ link[m].index \in Nat
    BY <1>1, <2>1
  <2>3. link[m].index = i => l <= m
    BY <1>3
  <2> QED
    BY <2>1, <2>2, <2>3 DEF Before
<1>5. FirstOut(t) \in Outs(t) /\ \A m \in Outs(t) \ {FirstOut(t)} : Before(FirstOut(t), m)
  BY <1>4 DEF FirstOut
<1>6. \A k, m \in Outs(t) : k # m /\ Before(k, m) => ~Before(m, k)
  BY <1>1 DEF Before
<1> QED
  BY <1>5, <1>6

-----------------------------------------------------------------------------
(* The two ends of a link.                                                 *)

\* An exit is an out link.
LEMMA ExitsAreOuts ==
    ASSUME RowsOK, NEW t PROVE Exits(t) \subseteq Outs(t)
BY FirstOutIsFirst DEF Exits, TlsLink

\* A tunnel that has one in link has one entry node.
LEMMA OneEntry ==
    ASSUME NEW t, Cardinality(Ins(t)) = 1, NEW n, NEW m, IsEntry(n, t), IsEntry(m, t)
    PROVE  n = m
<1>1. IsFiniteSet(Ins(t))
  <2>1. Ins(t) \subseteq Link
    BY DEF Ins, LinksOf
  <2> QED
    BY <2>1, RowAssumption, FS_Subset
<1>2. PICK l : Ins(t) = {l}
  BY <1>1, FS_Singleton
<1> QED
  BY <1>2 DEF IsEntry

\* A service has four fields.
LEMMA ServiceShape ==
    ASSUME NEW n, NEW s \in ServicesOf(n)
    PROVE  s = [rule |-> s.rule, port |-> s.port, to |-> s.to, tls |-> s.tls]
<1>1. \/ \E t, r : s = EntryService(t, r)
      \/ \E t, r : s = ExitService(n, t, r)
  BY DEF ServicesOf, EntryServices, ExitServices
<1> QED
  BY <1>1 DEF EntryService, ExitService

\* What a node is sent are its services, with the side of the TLS link left out without material.
Sent(s) == IF material = None THEN "none" ELSE s.tls

\* The services of a rendering are the node's, but for the side that is left out.
LEMMA RenderedServices ==
    ASSUME NEW n, node[n] # None
    PROVE  /\ \A s \in Render(n).services : \E x \in ServicesOf(n) :
                s.rule = x.rule /\ s.port = x.port /\ s.to = x.to /\ s.tls = Sent(x)
           /\ \A x \in ServicesOf(n) : \E s \in Render(n).services :
                s.rule = x.rule /\ s.port = x.port /\ s.to = x.to /\ s.tls = Sent(x)
<1>1. \A x \in ServicesOf(n) : /\ Plain(x).rule = x.rule /\ Plain(x).port = x.port
                               /\ Plain(x).to = x.to /\ Plain(x).tls = "none"
  BY ServiceShape DEF Plain
<1>2. CASE material = None /\ \E s \in ServicesOf(n) : s.tls # "none"
  <2>1. Render(n).services = {Plain(s) : s \in ServicesOf(n)}
    BY <1>2 DEF Render, Degraded
  <2> QED
    BY <1>1, <1>2, <2>1 DEF Sent
<1>3. CASE ~(material = None /\ \E s \in ServicesOf(n) : s.tls # "none")
  <2>1. Render(n).services = ServicesOf(n)
    BY <1>3 DEF Render
  <2>2. \A s \in ServicesOf(n) : Sent(s) = s.tls
    BY <1>3 DEF Sent
  <2> QED
    BY <2>1, <2>2
<1> QED
  BY <1>2, <1>3

\* Only the entry service of a rule's tunnel sends connections to an exit.
LEMMA EntrySends ==
    ASSUME NEW t \in Tunnel, NEW n, NEW r \in LiveRules(t), NEW l,
           NEW s \in ServicesOf(n), s.rule = r, ExitTarget(r, l) \in s.to
    PROVE  s = EntryService(t, r) /\ Exits(t) # {}
<1>1. PICK u \in Tunnel : s \in EntryServices(n, u) \/ s \in ExitServices(n, u)
  BY DEF ServicesOf, TunnelsOf
<1>2. ExitTarget(r, l) # <<rule[r].target>>
  BY DEF ExitTarget
<1>3. s \notin ExitServices(n, u)
  BY <1>2 DEF ExitServices, ExitService
<1>4. PICK q \in LiveRules(u) : s = EntryService(u, q)
  BY <1>1, <1>3 DEF EntryServices
<1>5. q = r /\ u = t
  BY <1>4 DEF EntryService, LiveRules
<1>6. Exits(t) # {}
  BY <1>2, <1>4, <1>5 DEF EntryService
<1> QED
  BY <1>4, <1>5, <1>6

\* The exit node of a rendered link listens where the entry node sends, on the other side of TLS.
LEMMA ExitListens ==
    ASSUME RowsOK, NEW t \in Tunnel, NEW n \in Node, Renders(n, t), IsEntry(n, t),
           NEW r \in LiveRules(t), NEW l \in Exits(t), rule[r].target # Unparsable,
           NEW s \in ServicesOf(n), s.rule = r, ExitTarget(r, l) \in s.to
    PROVE  /\ ExitService(link[l].node, t, r) \in ServicesOf(link[l].node)
           /\ s.tls = "connect" <=> ExitService(link[l].node, t, r).tls = "listen"
<1> DEFINE m == link[l].node
<1>1. l \in Outs(t)
  BY ExitsAreOuts
<1>2. IsExit(m, t) /\ ~IsExit(n, t)
  BY <1>1 DEF Renders, IsExit
<1>3. ~IsEntry(m, t)
  BY <1>2, OneEntry DEF Renders
<1>4. Renders(m, t)
  BY <1>2, <1>3 DEF Renders
<1>5. m \in Node /\ t \in TunnelsOf(m)
  BY <1>1, LinkTypes DEF Outs, TunnelsOf, NodesOf
<1>6. s = EntryService(t, r) /\ Exits(t) # {}
  BY EntrySends
<1>7. ExitPort(r, m) > 0
  <2>1. PICK k \in Exits(t) : ExitTarget(r, l) = ExitTarget(r, k) /\ ExitPort(r, link[k].node) > 0
    BY <1>6 DEF EntryService
  <2>2. ExitPort(r, m) = ExitPort(r, link[k].node)
    BY <2>1 DEF ExitTarget
  <2> QED
    BY <2>1, <2>2
<1>8. ExitService(m, t, r) \in ExitServices(m, t)
  BY <1>7 DEF ExitServices, HasExitService
<1>9. ExitService(m, t, r) \in ServicesOf(m)
  BY <1>4, <1>5, <1>8 DEF ServicesOf
<1>10. s.tls = "connect" <=> ExitService(m, t, r).tls = "listen"
  BY <1>6 DEF EntryService, ExitService, SideOf
<1> QED
  BY <1>9, <1>10

\* Rows whose links have their nodes render to ends that agree.
LEMMA RowsMeet ==
    ASSUME RowsOK, LinksHaveRows
    PROVE  LegsMeet
<1> SUFFICES ASSUME NEW t \in Tunnel, NEW n \in Node, Renders(n, t), node[n] # None, IsEntry(n, t),
                    NEW r \in LiveRules(t), NEW l \in Exits(t), rule[r].target # Unparsable,
                    NEW s \in Render(n).services, s.rule = r, ExitTarget(r, l) \in s.to
             PROVE  \E x \in Render(link[l].node).services :
                       /\ x.rule = r /\ x.port = ExitPort(r, link[l].node) /\ x.to = {<<rule[r].target>>}
                       /\ (s.tls = "connect") <=> (x.tls = "listen")
  BY DEF LegsMeet
<1> DEFINE m == link[l].node
<1>1. node[m] # None
  BY ExitsAreOuts, LinkTypes DEF Outs, LinksHaveRows
<1>2. PICK s0 \in ServicesOf(n) :
         s.rule = s0.rule /\ s.port = s0.port /\ s.to = s0.to /\ s.tls = Sent(s0)
  BY RenderedServices
<1> DEFINE x0 == ExitService(m, t, r)
<1>3. x0 \in ServicesOf(m) /\ (s0.tls = "connect" <=> x0.tls = "listen")
  BY <1>2, ExitListens
<1>4. x0.rule = r /\ x0.port = ExitPort(r, m) /\ x0.to = {<<rule[r].target>>}
  BY DEF ExitService
<1> HIDE DEF x0, m
<1>5. PICK x \in Render(m).services :
         x.rule = x0.rule /\ x.port = x0.port /\ x.to = x0.to /\ x.tls = Sent(x0)
  BY <1>1, <1>3, RenderedServices
<1>6. (s.tls = "connect") <=> (x.tls = "listen")
  BY <1>2, <1>3, <1>5 DEF Sent
<1> QED
  BY <1>4, <1>5, <1>6 DEF m

-----------------------------------------------------------------------------
(* What a configuration depends on.                                        *)

\* A step that changes nothing the configuration of a tunnel's nodes is rendered from, but for the
\* rows of the nodes themselves.
SameTunnel(t) ==
    /\ tunnel'[t] = tunnel[t]
    /\ LinksOf(t)' = LinksOf(t) /\ \A l \in LinksOf(t) : link'[l] = link[l]
    /\ LiveRules(t)' = LiveRules(t) /\ \A r \in LiveRules(t) : rule'[r] = rule[r]

\* A step that changes no node which the node n dials in a tunnel.
SameExits(n, t) == IsEntry(n, t) => \A l \in Outs(t) : node'[link[l].node] = node[link[l].node]

\* The shape of such a tunnel is as it was.
LEMMA SameShape ==
    ASSUME RowsOK, RowsOK', NEW t \in Tunnel, SameTunnel(t)
    PROVE  /\ Ins(t)' = Ins(t) /\ Outs(t)' = Outs(t) /\ NodesOf(t)' = NodesOf(t)
           /\ TlsLink(t)' = TlsLink(t) /\ Exits(t)' = Exits(t)
           /\ Outs(t) # {} => FirstOut(t)' = FirstOut(t)
           /\ \A n : IsEntry(n, t)' = IsEntry(n, t) /\ Renders(n, t)' = Renders(n, t)
<1>1. /\ LinksOf(t)' = LinksOf(t) /\ \A l \in LinksOf(t) : link'[l] = link[l]
      /\ tunnel'[t] = tunnel[t]
  BY DEF SameTunnel
<1>2. Ins(t)' = Ins(t) /\ Outs(t)' = Outs(t) /\ NodesOf(t)' = NodesOf(t)
  BY <1>1 DEF Ins, Outs, NodesOf
<1>3. \A l \in Outs(t) : link'[l] = link[l]
  BY <1>1 DEF Outs
<1>4. ASSUME Outs(t) # {} PROVE FirstOut(t)' = FirstOut(t)
  <2>1. FirstOut(t) \in Outs(t) /\ \A m \in Outs(t) \ {FirstOut(t)} : Before(FirstOut(t), m)
    BY <1>4, FirstOutIsFirst
  <2>2. \A l, m \in Outs(t) : Before(l, m) => \/ link'[l].index < link'[m].index
                                              \/ link'[l].index = link'[m].index /\ l < m
    BY <1>3 DEF Before
  <2>3. \E l \in Outs(t)' : \A m \in Outs(t)' \ {l} :
           \/ link'[l].index < link'[m].index
           \/ link'[l].index = link'[m].index /\ l < m
    <3> DEFINE f == FirstOut(t)
    <3> HIDE DEF f
    <3>1. f \in Outs(t) /\ \A m \in Outs(t) \ {f} : Before(f, m)
      BY <2>1 DEF f
    <3>2. \A m \in Outs(t) \ {f} : \/ link'[f].index < link'[m].index
                                   \/ link'[f].index = link'[m].index /\ f < m
      BY <2>2, <3>1
    <3>3. f \in Outs(t)' /\ Outs(t)' = Outs(t)
      BY <1>2, <3>1
    <3> QED
      BY <3>2, <3>3
  <2>4. /\ FirstOut(t)' \in Outs(t)'
        /\ \A m \in Outs(t)' \ {FirstOut(t)'} :
              \/ link'[FirstOut(t)'].index < link'[m].index
              \/ link'[FirstOut(t)'].index = link'[m].index /\ FirstOut(t)' < m
    BY <2>3 DEF FirstOut, Before
  <2>5. \A m \in Outs(t) \ {FirstOut(t)'} : Before(FirstOut(t)', m)
    BY <1>2, <1>3, <2>4 DEF Before
  <2> QED
    BY <1>2, <1>4, <2>4, <2>5, FirstOutIsFirst
<1>5. TlsLink(t)' = TlsLink(t)
  <2>1. CASE Outs(t) = {}
    BY <1>2, <2>1 DEF TlsLink
  <2>2. CASE Outs(t) # {}
    <3>1. link'[FirstOut(t)] = link[FirstOut(t)]
      BY <1>3, <2>2, FirstOutIsFirst
    <3> QED
      BY <1>1, <1>2, <1>4, <2>2, <3>1 DEF TlsLink
  <2> QED
    BY <2>1, <2>2
<1>6. Exits(t)' = Exits(t)
  BY <1>2, <1>4, <1>5 DEF Exits, TlsLink
<1>7. \A n : IsEntry(n, t)' = IsEntry(n, t) /\ IsExit(n, t)' = IsExit(n, t)
  BY <1>1, <1>2 DEF IsEntry, IsExit, Ins, Outs
<1>8. \A n : Renders(n, t)' = Renders(n, t)
  BY <1>2, <1>7 DEF Renders
<1> QED
  BY <1>2, <1>4, <1>5, <1>6, <1>7, <1>8

\* A node's services of such a tunnel are as they were if its own row and those it dials are.
LEMMA SameServices ==
    ASSUME RowsOK, RowsOK', NEW n \in Node, NEW t \in Tunnel, SameTunnel(t), SameExits(n, t),
           node'[n] = node[n]
    PROVE  EntryServices(n, t)' = EntryServices(n, t) /\ ExitServices(n, t)' = ExitServices(n, t)
<1>1. /\ Outs(t)' = Outs(t) /\ TlsLink(t)' = TlsLink(t) /\ Exits(t)' = Exits(t)
      /\ Outs(t) # {} => FirstOut(t)' = FirstOut(t)
      /\ IsEntry(n, t)' = IsEntry(n, t)
  BY SameShape
<1>2. LiveRules(t)' = LiveRules(t) /\ \A r \in LiveRules(t) : rule'[r] = rule[r]
  BY DEF SameTunnel
<1>3. \A l \in Outs(t) : link'[l] = link[l]
  BY DEF SameTunnel, Outs
<1>4. \A side : SideOf(t, side)' = SideOf(t, side)
  BY <1>1 DEF SideOf
<1>5. \A r \in LiveRules(t) : ExitPort(r, n)' = ExitPort(r, n)
  BY <1>2 DEF ExitPort, AllocatePort
<1>6. ExitServices(n, t)' = ExitServices(n, t)
  <2>1. \A r \in LiveRules(t) : HasExitService(n, r)' = HasExitService(n, r)
    BY <1>2, <1>5 DEF HasExitService
  <2>2. \A r \in LiveRules(t) : ExitService(n, t, r)' = ExitService(n, t, r)
    BY <1>2, <1>4, <1>5 DEF ExitService
  <2> QED
    BY <1>2, <2>1, <2>2 DEF ExitServices
<1>7. CASE ~IsEntry(n, t)
  BY <1>1, <1>6, <1>7 DEF EntryServices
<1>8. CASE IsEntry(n, t)
  <2>1. \A r \in LiveRules(t), l \in Outs(t) : ExitPort(r, link[l].node)' = ExitPort(r, link[l].node)
    BY <1>2, <1>3, <1>8 DEF ExitPort, AllocatePort, SameExits
  <2>2. \A r \in LiveRules(t), l \in Outs(t) : ExitTarget(r, l)' = ExitTarget(r, l)
    BY <1>2, <1>3, <1>8, <2>1 DEF ExitTarget, SameExits
  <2>3. Exits(t) \subseteq Outs(t) /\ (Exits(t) # {} => FirstOut(t) \in Outs(t))
    BY ExitsAreOuts, FirstOutIsFirst
  <2>4. \A r \in LiveRules(t) : HasEntryService(t, r)' = HasEntryService(t, r)
    BY <1>1, <1>2, <2>1, <2>3 DEF HasEntryService
  <2>5. \A r \in LiveRules(t) : EntryService(t, r)' = EntryService(t, r)
    <3> SUFFICES ASSUME NEW r \in LiveRules(t) PROVE EntryService(t, r)' = EntryService(t, r)
      OBVIOUS
    <3>1. {x \in Exits(t) : ExitPort(r, link[x].node) > 0}'
             = {x \in Exits(t) : ExitPort(r, link[x].node) > 0}
      BY <1>1, <2>1, <2>3
    <3>2. {ExitTarget(r, l) : l \in {x \in Exits(t) : ExitPort(r, link[x].node) > 0}}'
             = {ExitTarget(r, l) : l \in {x \in Exits(t) : ExitPort(r, link[x].node) > 0}}
      BY <2>2, <2>3, <3>1
    <3>3. rule'[r] = rule[r] /\ SideOf(t, "connect")' = SideOf(t, "connect")
      BY <1>2, <1>4
    <3> QED
      BY <1>1, <3>2, <3>3 DEF EntryService
  <2>6. EntryServices(n, t)' = EntryServices(n, t)
    BY <1>1, <1>2, <2>4, <2>5 DEF EntryServices
  <2> QED
    BY <1>6, <2>6
<1> QED
  BY <1>7, <1>8

\* The nodes of a step's touched tunnels aside, only a node whose row changes, or that of one it
\* dials, is rendered differently.
LEMMA RenderIsLocal ==
    ASSUME RowsOK, RowsOK', NEW n \in Node, NEW touched,
           node'[n] = node[n], material' = material,
           \A t \in Tunnel \ touched : SameTunnel(t) /\ SameExits(n, t),
           \A t \in Tunnel \cap touched : n \notin NodesOf(t) /\ n \notin NodesOf(t)'
    PROVE  Render(n)' = Render(n)
<1>1. \A t \in Tunnel \ touched : NodesOf(t)' = NodesOf(t)
  BY SameShape
<1>2. TunnelsOf(n)' = TunnelsOf(n)
  BY <1>1 DEF TunnelsOf
<1>3. \A t \in TunnelsOf(n) : t \in Tunnel \ touched
  BY DEF TunnelsOf
<1>4. \A t \in TunnelsOf(n) : Renders(n, t)' = Renders(n, t)
  BY <1>3, SameShape
<1>5. \A t \in TunnelsOf(n) :
        (EntryServices(n, t) \cup ExitServices(n, t))' = EntryServices(n, t) \cup ExitServices(n, t)
  BY <1>3, SameServices
<1>6. ServicesOf(n)' = ServicesOf(n)
  BY <1>2, <1>4, <1>5 DEF ServicesOf
<1>7. Degraded(ServicesOf(n))' = Degraded(ServicesOf(n))
  BY <1>6 DEF Degraded, Plain
<1> QED
  BY <1>6, <1>7 DEF Render

-----------------------------------------------------------------------------
(* Types and foreign keys of the panel's state.                            *)

\* The bound on the staged writes counts a finite set; every node has a place for its snapshot.
Shape ==
    /\ IsFiniteSet(staged)
    /\ snapshot = [n \in Node |-> snapshot[n]]

Inv == TypeOK /\ LinksHaveRows /\ Shape

\* What the rows name.
LEMMA NamedRows ==
    ASSUME RowsOK
    PROVE  /\ \A t : NodesOf(t) \subseteq Node
           /\ \A ts : NodesOfTunnels(ts) \subseteq Node
           /\ \A n : TunnelsOf(n) \subseteq Tunnel
           /\ \A us : TunnelsOfUsers(us) \subseteq Tunnel
<1>1. \A t : NodesOf(t) \subseteq Node
  BY LinkTypes DEF NodesOf
<1>2. \A ts : NodesOfTunnels(ts) \subseteq Node
  BY <1>1 DEF NodesOfTunnels
<1>3. \A us : TunnelsOfUsers(us) \subseteq Tunnel
  BY DEF TunnelsOfUsers, RowsOK, RuleRow
<1> QED
  BY <1>1, <1>2, <1>3 DEF TunnelsOf

\* Deferred work is typed.
LEMMA DeferOK ==
    ASSUME pending \in Pending, NEW ns \in SUBSET Node, NEW ts \in SUBSET Tunnel, NEW us \in SUBSET User,
           NEW tls \in BOOLEAN, Defer(ns, ts, us, tls)
    PROVE  pending' \in Pending
BY DEF Defer, Pending

\* Staging a write and taking it out keep the bound.
LEMMA StagingOK ==
    ASSUME Inv, NEW w \in Staged, Stage(w) \/ Unstage(w)
    PROVE  /\ staged' \in SUBSET Staged
           /\ IsFiniteSet(staged') /\ Cardinality(staged') <= MaxStaged
<1>1. IsFiniteSet(staged) /\ Cardinality(staged) \in Nat
  BY FS_CardinalityType DEF Inv, Shape
<1>2. staged \in SUBSET Staged /\ Cardinality(staged) <= MaxStaged /\ MaxStaged \in Nat
  BY InputAssumption DEF Inv, TypeOK
<1>3. CASE Stage(w)
  <2>1. IsFiniteSet(staged \cup {w}) /\ Cardinality(staged \cup {w}) <= Cardinality(staged) + 1
    <3>1. /\ IsFiniteSet(staged \cup {w})
          /\ Cardinality(staged \cup {w}) = IF w \in staged THEN Cardinality(staged) ELSE Cardinality(staged) + 1
      BY <1>1, FS_AddElement
    <3> QED
      BY <1>1, <3>1
  <2>2. Cardinality(staged \cup {w}) \in Nat
    BY <2>1, FS_CardinalityType
  <2> QED
    BY <1>1, <1>2, <1>3, <2>1, <2>2 DEF Stage
<1>4. CASE Unstage(w)
  <2>1. IsFiniteSet(staged \ {w}) /\ Cardinality(staged \ {w}) <= Cardinality(staged)
    <3>1. /\ IsFiniteSet(staged \ {w})
          /\ Cardinality(staged \ {w}) = IF w \in staged THEN Cardinality(staged) - 1 ELSE Cardinality(staged)
      BY <1>1, FS_RemoveElement
    <3> QED
      BY <1>1, <3>1
  <2>2. Cardinality(staged \ {w}) \in Nat
    BY <2>1, FS_CardinalityType
  <2> QED
    BY <1>1, <1>2, <1>4, <2>1, <2>2 DEF Unstage
<1> QED
  BY <1>3, <1>4

\* What a removal under way names and has seen.
LEMMA RemovingTypes ==
    ASSUME NEW w
    PROVE  /\ w \in Removing("node") => w \in Removals /\ w \in staged /\ w.id \in Node /\ w.saw \in SUBSET Tunnel
           /\ w \in Removing("tunnel") => w \in Removals /\ w \in staged /\ w.id \in Tunnel /\ w.saw \in SUBSET Node
           /\ w \in Removing("link") => w \in Removals /\ w \in staged /\ w.id \in Link /\ w.saw \in SUBSET Tunnel
           /\ w \in Removing("rule") => w \in Removals /\ w \in staged /\ w.id \in Rule /\ w.saw \in SUBSET Tunnel
           /\ w \in Removing("user") => w \in Removals /\ w \in staged /\ w.id \in User /\ w.saw \in SUBSET Tunnel
BY DEF Removing, Removals, Removal

\* What a link edit names is a tunnel it gives, and the row it leaves is typed.
LEMMA LinkEditTypes ==
    ASSUME Inv, NEW w \in StagedLink, w.create <=> link[w.link] = None
    PROVE  /\ w.link \in Link /\ w.saw \in SUBSET Tunnel /\ Named(w) \subseteq Tunnel
           /\ LinkNow(w) \in LinkRow /\ LinkNow(w) # None
           /\ w.create => LinkNow(w).tunnel \in Named(w)
           /\ ~w.create => LinkNow(w).tunnel \in Named(w) \/ LinkNow(w).tunnel = link[w.link].tunnel
<1>1. w.link \in Link /\ w.row \in LinkRow /\ w.saw \in SUBSET Tunnel /\ link[w.link] \in LinkRow \cup {None}
  BY DEF StagedLink, Inv, TypeOK, RowsOK
<1>2. link[w.link] # None => LinkPatched(link[w.link], w.row, w.given) \in LinkRow
  BY <1>1 DEF LinkPatched, LinkRow
<1>3. LinkNow(w) \in LinkRow
  BY <1>1, <1>2 DEF LinkNow
<1>4. w.row.tunnel \in Tunnel /\ Named(w) \subseteq Tunnel
  BY <1>1, NoneAssumption DEF LinkRow, Named
<1>5. w.create => LinkNow(w).tunnel \in Named(w)
  BY <1>4, NoneAssumption DEF StagedLink, LinkFields, LinkNow, Named
<1>6. ~w.create => LinkNow(w).tunnel \in Named(w) \/ LinkNow(w).tunnel = link[w.link].tunnel
  BY <1>4, NoneAssumption DEF LinkNow, LinkPatched, Named
<1>7. LinkNow(w) # None
  BY <1>3, NoneAssumption
<1> QED
  BY <1>1, <1>3, <1>4, <1>5, <1>6, <1>7

\* The same of a rule edit.
LEMMA RuleEditTypes ==
    ASSUME Inv, NEW w \in StagedRule, w.create <=> rule[w.rule] = None
    PROVE  /\ w.rule \in Rule /\ w.saw \in SUBSET Tunnel /\ Named(w) \subseteq Tunnel
           /\ RuleNow(w) \in RuleRow /\ RuleNow(w) # None
           /\ w.create => RuleNow(w).tunnel \in Named(w) \cup {None}
           /\ ~w.create => RuleNow(w).tunnel \in Named(w) \cup {None} \/ RuleNow(w).tunnel = rule[w.rule].tunnel
<1>1. w.rule \in Rule /\ w.row \in RuleRow /\ w.saw \in SUBSET Tunnel /\ rule[w.rule] \in RuleRow \cup {None}
  BY DEF StagedRule, Inv, TypeOK, RowsOK
<1>2. rule[w.rule] # None => RulePatched(rule[w.rule], w.row, w.given) \in RuleRow
  BY <1>1 DEF RulePatched, RuleRow
<1>3. RuleNow(w) \in RuleRow
  BY <1>1, <1>2 DEF RuleNow
<1>4. Named(w) \subseteq Tunnel
  BY <1>1 DEF RuleRow, Named
<1>5. w.create => RuleNow(w).tunnel \in Named(w) \cup {None}
  BY DEF StagedRule, RuleFields, RuleNow, Named
<1>6. ~w.create => RuleNow(w).tunnel \in Named(w) \cup {None} \/ RuleNow(w).tunnel = rule[w.rule].tunnel
  BY DEF RuleNow, RulePatched, Named
<1>7. RuleNow(w) # None
  BY <1>3, NoneAssumption
<1> QED
  BY <1>1, <1>3, <1>4, <1>5, <1>6, <1>7

\* A counted write.
LEMMA MayWriteOK ==
    ASSUME Inv, MayWrite PROVE writes' \in 0 .. MaxWrites
BY InputAssumption DEF Inv, TypeOK, MayWrite

\* The initial rows are those of a seed, each snapshot freshly rendered.
LEMMA InitInv == Init => Inv /\ StaleIsScheduled
<1> SUFFICES ASSUME Init PROVE Inv /\ StaleIsScheduled
  OBVIOUS
<1>1. RowsOK /\ LinksHaveRows
  BY SeedAssumption DEF Init, RowsOK, LinksHaveRows
<1>2. \A n \in Node : snapshot[n] = Render(n)
  BY DEF Init
<1>3. \A n \in Node : node[n] = None => snapshot[n] = None
  BY <1>2 DEF Render
<1>4. Shape
  BY FS_EmptySet DEF Init, Shape
<1>5. /\ pending \in Pending /\ staged \in SUBSET Staged
      /\ Cardinality(staged) <= MaxStaged
      /\ behind \in SUBSET Node /\ overdue \in SUBSET Node /\ writes \in 0 .. MaxWrites
  BY FS_EmptySet, InputAssumption, SeedAssumption DEF Init, NoWork, Pending
<1> QED
  BY <1>1, <1>2, <1>3, <1>4, <1>5 DEF Inv, TypeOK, StaleIsScheduled

\* A step that writes no rows and stores no snapshot keeps what is known of them.
LEMMA RowsStay ==
    ASSUME Inv, UNCHANGED <<node, tunnel, link, rule, user, material, snapshot>>
    PROVE  /\ RowsOK' /\ LinksHaveRows' /\ snapshot' = [n \in Node |-> snapshot'[n]]
           /\ \A n \in Node : node'[n] = None => snapshot'[n] = None
BY DEF Inv, TypeOK, RowsOK, LinksHaveRows, Shape

\* A removal under way is staged.
LEMMA StageRemovalOK ==
    ASSUME Inv, NEW kind, NEW id, NEW saw, [remove |-> kind, id |-> id, saw |-> saw] \in Removals,
           StageRemoval(kind, id, saw)
    PROVE  Inv'
<1>1. UNCHANGED <<node, tunnel, link, rule, user, material, snapshot, pending, behind, overdue>>
  BY DEF StageRemoval
<1>2. writes' \in 0 .. MaxWrites
  BY MayWriteOK DEF StageRemoval
<1>3. /\ staged' \in SUBSET Staged /\ IsFiniteSet(staged') /\ Cardinality(staged') <= MaxStaged
  <2> DEFINE w == [remove |-> kind, id |-> id, saw |-> saw]
  <2>1. w \in Staged /\ Stage(w)
    BY DEF Staged, StageRemoval
  <2> HIDE DEF w
  <2> QED
    BY <2>1, StagingOK
<1> QED
  BY <1>1, <1>2, <1>3, RowsStay DEF Inv, TypeOK, Shape

\* Writes of node rows.
LEMMA NodeWritesOK ==
    ASSUME Inv,
           \/ \E n \in Node : StageDeleteNode(n) \/ \E new \in NodeRows : CreateNode(n, new) \/ UpdateNode(n, new)
           \/ \E w \in Removing("node") : DeleteNode(w)
    PROVE  Inv'
<1>1. ASSUME NEW n \in Node, NEW new \in NodeRows, CreateNode(n, new) \/ UpdateNode(n, new) PROVE Inv'
  <2>1. new \in NodeRow /\ new # None
    BY InputAssumption, NoneAssumption
  <2>2. /\ node' = [node EXCEPT ![n] = new]
        /\ UNCHANGED <<tunnel, link, rule, user, material, snapshot, staged, overdue>>
    BY <1>1 DEF CreateNode, UpdateNode
  <2>3. RowsOK' /\ LinksHaveRows'
    BY <2>1, <2>2 DEF Inv, TypeOK, RowsOK, LinksHaveRows
  <2>4. behind' \in SUBSET Node
    BY <1>1 DEF CreateNode, UpdateNode, Dialing, Inv, TypeOK
  <2>5. pending' \in Pending /\ writes' \in 0 .. MaxWrites
    BY <1>1, DeferOK, MayWriteOK DEF CreateNode, UpdateNode, Inv, TypeOK
  <2>6. \A m \in Node : node'[m] = None => snapshot'[m] = None
    BY <2>1, <2>2 DEF Inv, TypeOK, RowsOK
  <2> QED
    BY <2>2, <2>3, <2>4, <2>5, <2>6 DEF Inv, TypeOK, Shape
<1>2. ASSUME NEW w \in Removing("node"), DeleteNode(w) PROVE Inv'
  <2>1. w.id \in Node /\ w.saw \in SUBSET Tunnel /\ w \in Staged
    BY RemovingTypes DEF Staged
  <2>2. /\ node' = [node EXCEPT ![w.id] = None]
        /\ link' = [l \in Link |-> IF link[l] # None /\ link[l].node = w.id THEN None ELSE link[l]]
        /\ snapshot' = [snapshot EXCEPT ![w.id] = None]
        /\ UNCHANGED <<tunnel, rule, user, material, overdue, writes>>
    BY <1>2 DEF DeleteNode
  <2>3. RowsOK'
    BY <2>2 DEF Inv, TypeOK, RowsOK
  <2>4. LinksHaveRows'
    BY <2>2 DEF Inv, TypeOK, RowsOK, LinksHaveRows
  <2>5. pending' \in Pending
    BY <1>2, <2>1, DeferOK DEF DeleteNode, Inv, TypeOK
  <2>6. behind' \in SUBSET Node
    BY <1>2, NamedRows DEF DeleteNode, Overtaken, Inv, TypeOK
  <2>7. staged' \in SUBSET Staged /\ IsFiniteSet(staged') /\ Cardinality(staged') <= MaxStaged
    BY <1>2, <2>1, StagingOK DEF DeleteNode
  <2>8. snapshot' = [m \in Node |-> snapshot'[m]]
    BY <2>2 DEF Inv, Shape
  <2>9. \A m \in Node : node'[m] = None => snapshot'[m] = None
    BY <2>2 DEF Inv, TypeOK, RowsOK, Shape
  <2> QED
    BY <2>2, <2>3, <2>4, <2>5, <2>6, <2>7, <2>8, <2>9 DEF Inv, TypeOK, Shape
<1>3. ASSUME NEW n \in Node, StageDeleteNode(n) PROVE Inv'
  <2>1. TunnelsOf(n) \in SUBSET Tunnel
    BY DEF TunnelsOf
  <2>2. [remove |-> "node", id |-> n, saw |-> TunnelsOf(n)] \in Removals
    BY <2>1 DEF Removals, Removal
  <2> QED
    BY <1>3, <2>2, StageRemovalOK DEF StageDeleteNode
<1> QED
  BY <1>1, <1>2, <1>3

\* Writes of tunnel rows.
LEMMA TunnelWritesOK ==
    ASSUME Inv,
           \/ \E t \in Tunnel : StageDeleteTunnel(t) \/ \E new \in TunnelRow : CreateTunnel(t, new) \/ StageTunnel(t, new)
           \/ \E w \in Removing("tunnel") : DeleteTunnel(w)
           \/ \E w \in staged \cap StagedTunnel : UpdateTunnel(w)
    PROVE  Inv'
<1>1. ASSUME NEW t \in Tunnel, NEW new \in TunnelRow, CreateTunnel(t, new) PROVE Inv'
  <2>1. /\ tunnel' = [tunnel EXCEPT ![t] = new] /\ new # None
        /\ UNCHANGED <<node, link, rule, user, material, snapshot, pending, staged, behind, overdue>>
    BY <1>1, NoneAssumption DEF CreateTunnel
  <2>2. RowsOK' /\ LinksHaveRows'
    BY <2>1 DEF Inv, TypeOK, RowsOK, LinksHaveRows
  <2>3. writes' \in 0 .. MaxWrites
    BY <1>1, MayWriteOK DEF CreateTunnel
  <2> QED
    BY <2>1, <2>2, <2>3 DEF Inv, TypeOK, Shape
<1>2. ASSUME NEW t \in Tunnel, NEW new \in TunnelRow, StageTunnel(t, new) PROVE Inv'
  <2>1. [tunnel |-> t, row |-> new] \in Staged
    BY DEF StagedTunnel, Staged
  <2>2. UNCHANGED <<node, tunnel, link, rule, user, material, snapshot, pending, behind, overdue>>
    BY <1>2 DEF StageTunnel
  <2>3. writes' \in 0 .. MaxWrites
    BY <1>2, MayWriteOK DEF StageTunnel
  <2> QED
    BY <1>2, <2>1, <2>2, <2>3, StagingOK, RowsStay DEF StageTunnel, Inv, TypeOK, Shape
<1>3. ASSUME NEW w \in staged \cap StagedTunnel, UpdateTunnel(w) PROVE Inv'
  <2>1. w.tunnel \in Tunnel /\ w.row \in TunnelRow /\ w.row # None
    BY <1>3, NoneAssumption DEF StagedTunnel
  <2>2. /\ tunnel' = [tunnel EXCEPT ![w.tunnel] = w.row]
        /\ UNCHANGED <<node, link, rule, user, material, snapshot, behind, overdue, writes>>
    BY <1>3 DEF UpdateTunnel
  <2>3. RowsOK' /\ LinksHaveRows'
    BY <2>1, <2>2 DEF Inv, TypeOK, RowsOK, LinksHaveRows
  <2>4. pending' \in Pending
    BY <1>3, <2>1, DeferOK DEF UpdateTunnel, Inv, TypeOK
  <2>5. staged' \in SUBSET Staged /\ IsFiniteSet(staged') /\ Cardinality(staged') <= MaxStaged
    BY <1>3, StagingOK DEF UpdateTunnel, Staged
  <2> QED
    BY <2>2, <2>3, <2>4, <2>5 DEF Inv, TypeOK, Shape
<1>4. ASSUME NEW w \in Removing("tunnel"), DeleteTunnel(w) PROVE Inv'
  <2>1. w.id \in Tunnel /\ w.saw \in SUBSET Node /\ w \in Staged
    BY RemovingTypes DEF Staged
  <2>2. /\ tunnel' = [tunnel EXCEPT ![w.id] = None]
        /\ link' = [l \in Link |-> IF l \in LinksOf(w.id) THEN None ELSE link[l]]
        /\ rule' = [r \in Rule |-> IF rule[r] # None /\ rule[r].tunnel = w.id
                                   THEN [rule[r] EXCEPT !.tunnel = None] ELSE rule[r]]
        /\ UNCHANGED <<node, user, material, snapshot, overdue, writes>>
    BY <1>4 DEF DeleteTunnel
  <2>3. \A r \in Rule : rule[r] # None => [rule[r] EXCEPT !.tunnel = None] \in RuleRow
    BY DEF Inv, TypeOK, RowsOK, RuleRow
  <2>4. RowsOK'
    BY <2>2, <2>3 DEF Inv, TypeOK, RowsOK
  <2>5. LinksHaveRows'
    BY <2>2 DEF Inv, TypeOK, RowsOK, LinksHaveRows, LinksOf
  <2>6. pending' \in Pending
    BY <1>4, <2>1, DeferOK DEF DeleteTunnel, Inv, TypeOK
  <2>7. behind' \in SUBSET Node
    BY <1>4, NamedRows DEF DeleteTunnel, Inv, TypeOK
  <2>8. staged' \in SUBSET Staged /\ IsFiniteSet(staged') /\ Cardinality(staged') <= MaxStaged
    BY <1>4, <2>1, StagingOK DEF DeleteTunnel
  <2> QED
    BY <2>2, <2>4, <2>5, <2>6, <2>7, <2>8 DEF Inv, TypeOK, Shape
<1>5. ASSUME NEW t \in Tunnel, StageDeleteTunnel(t) PROVE Inv'
  <2>1. NodesOf(t) \in SUBSET Node
    BY NamedRows DEF Inv, TypeOK
  <2>2. [remove |-> "tunnel", id |-> t, saw |-> NodesOf(t)] \in Removals
    BY <2>1 DEF Removals, Removal
  <2> QED
    BY <1>5, <2>2, StageRemovalOK DEF StageDeleteTunnel
<1> QED
  BY <1>1, <1>2, <1>3, <1>4, <1>5

\* Writes of link rows.
LEMMA LinkWritesOK ==
    ASSUME Inv,
           \/ \E l \in Link : \/ StageDeleteLink(l)
                              \/ \E new \in LinkRows : \/ StageNewLink(l, new)
                                                      \/ \E given \in LinkPatches : StageLink(l, new, given)
           \/ \E w \in staged \cap StagedLink : WriteLink(w)
           \/ \E w \in Removing("link") : DeleteLink(w)
           \/ \E w \in staged : DropStaged(w)
    PROVE  Inv'
<1>1. ASSUME NEW l \in Link, NEW new \in LinkRows, StageNewLink(l, new) PROVE Inv'
  <2>1. [link |-> l, row |-> new, given |-> LinkFields, create |-> TRUE, saw |-> {}] \in Staged
    BY InputAssumption DEF StagedLink, Staged
  <2>2. UNCHANGED <<node, tunnel, link, rule, user, material, snapshot, pending, behind, overdue>>
    BY <1>1 DEF StageNewLink
  <2>3. writes' \in 0 .. MaxWrites
    BY <1>1, MayWriteOK DEF StageNewLink
  <2> QED
    BY <1>1, <2>1, <2>2, <2>3, StagingOK, RowsStay DEF StageNewLink, Inv, TypeOK, Shape
<1>2. ASSUME NEW l \in Link, NEW new \in LinkRows, NEW given \in LinkPatches, StageLink(l, new, given) PROVE Inv'
  <2> DEFINE w == [link |-> l, row |-> LinkPatched(link[l], new, given), given |-> given, create |-> FALSE,
                   saw |-> {link[l].tunnel}]
  <2>1. w \in Staged /\ Stage(w)
    <3>1. new \in LinkRow /\ given \in SUBSET LinkFields
      BY InputAssumption
    <3>2. link[l] \in LinkRow
      BY <1>2 DEF StageLink, Inv, TypeOK, RowsOK
    <3>3. LinkPatched(link[l], new, given) \in LinkRow /\ link[l].tunnel \in Tunnel
      BY <3>1, <3>2 DEF LinkPatched, LinkRow
    <3> QED
      BY <1>2, <3>1, <3>3 DEF StageLink, StagedLink, Staged
  <2> HIDE DEF w
  <2>2. UNCHANGED <<node, tunnel, link, rule, user, material, snapshot, pending, behind, overdue>>
    BY <1>2 DEF StageLink
  <2>3. writes' \in 0 .. MaxWrites
    BY <1>2, MayWriteOK DEF StageLink
  <2> QED
    BY <2>1, <2>2, <2>3, StagingOK, RowsStay DEF Inv, TypeOK, Shape
<1>3. ASSUME NEW w \in staged \cap StagedLink, WriteLink(w) PROVE Inv'
  <2>1. /\ w.link \in Link /\ w.saw \in SUBSET Tunnel /\ Named(w) \subseteq Tunnel /\ w \in Staged
        /\ LinkNow(w) \in LinkRow /\ LinkNow(w) # None
    <3>1. w \in StagedLink /\ w \in Staged
      BY DEF Staged
    <3>2. w.create <=> link[w.link] = None
      BY <1>3 DEF WriteLink
    <3> QED
      BY <3>1, <3>2, LinkEditTypes
  <2>2. /\ link' = [link EXCEPT ![w.link] = LinkNow(w)]
        /\ tunnel[LinkNow(w).tunnel] # None /\ node[LinkNow(w).node] # None
        /\ UNCHANGED <<node, tunnel, rule, user, material, snapshot, overdue, writes>>
    BY <1>3 DEF WriteLink
  <2>3. RowsOK' /\ LinksHaveRows'
    BY <2>1, <2>2 DEF Inv, TypeOK, RowsOK, LinksHaveRows
  <2>4. AffectedByLink(w) \in SUBSET Tunnel
    BY <2>1 DEF AffectedByLink
  <2>5. pending' \in Pending
    BY <1>3, <2>4, DeferOK DEF WriteLink, Inv, TypeOK
  <2>6. behind' \in SUBSET Node
    <3>1. link[w.link] # None => link[w.link].node \in Node
      BY <2>1 DEF Inv, TypeOK, RowsOK, LinkRow
    <3>2. LinkNow(w).node \in Node
      BY <2>1 DEF LinkRow
    <3>3. \A now, known : Overtaken(now, known) \subseteq Node
      BY NamedRows DEF Overtaken, Inv, TypeOK
    <3> QED
      BY <1>3, <3>1, <3>2, <3>3 DEF WriteLink, Leaving, Inv, TypeOK
  <2>7. staged' \in SUBSET Staged /\ IsFiniteSet(staged') /\ Cardinality(staged') <= MaxStaged
    BY <1>3, <2>1, StagingOK DEF WriteLink
  <2> QED
    BY <2>2, <2>3, <2>5, <2>6, <2>7 DEF Inv, TypeOK, Shape
<1>4. ASSUME NEW w \in staged, DropStaged(w) PROVE Inv'
  <2>1. w \in Staged
    BY DEF Inv, TypeOK
  <2>2. UNCHANGED <<node, tunnel, link, rule, user, material, snapshot, pending, behind, overdue, writes>>
    BY <1>4 DEF DropStaged
  <2> QED
    BY <1>4, <2>1, <2>2, StagingOK, RowsStay DEF DropStaged, Inv, TypeOK, Shape
<1>5. ASSUME NEW w \in Removing("link"), DeleteLink(w) PROVE Inv'
  <2>1. w.id \in Link /\ w.saw \in SUBSET Tunnel /\ w \in Staged
    BY RemovingTypes DEF Staged
  <2>2. /\ link' = [link EXCEPT ![w.id] = None]
        /\ UNCHANGED <<node, tunnel, rule, user, material, snapshot, overdue, writes>>
    BY <1>5 DEF DeleteLink
  <2>3. RowsOK' /\ LinksHaveRows'
    BY <2>2 DEF Inv, TypeOK, RowsOK, LinksHaveRows
  <2>4. pending' \in Pending
    BY <1>5, <2>1, DeferOK DEF DeleteLink, Inv, TypeOK
  <2>5. behind' \in SUBSET Node
    <3>1. link[w.id] # None => link[w.id].node \in Node
      BY <2>1 DEF Inv, TypeOK, RowsOK, LinkRow
    <3>2. \A now, known : Overtaken(now, known) \subseteq Node
      BY NamedRows DEF Overtaken, Inv, TypeOK
    <3> QED
      BY <1>5, <3>1, <3>2 DEF DeleteLink, Leaving, Inv, TypeOK
  <2>6. staged' \in SUBSET Staged /\ IsFiniteSet(staged') /\ Cardinality(staged') <= MaxStaged
    BY <1>5, <2>1, StagingOK DEF DeleteLink
  <2> QED
    BY <2>2, <2>3, <2>4, <2>5, <2>6 DEF Inv, TypeOK, Shape
<1>6. ASSUME NEW l \in Link, StageDeleteLink(l) PROVE Inv'
  <2>1. link[l].tunnel \in Tunnel
    BY <1>6 DEF StageDeleteLink, Inv, TypeOK, RowsOK, LinkRow
  <2>2. [remove |-> "link", id |-> l, saw |-> {link[l].tunnel}] \in Removals
    BY <2>1 DEF Removals, Removal
  <2> QED
    BY <1>6, <2>2, StageRemovalOK DEF StageDeleteLink
<1> QED
  BY <1>1, <1>2, <1>3, <1>4, <1>5, <1>6

\* Writes of rule and user rows and of the TLS material.
LEMMA OtherWritesOK ==
    ASSUME Inv,
           \/ \E r \in Rule : \/ StageDeleteRule(r)
                              \/ \E new \in RuleRows : \/ StageNewRule(r, new)
                                                      \/ \E given \in RulePatches : StageRule(r, new, given)
           \/ \E w \in staged \cap StagedRule : WriteRule(w)
           \/ \E w \in Removing("rule") : DeleteRule(w)
           \/ \E u \in User : \/ \E status \in {"served", "stopped"} : UpdateUser(u, status)
                              \/ AllowanceEnds(u) \/ StageDeleteUser(u)
           \/ \E w \in Removing("user") : DeleteUser(w)
           \/ \E m \in Material : SetMaterial(m)
    PROVE  Inv'
<1>1. ASSUME NEW w \in staged \cap StagedRule, WriteRule(w) PROVE Inv'
  <2>1. /\ w.rule \in Rule /\ w.saw \in SUBSET Tunnel /\ Named(w) \subseteq Tunnel /\ w \in Staged
        /\ RuleNow(w) \in RuleRow /\ RuleNow(w) # None
    <3>1. w \in StagedRule /\ w \in Staged
      BY DEF Staged
    <3>2. w.create <=> rule[w.rule] = None
      BY <1>1 DEF WriteRule
    <3> QED
      BY <3>1, <3>2, RuleEditTypes
  <2>2. /\ rule' = [rule EXCEPT ![w.rule] = RuleNow(w)]
        /\ UNCHANGED <<node, tunnel, link, user, material, snapshot, overdue, writes>>
    BY <1>1 DEF WriteRule
  <2>3. RowsOK' /\ LinksHaveRows'
    BY <2>1, <2>2 DEF Inv, TypeOK, RowsOK, LinksHaveRows
  <2>4. RuleTunnels(w) \in SUBSET Tunnel
    BY <2>1 DEF RuleTunnels
  <2>5. pending' \in Pending
    BY <1>1, <2>4, DeferOK DEF WriteRule, Inv, TypeOK
  <2>6. behind' \in SUBSET Node
    <3>1. \A now, known : Overtaken(now, known) \subseteq Node
      BY NamedRows DEF Overtaken, Inv, TypeOK
    <3> QED
      BY <1>1, <3>1 DEF WriteRule, Inv, TypeOK
  <2>7. staged' \in SUBSET Staged /\ IsFiniteSet(staged') /\ Cardinality(staged') <= MaxStaged
    BY <1>1, <2>1, StagingOK DEF WriteRule
  <2> QED
    BY <2>2, <2>3, <2>5, <2>6, <2>7 DEF Inv, TypeOK, Shape
<1>2. ASSUME NEW w \in Removing("rule"), DeleteRule(w) PROVE Inv'
  <2>1. w.id \in Rule /\ w.saw \in SUBSET Tunnel /\ w \in Staged
    BY RemovingTypes DEF Staged
  <2>2. /\ rule' = [rule EXCEPT ![w.id] = None]
        /\ UNCHANGED <<node, tunnel, link, user, material, snapshot, overdue, writes>>
    BY <1>2 DEF DeleteRule
  <2>3. RowsOK' /\ LinksHaveRows'
    BY <2>2 DEF Inv, TypeOK, RowsOK, LinksHaveRows
  <2>4. pending' \in Pending
    BY <1>2, <2>1, DeferOK DEF DeleteRule, Inv, TypeOK
  <2>5. behind' \in SUBSET Node
    <3>1. \A now, known : Overtaken(now, known) \subseteq Node
      BY NamedRows DEF Overtaken, Inv, TypeOK
    <3> QED
      BY <1>2, <3>1 DEF DeleteRule, Inv, TypeOK
  <2>6. staged' \in SUBSET Staged /\ IsFiniteSet(staged') /\ Cardinality(staged') <= MaxStaged
    BY <1>2, <2>1, StagingOK DEF DeleteRule
  <2> QED
    BY <2>2, <2>3, <2>4, <2>5, <2>6 DEF Inv, TypeOK, Shape
<1>3. ASSUME NEW u \in User, NEW status \in {"served", "stopped"}, UpdateUser(u, status) PROVE Inv'
  <2>1. /\ user' = [user EXCEPT ![u] = status]
        /\ UNCHANGED <<node, tunnel, link, rule, material, snapshot, staged, behind, overdue>>
    BY <1>3 DEF UpdateUser
  <2>2. RowsOK' /\ LinksHaveRows'
    BY <2>1 DEF Inv, TypeOK, RowsOK, LinksHaveRows
  <2>3. pending' \in Pending /\ writes' \in 0 .. MaxWrites
    BY <1>3, DeferOK, MayWriteOK DEF UpdateUser, Inv, TypeOK
  <2> QED
    BY <2>1, <2>2, <2>3 DEF Inv, TypeOK, Shape
<1>4. ASSUME NEW u \in User, AllowanceEnds(u) PROVE Inv'
  <2>1. /\ user' = [user EXCEPT ![u] = "stopped"]
        /\ UNCHANGED <<node, tunnel, link, rule, material, snapshot, pending, staged, behind>>
        /\ overdue' = overdue \cup NodesOfTunnels(TunnelsOfUsers({u}))
    BY <1>4 DEF AllowanceEnds
  <2>2. RowsOK' /\ LinksHaveRows'
    BY <2>1 DEF Inv, TypeOK, RowsOK, LinksHaveRows
  <2>3. writes' \in 0 .. MaxWrites
    BY <1>4, MayWriteOK DEF AllowanceEnds
  <2>4. overdue' \in SUBSET Node
    BY <2>1, NamedRows DEF Inv, TypeOK
  <2> QED
    BY <2>1, <2>2, <2>3, <2>4 DEF Inv, TypeOK, Shape
<1>5. ASSUME NEW w \in Removing("user"), DeleteUser(w) PROVE Inv'
  <2>1. w.id \in User /\ w.saw \in SUBSET Tunnel /\ w \in Staged
    BY RemovingTypes DEF Staged
  <2>2. /\ user' = [user EXCEPT ![w.id] = "absent"]
        /\ rule' = [r \in Rule |-> IF rule[r] # None /\ rule[r].owner = w.id
                                   THEN [rule[r] EXCEPT !.owner = None] ELSE rule[r]]
        /\ UNCHANGED <<node, tunnel, link, material, snapshot, overdue, writes>>
    BY <1>5 DEF DeleteUser
  <2>3. \A r \in Rule : rule[r] # None => [rule[r] EXCEPT !.owner = None] \in RuleRow
    BY DEF Inv, TypeOK, RowsOK, RuleRow
  <2>4. RowsOK' /\ LinksHaveRows'
    BY <2>2, <2>3 DEF Inv, TypeOK, RowsOK, LinksHaveRows
  <2>5. pending' \in Pending
    BY <1>5, <2>1, DeferOK DEF DeleteUser, Inv, TypeOK
  <2>6. behind' \in SUBSET Node
    <3>1. \A now, known : Overtaken(now, known) \subseteq Node
      BY NamedRows DEF Overtaken, Inv, TypeOK
    <3> QED
      BY <1>5, <3>1 DEF DeleteUser, Inv, TypeOK
  <2>7. staged' \in SUBSET Staged /\ IsFiniteSet(staged') /\ Cardinality(staged') <= MaxStaged
    BY <1>5, <2>1, StagingOK DEF DeleteUser
  <2> QED
    BY <2>2, <2>4, <2>5, <2>6, <2>7 DEF Inv, TypeOK, Shape
<1>6. ASSUME NEW m \in Material, SetMaterial(m) PROVE Inv'
  <2>1. material' = m /\ UNCHANGED <<node, tunnel, link, rule, user, snapshot, staged, behind, overdue>>
    BY <1>6 DEF SetMaterial
  <2>2. RowsOK' /\ LinksHaveRows'
    BY <2>1 DEF Inv, TypeOK, RowsOK, LinksHaveRows
  <2>3. pending' \in Pending /\ writes' \in 0 .. MaxWrites
    BY <1>6, DeferOK, MayWriteOK DEF SetMaterial, Inv, TypeOK
  <2> QED
    BY <2>1, <2>2, <2>3 DEF Inv, TypeOK, Shape
<1>7. ASSUME NEW r \in Rule, NEW new \in RuleRows, StageNewRule(r, new) PROVE Inv'
  <2>1. [rule |-> r, row |-> new, given |-> RuleFields, create |-> TRUE, saw |-> {}] \in Staged
    BY InputAssumption DEF StagedRule, Staged, RuleRow
  <2>2. UNCHANGED <<node, tunnel, link, rule, user, material, snapshot, pending, behind, overdue>>
    BY <1>7 DEF StageNewRule
  <2>3. writes' \in 0 .. MaxWrites
    BY <1>7, MayWriteOK DEF StageNewRule
  <2> QED
    BY <1>7, <2>1, <2>2, <2>3, StagingOK, RowsStay DEF StageNewRule, Inv, TypeOK, Shape
<1>8. ASSUME NEW r \in Rule, NEW new \in RuleRows, NEW given \in RulePatches, StageRule(r, new, given) PROVE Inv'
  <2> DEFINE w == [rule |-> r, row |-> RulePatched(rule[r], new, given), given |-> given, create |-> FALSE,
                   saw |-> {rule[r].tunnel} \ {None}]
  <2>1. w \in Staged /\ Stage(w)
    <3>1. new \in RuleRow /\ given \in SUBSET RuleFields
      BY InputAssumption DEF RuleRow
    <3>2. rule[r] \in RuleRow
      BY <1>8 DEF StageRule, Inv, TypeOK, RowsOK
    <3>3. RulePatched(rule[r], new, given) \in RuleRow /\ {rule[r].tunnel} \ {None} \subseteq Tunnel
      BY <3>1, <3>2 DEF RulePatched, RuleRow
    <3> QED
      BY <1>8, <3>1, <3>3 DEF StageRule, StagedRule, Staged
  <2> HIDE DEF w
  <2>2. UNCHANGED <<node, tunnel, link, rule, user, material, snapshot, pending, behind, overdue>>
    BY <1>8 DEF StageRule
  <2>3. writes' \in 0 .. MaxWrites
    BY <1>8, MayWriteOK DEF StageRule
  <2> QED
    BY <2>1, <2>2, <2>3, StagingOK, RowsStay DEF Inv, TypeOK, Shape
<1>9. ASSUME NEW r \in Rule, StageDeleteRule(r) PROVE Inv'
  <2>1. {rule[r].tunnel} \ {None} \in SUBSET Tunnel
    BY <1>9 DEF StageDeleteRule, Inv, TypeOK, RowsOK, RuleRow
  <2>2. [remove |-> "rule", id |-> r, saw |-> {rule[r].tunnel} \ {None}] \in Removals
    BY <2>1 DEF Removals, Removal
  <2> QED
    BY <1>9, <2>2, StageRemovalOK DEF StageDeleteRule
<1>10. ASSUME NEW u \in User, StageDeleteUser(u) PROVE Inv'
  <2>1. TunnelsOfUsers({u}) \in SUBSET Tunnel
    BY NamedRows DEF Inv, TypeOK
  <2>2. [remove |-> "user", id |-> u, saw |-> TunnelsOfUsers({u})] \in Removals
    BY <2>1 DEF Removals, Removal
  <2> QED
    BY <1>10, <2>2, StageRemovalOK DEF StageDeleteUser
<1> QED
  BY <1>1, <1>2, <1>3, <1>4, <1>5, <1>6, <1>7, <1>8, <1>9, <1>10

\* Steps of the deferred work.
LEMMA WorkOK ==
    ASSUME Inv,
           \/ \E u \in User : QuotaSweep(u) \/ ExpandUser(u)
           \/ \E t \in Tunnel : ExpandTunnel(t)
           \/ ExpandTls
           \/ \E ns \in {Node} \cup {{n} : n \in Node} : Sweep(ns)
           \/ \E n \in Node : Recompute(n) \/ RecomputeFails(n)
    PROVE  Inv'
<1>1. ASSUME NEW u \in User, QuotaSweep(u) PROVE Inv'
  <2>1. UNCHANGED <<node, tunnel, link, rule, user, material, snapshot, staged, behind, overdue, writes>>
    BY <1>1 DEF QuotaSweep
  <2>2. pending' \in Pending
    BY <1>1, DeferOK DEF QuotaSweep, Inv, TypeOK
  <2> QED
    BY <2>1, <2>2, RowsStay DEF Inv, TypeOK, Shape
<1>2. CASE (\E u \in User : ExpandUser(u)) \/ (\E t \in Tunnel : ExpandTunnel(t)) \/ ExpandTls
  <2>1. UNCHANGED <<node, tunnel, link, rule, user, material, snapshot, staged, behind, overdue, writes>>
    BY <1>2 DEF ExpandUser, ExpandTunnel, ExpandTls
  <2>2. pending' \in Pending
    <3>1. RowsOK /\ pending \in Pending
      BY DEF Inv, TypeOK
    <3>2. ASSUME NEW u \in User, ExpandUser(u) PROVE pending' \in Pending
      <4>1. TunnelsOfUsers({u}) \subseteq Tunnel
        BY <3>1, NamedRows
      <4> QED
        BY <3>1, <3>2, <4>1 DEF ExpandUser, Pending
    <3>3. ASSUME NEW t \in Tunnel, ExpandTunnel(t) PROVE pending' \in Pending
      <4>1. NodesOf(t) \subseteq Node
        BY <3>1, NamedRows
      <4> QED
        BY <3>1, <3>3, <4>1 DEF ExpandTunnel, Pending
    <3>4. CASE ExpandTls
      <4>1. NodesOfTunnels(TlsTunnels) \subseteq Node
        BY <3>1, NamedRows
      <4> QED
        BY <3>1, <3>4, <4>1 DEF ExpandTls, Pending
    <3> QED
      BY <1>2, <3>2, <3>3, <3>4
  <2> QED
    BY <2>1, <2>2, RowsStay DEF Inv, TypeOK, Shape
<1>3. ASSUME NEW ns \in {Node} \cup {{n} : n \in Node}, Sweep(ns) PROVE Inv'
  <2>1. UNCHANGED <<node, tunnel, link, rule, user, material, snapshot, staged, behind, overdue>>
    BY <1>3 DEF Sweep
  <2>2. pending' \in Pending
    BY <1>3 DEF Sweep, Inv, TypeOK, Pending
  <2>3. writes' \in 0 .. MaxWrites
    BY <1>3, MayWriteOK DEF Sweep
  <2> QED
    BY <2>1, <2>2, <2>3, RowsStay DEF Inv, TypeOK, Shape
<1>4. ASSUME NEW n \in Node, Recompute(n) PROVE Inv'
  <2>1. /\ UNCHANGED <<node, tunnel, link, rule, user, material, staged, writes>>
        /\ snapshot' = [snapshot EXCEPT ![n] = Render(n)]
    BY <1>4 DEF Recompute
  <2>2. pending' \in Pending /\ behind' \in SUBSET Node /\ overdue' \in SUBSET Node
    BY <1>4 DEF Recompute, Inv, TypeOK, Pending
  <2>3. snapshot' = [m \in Node |-> snapshot'[m]]
    BY <2>1 DEF Inv, Shape
  <2>4. node[n] = None => Render(n) = None
    BY DEF Render
  <2>5. \A m \in Node : node'[m] = None => snapshot'[m] = None
    BY <2>1, <2>4 DEF Inv, TypeOK, Shape
  <2>6. RowsOK' /\ LinksHaveRows'
    BY <2>1 DEF Inv, TypeOK, RowsOK, LinksHaveRows
  <2> QED
    BY <2>1, <2>2, <2>3, <2>5, <2>6 DEF Inv, TypeOK, Shape
<1>5. ASSUME NEW n \in Node, RecomputeFails(n) PROVE Inv'
  <2>1. UNCHANGED <<node, tunnel, link, rule, user, material, snapshot, staged, behind>>
    BY <1>5 DEF RecomputeFails
  <2>2. pending' \in Pending /\ overdue' \in SUBSET Node
    BY <1>5 DEF RecomputeFails, Inv, TypeOK, Pending
  <2>3. writes' \in 0 .. MaxWrites
    BY <1>5, MayWriteOK DEF RecomputeFails
  <2> QED
    BY <2>1, <2>2, <2>3, RowsStay DEF Inv, TypeOK, Shape
<1> QED
  BY <1>1, <1>2, <1>3, <1>4, <1>5

\* Every step keeps the types and the foreign keys.
LEMMA NextInv == Inv /\ [Next]_vars => Inv'
<1> SUFFICES ASSUME Inv, [Next]_vars PROVE Inv'
  OBVIOUS
<1>1. CASE UNCHANGED vars
  BY <1>1, RowsStay DEF vars, Inv, TypeOK, Shape
<1>2. CASE \/ \E n \in Node, new \in NodeRows : CreateNode(n, new)
           \/ \E n \in Node, new \in NodeRows : UpdateNode(n, new)
           \/ \E n \in Node : StageDeleteNode(n)
           \/ \E w \in Removing("node") : DeleteNode(w)
  BY <1>2, NodeWritesOK
<1>3. CASE \/ \E t \in Tunnel, new \in TunnelRow : CreateTunnel(t, new)
           \/ \E t \in Tunnel, new \in TunnelRow : StageTunnel(t, new)
           \/ \E w \in staged \cap StagedTunnel : UpdateTunnel(w)
           \/ \E t \in Tunnel : StageDeleteTunnel(t)
           \/ \E w \in Removing("tunnel") : DeleteTunnel(w)
  BY <1>3, TunnelWritesOK
<1>4. CASE \/ \E l \in Link, new \in LinkRows : StageNewLink(l, new)
           \/ \E l \in Link, new \in LinkRows, given \in LinkPatches : StageLink(l, new, given)
           \/ \E w \in staged \cap StagedLink : WriteLink(w)
           \/ \E w \in staged : DropStaged(w)
           \/ \E l \in Link : StageDeleteLink(l)
           \/ \E w \in Removing("link") : DeleteLink(w)
  BY <1>4, LinkWritesOK
<1>5. CASE \/ \E r \in Rule, new \in RuleRows : StageNewRule(r, new)
           \/ \E r \in Rule, new \in RuleRows, given \in RulePatches : StageRule(r, new, given)
           \/ \E w \in staged \cap StagedRule : WriteRule(w)
           \/ \E r \in Rule : StageDeleteRule(r)
           \/ \E w \in Removing("rule") : DeleteRule(w)
           \/ \E u \in User, status \in {"served", "stopped"} : UpdateUser(u, status)
           \/ \E u \in User : AllowanceEnds(u) \/ StageDeleteUser(u)
           \/ \E w \in Removing("user") : DeleteUser(w)
           \/ \E m \in Material : SetMaterial(m)
  BY <1>5, OtherWritesOK
<1> QED
  BY <1>1, <1>2, <1>3, <1>4, <1>5, WorkOK DEF Next

-----------------------------------------------------------------------------
(* No affected node is forgotten.                                          *)

Due == Scheduled \cup behind \cup overdue

\* What each kind of deferred work schedules.
Reaches(n) ==
    \/ n \in pending.nodes
    \/ \E t \in pending.tunnels : n \in NodesOf(t)
    \/ \E r \in Rule : /\ rule[r] # None /\ rule[r].owner \in pending.users /\ rule[r].tunnel # None
                       /\ n \in NodesOf(rule[r].tunnel)
    \/ pending.tls /\ \E t \in TlsTunnels : n \in NodesOf(t)

\* A node is scheduled if some deferred work reaches it.
LEMMA ScheduledReaches == \A n : n \in Scheduled <=> Reaches(n)
BY DEF Scheduled, Reaches, NodesOfTunnels, TunnelsOfUsers

\* The same of the next state.
LEMMA ScheduledReachesNext == \A n : n \in Scheduled' <=> Reaches(n)'
BY DEF Scheduled, Reaches, NodesOfTunnels, TunnelsOfUsers

\* Work that is only added to still reaches a node, if each link, rule and TLS tunnel it is reached
\* by stays or its removal schedules the node anew.
LEMMA StillDue ==
    ASSUME Inv, NEW n \in Node, n \in Due,
           pending.nodes \subseteq pending'.nodes, pending.tunnels \subseteq pending'.tunnels,
           pending.users \subseteq pending'.users, pending.tls => pending'.tls,
           behind \subseteq behind', overdue \subseteq overdue',
           \A t \in Tunnel : n \in NodesOf(t) => n \in NodesOf(t)' \/ n \in Due',
           \A r \in Rule : rule[r] # None /\ rule[r].tunnel # None =>
              \/ rule'[r] # None /\ rule'[r].owner = rule[r].owner /\ rule'[r].tunnel = rule[r].tunnel
              \/ rule[r].tunnel \in pending'.tunnels \/ (n \in NodesOf(rule[r].tunnel) => n \in Due'),
           \A t \in TlsTunnels : t \in TlsTunnels' \/ t \in pending'.tunnels \/ (n \in NodesOf(t) => n \in Due')
    PROVE  n \in Due'
<1>1. CASE n \notin Scheduled
  BY <1>1 DEF Due
<1>2. CASE n \in pending.nodes
  BY <1>2, ScheduledReachesNext DEF Due, Reaches
<1>3. ASSUME NEW t \in pending.tunnels, n \in NodesOf(t) PROVE n \in Due'
  <2>1. t \in Tunnel
    BY DEF Inv, TypeOK, Pending
  <2> QED
    BY <1>3, <2>1, ScheduledReachesNext DEF Due, Reaches
<1>4. ASSUME NEW r \in Rule, rule[r] # None, rule[r].owner \in pending.users, rule[r].tunnel # None,
             NEW t \in Tunnel, rule[r].tunnel = t, n \in NodesOf(t)
      PROVE  n \in Due'
  <2>1. n \in NodesOf(t)' \/ n \in Due'
    BY <1>4
  <2>2. CASE rule'[r] # None /\ rule'[r].owner = rule[r].owner /\ rule'[r].tunnel = rule[r].tunnel
    <3>1. Reaches(n)' \/ n \in Due'
      BY <1>4, <2>1, <2>2 DEF Reaches
    <3> QED
      BY <3>1, ScheduledReachesNext DEF Due
  <2>3. CASE t \in pending'.tunnels
    <3>1. Reaches(n)' \/ n \in Due'
      BY <1>4, <2>1, <2>3 DEF Reaches
    <3> QED
      BY <3>1, ScheduledReachesNext DEF Due
  <2>4. CASE n \in NodesOf(t) => n \in Due'
    BY <1>4, <2>4
  <2> QED
    BY <1>4, <2>2, <2>3, <2>4
<1>5. ASSUME NEW t \in TlsTunnels, pending.tls, n \in NodesOf(t) PROVE n \in Due'
  <2>1. t \in Tunnel
    BY DEF TlsTunnels
  <2>2. n \in NodesOf(t)' \/ n \in Due'
    BY <1>5, <2>1
  <2>3. CASE t \in TlsTunnels'
    BY <1>5, <2>2, <2>3, ScheduledReachesNext DEF Due, Reaches
  <2>4. CASE t \in pending'.tunnels
    BY <1>5, <2>2, <2>4, ScheduledReachesNext DEF Due, Reaches
  <2> QED
    BY <1>5, <2>3, <2>4
<1>6. \A r \in Rule : rule[r] # None /\ rule[r].tunnel # None => rule[r].tunnel \in Tunnel
  BY DEF Inv, TypeOK, RowsOK, RuleRow
<1> QED
  BY <1>1, <1>2, <1>3, <1>4, <1>5, <1>6, ScheduledReaches DEF Reaches

\* Deferring more only adds to the work.
LEMMA DeferAdds ==
    ASSUME Inv, NEW ns, NEW ts, NEW us, NEW tls \in BOOLEAN, Defer(ns, ts, us, tls)
    PROVE  /\ pending.nodes \subseteq pending'.nodes /\ ns \subseteq pending'.nodes
           /\ pending.tunnels \subseteq pending'.tunnels /\ ts \subseteq pending'.tunnels
           /\ pending.users \subseteq pending'.users /\ us \subseteq pending'.users
           /\ (pending.tls => pending'.tls) /\ (tls => pending'.tls)
BY DEF Defer, Inv, TypeOK, Pending

\* The tunnels whose rows, links and rules a step leaves alone.
LEMMA TunnelStays ==
    ASSUME NEW t, tunnel'[t] = tunnel[t], UNCHANGED user,
           \A l \in Link : link'[l] # link[l] => l \notin LinksOf(t) /\ l \notin LinksOf(t)',
           \A r \in Rule : rule'[r] # rule[r] => r \notin LiveRules(t) /\ r \notin LiveRules(t)'
    PROVE  SameTunnel(t)
<1>1. LinksOf(t)' = LinksOf(t) /\ \A l \in LinksOf(t) : link'[l] = link[l]
  BY DEF LinksOf
<1>2. LiveRules(t)' = LiveRules(t) /\ \A r \in LiveRules(t) : rule'[r] = rule[r]
  BY DEF LiveRules
<1> QED
  BY <1>1, <1>2 DEF SameTunnel

\* A snapshot that was up to date stays so where nothing is rendered differently.
LEMMA StaysFresh ==
    ASSUME StaleIsScheduled, NEW n \in Node, n \notin Due, snapshot'[n] = snapshot[n], Render(n)' = Render(n)
    PROVE  snapshot'[n] = Render(n)'
BY DEF StaleIsScheduled, Due

\* A tunnel whose work is deferred reaches the nodes it has when the step is done.
LEMMA DeferredReaches ==
    ASSUME NEW n, n \notin Due', NEW t \in pending'.tunnels
    PROVE  n \notin NodesOf(t)'
BY ScheduledReachesNext DEF Due, Reaches

\* Nodes' rows.
LEMMA NodeWritesSchedule ==
    ASSUME Inv, StaleIsScheduled, Inv',
           \/ \E k \in Node, new \in NodeRows : CreateNode(k, new) \/ UpdateNode(k, new)
           \/ \E w \in Removing("node") : DeleteNode(w),
           NEW n \in Node, n \notin Due'
    PROVE  snapshot'[n] = Render(n)'
<1> USE DEF Inv, TypeOK
<1>1. ASSUME NEW k \in Node, NEW new \in NodeRows, CreateNode(k, new) \/ UpdateNode(k, new) PROVE snapshot'[n] = Render(n)'
  <2>1. /\ node' = [node EXCEPT ![k] = new] /\ Defer({k}, {}, {}, FALSE)
        /\ UNCHANGED <<tunnel, link, rule, user, material, snapshot, staged, overdue>>
        /\ behind \subseteq behind'
    BY <1>1 DEF CreateNode, UpdateNode
  <2>2. n # k
    BY <2>1, DeferAdds, ScheduledReachesNext DEF Due, Reaches
  <2>3. node'[n] = node[n]
    BY <2>1, <2>2 DEF RowsOK
  <2>4. \A t : NodesOf(t)' = NodesOf(t)
    BY <2>1 DEF NodesOf, LinksOf
  <2>5. n \notin Due
    BY <2>1, <2>4, DeferAdds, StillDue DEF TlsTunnels
  <2>6. \A t \in Tunnel : SameTunnel(t)
    BY <2>1, TunnelStays
  <2>7. \A t \in Tunnel : SameExits(n, t)
    <3> SUFFICES ASSUME NEW t \in Tunnel, IsEntry(n, t), NEW l \in Outs(t), link[l].node = k PROVE FALSE
      BY <2>1 DEF SameExits, RowsOK
    <3>1. IsExit(k, t)
      BY DEF IsExit
    <3>2. l \in Link /\ link[l] # None
      BY DEF Outs, LinksOf
    <3>3. CASE CreateNode(k, new)
      BY <3>2, <3>3 DEF CreateNode, LinksHaveRows
    <3>4. CASE UpdateNode(k, new)
      BY <2>2, <3>1, <3>4 DEF UpdateNode, Dialing, Due
    <3> QED
      BY <1>1, <3>3, <3>4
  <2>8. Render(n)' = Render(n)
    BY <2>1, <2>3, <2>6, <2>7, RenderIsLocal
  <2> QED
    BY <2>1, <2>5, <2>8, StaysFresh
<1>2. ASSUME NEW w \in Removing("node"), DeleteNode(w), NEW k, k = w.id PROVE snapshot'[n] = Render(n)'
  <2>1. /\ k \in Node /\ w.saw \in SUBSET Tunnel
        /\ node' = [node EXCEPT ![k] = None]
        /\ link' = [l \in Link |-> IF link[l] # None /\ link[l].node = k THEN None ELSE link[l]]
        /\ snapshot' = [snapshot EXCEPT ![k] = None]
        /\ UNCHANGED <<tunnel, rule, user, material, overdue>>
        /\ Defer({}, w.saw, {}, FALSE)
        /\ behind \subseteq behind' /\ Overtaken(TunnelsOf(k), w.saw) \subseteq behind'
    BY <1>2, RemovingTypes DEF DeleteNode
  <2>2. CASE n = k
    <3>1. snapshot'[n] = None /\ node'[n] = None
      BY <2>1, <2>2 DEF Shape, RowsOK
    <3> QED
      BY <3>1 DEF Render
  <2>3. CASE n # k
    <3>1. snapshot'[n] = snapshot[n] /\ node'[n] = node[n]
      BY <2>1, <2>3 DEF Shape, RowsOK
    <3>2. \A t \in Tunnel : n \in NodesOf(t) => n \in NodesOf(t)'
      BY <2>1, <2>3 DEF NodesOf, LinksOf
    <3>3. n \notin Due
      BY <2>1, <3>2, DeferAdds, StillDue DEF TlsTunnels
    <3>4. \A t \in TunnelsOf(k) : n \notin NodesOf(t)' /\ n \notin NodesOf(t)
      <4> SUFFICES ASSUME NEW t \in TunnelsOf(k) PROVE n \notin NodesOf(t)' /\ n \notin NodesOf(t)
        OBVIOUS
      <4>1. CASE t \in w.saw
        <5>1. t \in pending'.tunnels
          BY <2>1, <4>1, DeferAdds
        <5> QED
          BY <3>2, <5>1, DeferredReaches DEF TunnelsOf
      <4>2. CASE t \notin w.saw
        <5>1. n \notin NodesOf(t)
          BY <2>1, <4>2 DEF Overtaken, NodesOfTunnels, Due
        <5>2. NodesOf(t)' \subseteq NodesOf(t)
          BY <2>1, NoneAssumption DEF NodesOf, LinksOf
        <5> QED
          BY <5>1, <5>2
      <4> QED
        BY <4>1, <4>2
    <3>5. \A t \in Tunnel \ TunnelsOf(k) : SameTunnel(t) /\ SameExits(n, t)
      <4> SUFFICES ASSUME NEW t \in Tunnel \ TunnelsOf(k) PROVE SameTunnel(t) /\ SameExits(n, t)
        OBVIOUS
      <4>1. \A l \in LinksOf(t) : link[l].node # k
        BY DEF TunnelsOf, NodesOf
      <4>2. \A l \in Link : link'[l] # link[l] => l \notin LinksOf(t) /\ l \notin LinksOf(t)'
        BY <2>1, <4>1 DEF LinksOf
      <4>3. SameTunnel(t)
        BY <2>1, <4>2, TunnelStays
      <4>4. SameExits(n, t)
        BY <2>1, <4>1, LinkTypes DEF SameExits, Outs, RowsOK
      <4> QED
        BY <4>3, <4>4
    <3>6. Render(n)' = Render(n)
      BY <2>1, <3>1, <3>4, <3>5, RenderIsLocal
    <3> QED
      BY <3>1, <3>3, <3>6, StaysFresh
  <2> QED
    BY <2>2, <2>3
<1> QED
  BY <1>1, <1>2

\* A node that is not due after a step which defers the touched tunnels, and which was on none of them
\* without being so after the step, is rendered as before.
LEMMA UntouchedNode ==
    ASSUME Inv, Inv', StaleIsScheduled, NEW n \in Node, n \notin Due, NEW touched,
           UNCHANGED <<node, material>>, snapshot'[n] = snapshot[n],
           \A t \in Tunnel \ touched : SameTunnel(t),
           \A t \in Tunnel \cap touched : n \notin NodesOf(t) /\ n \notin NodesOf(t)'
    PROVE  snapshot'[n] = Render(n)'
<1>1. \A t \in Tunnel : SameExits(n, t)
  BY DEF SameExits
<1>2. Render(n)' = Render(n)
  BY <1>1, RenderIsLocal DEF Inv, TypeOK
<1> QED
  BY <1>2, StaysFresh

\* Tunnels' rows.
LEMMA TunnelWritesSchedule ==
    ASSUME Inv, StaleIsScheduled, Inv',
           \/ \E t \in Tunnel, new \in TunnelRow : CreateTunnel(t, new)
           \/ \E w \in staged \cap StagedTunnel : UpdateTunnel(w)
           \/ \E w \in Removing("tunnel") : DeleteTunnel(w),
           NEW n \in Node, n \notin Due'
    PROVE  snapshot'[n] = Render(n)'
<1> USE DEF Inv, TypeOK
<1>1. ASSUME NEW k \in Tunnel, NEW new \in TunnelRow, CreateTunnel(k, new) PROVE snapshot'[n] = Render(n)'
  <2>1. /\ tunnel' = [tunnel EXCEPT ![k] = new] /\ tunnel[k] = None
        /\ UNCHANGED <<node, link, rule, user, material, snapshot, pending, behind, overdue>>
    BY <1>1 DEF CreateTunnel
  <2>2. LinksOf(k) = {}
    BY <2>1 DEF LinksOf, LinksHaveRows
  <2>3. NodesOf(k) = {} /\ \A t : NodesOf(t)' = NodesOf(t)
    BY <2>1, <2>2 DEF NodesOf, LinksOf
  <2>4. \A t \in TlsTunnels : t \in TlsTunnels'
    BY <2>1 DEF TlsTunnels, RowsOK
  <2>5. n \notin Due
    BY <2>1, <2>3, <2>4, StillDue
  <2>6. \A t \in Tunnel \ {k} : SameTunnel(t)
    BY <2>1, TunnelStays DEF RowsOK
  <2>7. n \in Node /\ snapshot'[n] = snapshot[n]
    BY <2>1
  <2> HIDE DEF Inv, TypeOK
  <2> QED
    BY <2>1, <2>3, <2>5, <2>6, <2>7, UntouchedNode
<1>2. ASSUME NEW w \in staged \cap StagedTunnel, UpdateTunnel(w) PROVE snapshot'[n] = Render(n)'
  <2>1. /\ tunnel' = [tunnel EXCEPT ![w.tunnel] = w.row] /\ Defer({}, {w.tunnel}, {}, FALSE)
        /\ UNCHANGED <<node, link, rule, user, material, snapshot, behind, overdue>>
    BY <1>2 DEF UpdateTunnel
  <2>2. \A t : NodesOf(t)' = NodesOf(t)
    BY <2>1 DEF NodesOf, LinksOf
  <2>3. w.tunnel \in pending'.tunnels
    BY <2>1, DeferAdds
  <2>4. \A t \in TlsTunnels : t \in TlsTunnels' \/ t \in pending'.tunnels
    BY <2>1, <2>3 DEF TlsTunnels, RowsOK
  <2>5. n \notin Due
    BY <2>1, <2>2, <2>4, DeferAdds, StillDue
  <2>6. \A t \in Tunnel \ {w.tunnel} : SameTunnel(t)
    BY <2>1, TunnelStays DEF RowsOK
  <2>7. n \notin NodesOf(w.tunnel) /\ n \notin NodesOf(w.tunnel)'
    BY <2>2, <2>3, DeferredReaches
  <2> QED
    BY <2>1, <2>5, <2>6, <2>7, UntouchedNode
<1>3. ASSUME NEW w \in Removing("tunnel"), DeleteTunnel(w), NEW k, k = w.id PROVE snapshot'[n] = Render(n)'
  <2>1. /\ k \in Tunnel /\ w.saw \in SUBSET Node
        /\ tunnel' = [tunnel EXCEPT ![k] = None]
        /\ link' = [l \in Link |-> IF l \in LinksOf(k) THEN None ELSE link[l]]
        /\ rule' = [r \in Rule |-> IF rule[r] # None /\ rule[r].tunnel = k
                                   THEN [rule[r] EXCEPT !.tunnel = None] ELSE rule[r]]
        /\ UNCHANGED <<node, user, material, snapshot, overdue>>
        /\ Defer(w.saw, {}, {}, FALSE)
        /\ behind \subseteq behind' /\ NodesOf(k) \ w.saw \subseteq behind'
    BY <1>3, RemovingTypes DEF DeleteTunnel
  <2>2. w.saw \subseteq pending'.nodes
    BY <2>1, DeferAdds
  <2>3. n \notin NodesOf(k)
    BY <2>1, <2>2, ScheduledReachesNext DEF Due, Reaches
  <2>4. LinksOf(k)' = {} /\ \A t \in Tunnel \ {k} : LinksOf(t)' = LinksOf(t) /\ NodesOf(t)' = NodesOf(t)
    <3>1. LinksOf(k)' = {}
      BY <2>1 DEF LinksOf
    <3>2. \A t \in Tunnel \ {k} : LinksOf(t)' = LinksOf(t) /\ \A l \in LinksOf(t) : link'[l] = link[l]
      BY <2>1 DEF LinksOf
    <3> QED
      BY <3>1, <3>2 DEF NodesOf
  <2>5. NodesOf(k)' = {}
    BY <2>4 DEF NodesOf
  <2>6. \A r \in Rule : rule[r] # None /\ rule[r].tunnel # None =>
              \/ rule'[r] # None /\ rule'[r].owner = rule[r].owner /\ rule'[r].tunnel = rule[r].tunnel
              \/ n \notin NodesOf(rule[r].tunnel)
    BY <2>1, <2>3
  <2>7. \A t \in TlsTunnels : t \in TlsTunnels' \/ n \notin NodesOf(t)
    BY <2>1, <2>3 DEF TlsTunnels, RowsOK
  <2>8. n \notin Due
    BY <2>1, <2>3, <2>4, <2>6, <2>7, DeferAdds, StillDue
  <2>9. \A t \in Tunnel \ {k} : SameTunnel(t)
    <3> SUFFICES ASSUME NEW t \in Tunnel \ {k} PROVE SameTunnel(t)
      OBVIOUS
    <3>1. \A l \in Link : link'[l] # link[l] => l \notin LinksOf(t) /\ l \notin LinksOf(t)'
      BY <2>1 DEF LinksOf
    <3>2. \A r \in Rule : rule'[r] # rule[r] => rule[r] # None /\ rule[r].tunnel = k /\ rule'[r].tunnel = None
      BY <2>1 DEF RowsOK, RuleRow
    <3>3. \A r \in Rule : rule'[r] # rule[r] => r \notin LiveRules(t) /\ r \notin LiveRules(t)'
      BY <3>2, NoneAssumption DEF LiveRules
    <3> QED
      BY <2>1, <3>1, <3>3, TunnelStays DEF RowsOK
  <2> QED
    BY <2>1, <2>3, <2>5, <2>8, <2>9, UntouchedNode
<1> QED
  BY <1>1, <1>2, <1>3

\* A link is written and the tunnels `ts` are deferred: a tunnel it was in or comes to is one of
\* them, or the nodes of that tunnel are left behind.
LEMMA LinkMoves ==
    ASSUME Inv, Inv', StaleIsScheduled, NEW k \in Link, NEW row, link' = [link EXCEPT ![k] = row],
           NEW ts \in SUBSET Tunnel, Defer({}, ts, {}, FALSE),
           UNCHANGED <<node, tunnel, rule, user, material, snapshot, overdue>>, behind \subseteq behind',
           link[k] # None => link[k].tunnel \in ts \/ NodesOf(link[k].tunnel) \subseteq behind',
           link[k] # None => Leaving({link[k].node}, ts) \subseteq behind',
           row # None =>
              \/ row.tunnel \in ts
              \/ link[k] # None /\ row.tunnel = link[k].tunnel /\ Leaving({row.node}, ts) \subseteq behind',
           NEW n \in Node, n \notin Due'
    PROVE  snapshot'[n] = Render(n)'
<1> USE DEF Inv, TypeOK
<1>1. ts \subseteq pending'.tunnels
  BY DeferAdds
<1>2. \A t \in ts : n \notin NodesOf(t)'
  BY <1>1, DeferredReaches
<1>3. \A l \in Link \ {k} : link'[l] = link[l]
  BY DEF RowsOK
<1>4. link[k] # None => link[k].node # n
  BY <1>2 DEF Leaving, Due
<1>5. \A t \in Tunnel : n \in NodesOf(t) => n \in NodesOf(t)'
  <2> SUFFICES ASSUME NEW t \in Tunnel, NEW l \in LinksOf(t), link[l].node = n PROVE n \in NodesOf(t)'
    BY DEF NodesOf
  <2>1. l # k /\ l \in Link
    BY <1>4 DEF LinksOf
  <2>2. l \in LinksOf(t)' /\ link'[l].node = n
    BY <1>3, <2>1 DEF LinksOf
  <2> QED
    BY <2>2 DEF NodesOf
<1>6. \A t \in ts : n \notin NodesOf(t)
  BY <1>2, <1>5
<1>7. n \notin Due
  BY <1>5, DeferAdds, StillDue DEF TlsTunnels
<1> DEFINE touched == ts \cup (IF link[k] = None THEN {} ELSE {link[k].tunnel})
<1>8. \A t \in Tunnel \ touched : SameTunnel(t)
  <2> SUFFICES ASSUME NEW t \in Tunnel \ touched PROVE SameTunnel(t)
    OBVIOUS
  <2>1. \A l \in Link : link'[l] # link[l] => l \notin LinksOf(t) /\ l \notin LinksOf(t)'
    BY <1>3 DEF LinksOf, RowsOK
  <2> QED
    BY <2>1, TunnelStays
<1>9. \A t \in Tunnel \cap touched : n \notin NodesOf(t) /\ n \notin NodesOf(t)'
  <2> SUFFICES ASSUME NEW t \in Tunnel, link[k] # None, t = link[k].tunnel, t \notin ts
               PROVE  n \notin NodesOf(t) /\ n \notin NodesOf(t)'
    BY <1>2, <1>6
  <2>1. n \notin NodesOf(t)
    BY DEF Due
  <2>2. ASSUME row # None, row.tunnel = t PROVE row.node # n
    BY <1>2, <2>2 DEF Leaving, Due
  <2>3. \A l \in LinksOf(t)' : link'[l].node # n
    <3> SUFFICES ASSUME NEW l \in LinksOf(t)' PROVE link'[l].node # n
      OBVIOUS
    <3>1. l \in Link /\ link'[l] # None /\ link'[l].tunnel = t
      BY DEF LinksOf
    <3>2. CASE l = k
      <4>1. link'[l] = row
        BY <3>2 DEF RowsOK
      <4> QED
        BY <2>2, <3>1, <4>1
    <3>3. CASE l # k
      <4>1. link'[l] = link[l]
        BY <1>3, <3>1, <3>3
      <4> QED
        BY <2>1, <3>1, <4>1 DEF NodesOf, LinksOf
    <3> QED
      BY <3>2, <3>3
  <2> QED
    BY <2>1, <2>3 DEF NodesOf
<1> QED
  BY <1>7, <1>8, <1>9, UntouchedNode

\* Links' rows.
LEMMA LinkWritesSchedule ==
    ASSUME Inv, StaleIsScheduled, Inv',
           (\E w \in staged \cap StagedLink : WriteLink(w)) \/ (\E w \in Removing("link") : DeleteLink(w)),
           NEW n \in Node, n \notin Due'
    PROVE  snapshot'[n] = Render(n)'
<1>1. ASSUME NEW w \in staged \cap StagedLink, WriteLink(w) PROVE snapshot'[n] = Render(n)'
  <2> DEFINE k == w.link
             row == LinkNow(w)
             ts == AffectedByLink(w)
  <2>1. w \in StagedLink /\ (w.create <=> link[k] = None)
    BY <1>1 DEF WriteLink
  <2>2. /\ k \in Link /\ w.saw \in SUBSET Tunnel /\ Named(w) \subseteq Tunnel
        /\ w.create => row.tunnel \in Named(w)
        /\ ~w.create => row.tunnel \in Named(w) \/ row.tunnel = link[k].tunnel
    BY <2>1, LinkEditTypes
  <2>3. ts \in SUBSET Tunnel
    BY <2>2 DEF AffectedByLink
  <2>4. /\ link' = [link EXCEPT ![k] = row] /\ Defer({}, ts, {}, FALSE)
        /\ UNCHANGED <<node, tunnel, rule, user, material, snapshot, overdue>>
        /\ behind \subseteq behind'
    BY <1>1 DEF WriteLink
  <2>5. link[k] # None =>
          /\ Leaving({link[k].node, row.node}, ts) \subseteq behind'
          /\ Overtaken({link[k].tunnel}, ts) \subseteq behind'
    BY <1>1, <2>1 DEF WriteLink, AffectedByLink
  <2> HIDE DEF k, row, ts
  <2>6. link[k] # None => link[k].tunnel \in ts \/ NodesOf(link[k].tunnel) \subseteq behind'
    BY <2>5 DEF Overtaken, NodesOfTunnels
  <2>7. link[k] # None => Leaving({link[k].node}, ts) \subseteq behind' /\ Leaving({row.node}, ts) \subseteq behind'
    BY <2>5 DEF Leaving
  <2>8. row.tunnel \in ts \/ (link[k] # None /\ row.tunnel = link[k].tunnel)
    BY <2>1, <2>2 DEF ts, AffectedByLink
  <2> QED
    BY <2>2, <2>3, <2>4, <2>6, <2>7, <2>8, LinkMoves
<1>2. ASSUME NEW w \in Removing("link"), DeleteLink(w), NEW k, k = w.id PROVE snapshot'[n] = Render(n)'
  <2>1. k \in Link /\ w.saw \in SUBSET Tunnel
    BY <1>2, RemovingTypes
  <2>2. /\ link' = [link EXCEPT ![k] = None] /\ Defer({}, w.saw, {}, FALSE)
        /\ UNCHANGED <<node, tunnel, rule, user, material, snapshot, overdue>>
        /\ behind \subseteq behind'
        /\ link[k] # None => /\ Leaving({link[k].node}, w.saw) \subseteq behind'
                             /\ Overtaken({link[k].tunnel}, w.saw) \subseteq behind'
    BY <1>2 DEF DeleteLink
  <2>3. link[k] # None => link[k].tunnel \in w.saw \/ NodesOf(link[k].tunnel) \subseteq behind'
    BY <2>2 DEF Overtaken, NodesOfTunnels
  <2> QED
    BY <2>1, <2>2, <2>3, LinkMoves
<1> QED
  BY <1>1, <1>2

\* A rule is written and the tunnels `ts` are deferred: a tunnel it was in or comes to is one of
\* them, or the nodes of that tunnel are left behind.
LEMMA RuleMoves ==
    ASSUME Inv, Inv', StaleIsScheduled, NEW k \in Rule, NEW row, rule' = [rule EXCEPT ![k] = row],
           NEW ts \in SUBSET Tunnel, Defer({}, ts, {}, FALSE),
           rule[k] # None =>
              rule[k].tunnel \in ts \cup {None} \/ NodesOf(rule[k].tunnel) \subseteq behind',
           row # None =>
              row.tunnel \in ts \cup {None} \/ (rule[k] # None /\ row.tunnel = rule[k].tunnel),
           UNCHANGED <<node, tunnel, link, user, material, snapshot, overdue>>, behind \subseteq behind',
           NEW n \in Node, n \notin Due'
    PROVE  snapshot'[n] = Render(n)'
<1> USE DEF Inv, TypeOK
<1>1. ts \subseteq pending'.tunnels
  BY DeferAdds
<1>2. \A t : NodesOf(t)' = NodesOf(t)
  BY DEF NodesOf, LinksOf
<1> DEFINE touched == ts \cup (IF rule[k] = None THEN {} ELSE {rule[k].tunnel} \ {None})
<1>3. \A t \in touched : n \notin NodesOf(t) /\ n \notin NodesOf(t)'
  BY <1>1, <1>2, DeferredReaches DEF Due
<1>4. \A r \in Rule : rule[r] # None /\ rule[r].tunnel # None =>
         \/ rule'[r] # None /\ rule'[r].owner = rule[r].owner /\ rule'[r].tunnel = rule[r].tunnel
         \/ n \notin NodesOf(rule[r].tunnel)
  BY <1>3 DEF RowsOK
<1>5. n \notin Due
  BY <1>2, <1>4, DeferAdds, StillDue DEF TlsTunnels
<1>6. \A t \in Tunnel \ touched : SameTunnel(t)
  <2> SUFFICES ASSUME NEW t \in Tunnel \ touched PROVE SameTunnel(t)
    OBVIOUS
  <2>1. \A r \in Rule : rule'[r] # rule[r] => r \notin LiveRules(t) /\ r \notin LiveRules(t)'
    BY NoneAssumption DEF LiveRules, RowsOK
  <2>2. \A l \in Link : link'[l] = link[l]
    OBVIOUS
  <2> QED
    BY <2>1, <2>2, TunnelStays
<1> QED
  BY <1>3, <1>5, <1>6, UntouchedNode

\* Rules' rows.
LEMMA RuleWritesSchedule ==
    ASSUME Inv, StaleIsScheduled, Inv',
           (\E w \in staged \cap StagedRule : WriteRule(w)) \/ (\E w \in Removing("rule") : DeleteRule(w)),
           NEW n \in Node, n \notin Due'
    PROVE  snapshot'[n] = Render(n)'
<1>1. ASSUME NEW w \in staged \cap StagedRule, WriteRule(w) PROVE snapshot'[n] = Render(n)'
  <2> DEFINE k == w.rule
             row == RuleNow(w)
             ts == RuleTunnels(w)
  <2>1. w \in StagedRule /\ (w.create <=> rule[k] = None)
    BY <1>1 DEF WriteRule
  <2>2. /\ k \in Rule /\ w.saw \in SUBSET Tunnel /\ Named(w) \subseteq Tunnel
        /\ w.create => row.tunnel \in Named(w) \cup {None}
        /\ ~w.create => row.tunnel \in Named(w) \cup {None} \/ row.tunnel = rule[k].tunnel
    BY <2>1, RuleEditTypes
  <2>3. ts \in SUBSET Tunnel
    BY <2>2 DEF RuleTunnels
  <2>4. /\ rule' = [rule EXCEPT ![k] = row] /\ Defer({}, ts, {}, FALSE)
        /\ UNCHANGED <<node, tunnel, link, user, material, snapshot, overdue>>
        /\ behind \subseteq behind'
    BY <1>1 DEF WriteRule
  <2>5. rule[k] # None => Overtaken({rule[k].tunnel} \ {None}, ts) \subseteq behind'
    BY <1>1, <2>1 DEF WriteRule, RuleTunnels
  <2> HIDE DEF k, row, ts
  <2>6. rule[k] # None => rule[k].tunnel \in ts \cup {None} \/ NodesOf(rule[k].tunnel) \subseteq behind'
    BY <2>5 DEF Overtaken, NodesOfTunnels
  <2>7. row.tunnel \in ts \cup {None} \/ (rule[k] # None /\ row.tunnel = rule[k].tunnel)
    BY <2>1, <2>2 DEF ts, RuleTunnels
  <2> QED
    BY <2>2, <2>3, <2>4, <2>6, <2>7, RuleMoves
<1>2. ASSUME NEW w \in Removing("rule"), DeleteRule(w), NEW k, k = w.id PROVE snapshot'[n] = Render(n)'
  <2>1. k \in Rule /\ w.saw \in SUBSET Tunnel
    BY <1>2, RemovingTypes
  <2>2. /\ rule' = [rule EXCEPT ![k] = None] /\ Defer({}, w.saw, {}, FALSE)
        /\ UNCHANGED <<node, tunnel, link, user, material, snapshot, overdue>>
        /\ behind \subseteq behind'
        /\ rule[k] # None => Overtaken({rule[k].tunnel} \ {None}, w.saw) \subseteq behind'
    BY <1>2 DEF DeleteRule
  <2>3. rule[k] # None => rule[k].tunnel \in w.saw \cup {None} \/ NodesOf(rule[k].tunnel) \subseteq behind'
    BY <2>2 DEF Overtaken, NodesOfTunnels
  <2> QED
    BY <2>1, <2>2, <2>3, RuleMoves
<1> QED
  BY <1>1, <1>2

\* The allowance of a user changes, or its rules lose their owner: only the tunnels of its rules are
\* rendered differently.
LEMMA UserMoves ==
    ASSUME Inv, Inv', NEW u \in User, NEW status, user' = [user EXCEPT ![u] = status],
           UNCHANGED <<node, tunnel, link, material>>,
           \/ UNCHANGED rule
           \/ rule' = [r \in Rule |-> IF rule[r] # None /\ rule[r].owner = u
                                      THEN [rule[r] EXCEPT !.owner = None] ELSE rule[r]]
    PROVE  \A t \in Tunnel \ TunnelsOfUsers({u}) : SameTunnel(t)
<1> USE DEF Inv, TypeOK
<1> SUFFICES ASSUME NEW t \in Tunnel \ TunnelsOfUsers({u}) PROVE SameTunnel(t)
  OBVIOUS
<1>1. \A r \in Rule : rule[r] # None /\ rule[r].tunnel = t => rule[r].owner # u
  BY NoneAssumption DEF TunnelsOfUsers
<1>2. \A r \in Rule : rule[r] # None /\ rule[r].owner # u => rule'[r] = rule[r]
  OBVIOUS
<1>3. \A r \in Rule : rule[r] = None => rule'[r] = None
  OBVIOUS
<1>4. \A r \in Rule : rule[r] # None => rule'[r].tunnel = rule[r].tunnel
  BY DEF RowsOK, RuleRow
<1>5. LiveRules(t)' = LiveRules(t)
  <2>1. \A r \in Rule : r \in LiveRules(t) => r \in LiveRules(t)'
    <3> SUFFICES ASSUME NEW r \in Rule, r \in LiveRules(t) PROVE r \in LiveRules(t)'
      OBVIOUS
    <3>1. rule[r] # None /\ rule[r].tunnel = t /\ rule'[r] = rule[r] /\ rule[r].owner # u
      BY <1>1, <1>2 DEF LiveRules
    <3>2. rule[r].owner # None => user'[rule[r].owner] = "served"
      BY <3>1 DEF LiveRules, RowsOK, RuleRow
    <3> QED
      BY <3>1, <3>2 DEF LiveRules
  <2>2. \A r \in Rule : r \in LiveRules(t)' => r \in LiveRules(t)
    <3> SUFFICES ASSUME NEW r \in Rule, r \in LiveRules(t)' PROVE r \in LiveRules(t)
      OBVIOUS
    <3>1. rule'[r] # None /\ rule'[r].tunnel = t /\ (rule'[r].owner # None => user'[rule'[r].owner] = "served")
      BY DEF LiveRules
    <3>2. rule[r] # None /\ rule[r].tunnel = t /\ rule'[r] = rule[r] /\ rule[r].owner # u
      BY <1>1, <1>2, <1>3, <1>4, <3>1
    <3>3. rule[r].owner # None => user[rule[r].owner] = "served"
      BY <3>1, <3>2 DEF RowsOK, RuleRow
    <3> QED
      BY <3>2, <3>3 DEF LiveRules
  <2> QED
    BY <2>1, <2>2 DEF LiveRules
<1>6. \A r \in LiveRules(t) : rule'[r] = rule[r]
  BY <1>1, <1>2 DEF LiveRules
<1>7. LinksOf(t)' = LinksOf(t)
  BY DEF LinksOf
<1> QED
  BY <1>5, <1>6, <1>7 DEF SameTunnel

\* Users' rows.
LEMMA UserWritesSchedule ==
    ASSUME Inv, StaleIsScheduled, Inv', NEW u \in User,
           \/ \E status \in {"served", "stopped"} : UpdateUser(u, status)
           \/ AllowanceEnds(u)
           \/ \E w \in Removing("user") : w.id = u /\ DeleteUser(w),
           NEW n \in Node, n \notin Due'
    PROVE  snapshot'[n] = Render(n)'
<1> USE DEF Inv, TypeOK
<1>1. /\ UNCHANGED <<node, tunnel, link, material, snapshot>> /\ behind \subseteq behind'
      /\ overdue \subseteq overdue'
      /\ \E status : user' = [user EXCEPT ![u] = status]
      /\ \/ UNCHANGED rule
         \/ rule' = [r \in Rule |-> IF rule[r] # None /\ rule[r].owner = u
                                    THEN [rule[r] EXCEPT !.owner = None] ELSE rule[r]]
  <2>1. CASE \E status \in {"served", "stopped"} : UpdateUser(u, status)
    BY <2>1 DEF UpdateUser
  <2>2. CASE AllowanceEnds(u)
    BY <2>2 DEF AllowanceEnds
  <2>3. ASSUME NEW w \in Removing("user"), w.id = u, DeleteUser(w)
        PROVE  /\ UNCHANGED <<node, tunnel, link, material, snapshot, overdue>> /\ behind \subseteq behind'
               /\ user' = [user EXCEPT ![u] = "absent"]
               /\ rule' = [r \in Rule |-> IF rule[r] # None /\ rule[r].owner = u
                                          THEN [rule[r] EXCEPT !.owner = None] ELSE rule[r]]
    BY <2>3 DEF DeleteUser
  <2> QED
    BY <2>1, <2>2, <2>3
<1>2. \A t : NodesOf(t)' = NodesOf(t)
  BY <1>1 DEF NodesOf, LinksOf
<1>3. \A t \in Tunnel \ TunnelsOfUsers({u}) : SameTunnel(t)
  BY <1>1, UserMoves
<1>4. \A t \in TunnelsOfUsers({u}) : n \notin NodesOf(t)
  <2> SUFFICES ASSUME NEW t \in TunnelsOfUsers({u}), n \in NodesOf(t) PROVE FALSE
    OBVIOUS
  <2>1. CASE \E status \in {"served", "stopped"} : UpdateUser(u, status)
    <3>1. u \in pending'.users /\ UNCHANGED rule
      BY <2>1, DeferAdds DEF UpdateUser
    <3>2. PICK r \in Rule : rule[r] # None /\ rule[r].owner = u /\ rule[r].tunnel = t /\ t # None
      BY DEF TunnelsOfUsers
    <3>3. Reaches(n)'
      BY <1>2, <3>1, <3>2 DEF Reaches
    <3> QED
      BY <3>3, ScheduledReachesNext DEF Due
  <2>2. CASE AllowanceEnds(u)
    BY <2>2 DEF AllowanceEnds, NodesOfTunnels, Due
  <2>3. ASSUME NEW w \in Removing("user"), w.id = u, DeleteUser(w) PROVE FALSE
    <3>1. CASE t \in w.saw
      <4>1. t \in pending'.tunnels
        BY <2>3, <3>1, RemovingTypes, DeferAdds DEF DeleteUser
      <4> QED
        BY <1>2, <4>1, DeferredReaches
    <3>2. CASE t \notin w.saw
      <4>1. Overtaken(TunnelsOfUsers({u}), w.saw) \subseteq behind'
        BY <2>3 DEF DeleteUser
      <4> QED
        BY <3>2, <4>1 DEF Overtaken, NodesOfTunnels, Due
    <3> QED
      BY <3>1, <3>2
  <2> QED
    BY <2>1, <2>2, <2>3
<1>5. n \notin Due
  <2>1. /\ pending.nodes \subseteq pending'.nodes /\ pending.tunnels \subseteq pending'.tunnels
        /\ pending.users \subseteq pending'.users /\ (pending.tls => pending'.tls)
    BY RemovingTypes, DeferAdds DEF UpdateUser, AllowanceEnds, DeleteUser
  <2>2. \A r \in Rule : rule[r] # None /\ rule[r].tunnel # None =>
           \/ rule'[r] # None /\ rule'[r].owner = rule[r].owner /\ rule'[r].tunnel = rule[r].tunnel
           \/ n \notin NodesOf(rule[r].tunnel)
    <3>1. \A r \in Rule : rule[r] # None /\ rule[r].owner = u /\ rule[r].tunnel # None =>
             rule[r].tunnel \in TunnelsOfUsers({u})
      BY DEF TunnelsOfUsers
    <3> QED
      BY <1>1, <1>4, <3>1 DEF RowsOK
  <2> QED
    BY <1>1, <1>2, <2>1, <2>2, StillDue DEF TlsTunnels
<1> QED
  BY <1>1, <1>2, <1>3, <1>4, <1>5, UntouchedNode

\* Without a TLS tunnel none of a node's services is a side of a TLS link.
LEMMA PlainServices ==
    ASSUME Inv, NEW n \in Node, \A t \in TlsTunnels : n \notin NodesOf(t)
    PROVE  \A s \in ServicesOf(n) : s.tls = "none"
<1> SUFFICES ASSUME NEW s \in ServicesOf(n) PROVE s.tls = "none"
  OBVIOUS
<1>1. PICK t \in TunnelsOf(n) : s \in EntryServices(n, t) \cup ExitServices(n, t)
  BY DEF ServicesOf
<1>2. (\E r : s = EntryService(t, r)) \/ (\E r : s = ExitService(n, t, r))
  BY <1>1 DEF EntryServices, ExitServices
<1>3. tunnel[t] # None
  BY DEF TunnelsOf, NodesOf, LinksOf, Inv, LinksHaveRows
<1>4. ~TlsLink(t)
  BY <1>3 DEF TunnelsOf, TlsTunnels, TlsLink
<1> QED
  BY <1>2, <1>4 DEF EntryService, ExitService, SideOf

\* The material.
LEMMA MaterialSchedules ==
    ASSUME Inv, StaleIsScheduled, Inv', NEW m \in Material, SetMaterial(m), NEW n \in Node, n \notin Due'
    PROVE  snapshot'[n] = Render(n)'
<1>1. /\ UNCHANGED <<node, tunnel, link, rule, user, snapshot, behind, overdue>>
      /\ Defer({}, {}, {}, TRUE)
  BY DEF SetMaterial
<1>2. \A t : NodesOf(t)' = NodesOf(t)
  BY <1>1 DEF NodesOf, LinksOf
<1>3. TlsTunnels' = TlsTunnels
  BY <1>1 DEF TlsTunnels
<1>4. n \notin Due
  BY <1>1, <1>2, <1>3, DeferAdds, StillDue
<1>5. \A t \in TlsTunnels : n \notin NodesOf(t)
  <2>1. pending'.tls
    BY <1>1, DeferAdds
  <2> QED
    BY <1>2, <1>3, <2>1, ScheduledReachesNext DEF Due, Reaches
<1>6. \A s \in ServicesOf(n) : s.tls = "none"
  BY <1>5, PlainServices
<1>7. \A t \in Tunnel : SameTunnel(t) /\ SameExits(n, t)
  BY <1>1, TunnelStays DEF SameExits
<1>8. ServicesOf(n)' = ServicesOf(n)
  <2>1. \A t \in TunnelsOf(n) : t \in Tunnel
    BY DEF TunnelsOf
  <2>2. TunnelsOf(n)' = TunnelsOf(n)
    BY <1>2 DEF TunnelsOf
  <2>3. \A t \in TunnelsOf(n) : Renders(n, t)' = Renders(n, t)
    BY <1>7, <2>1, SameShape DEF Inv, TypeOK
  <2>4. \A t \in TunnelsOf(n) :
          (EntryServices(n, t) \cup ExitServices(n, t))' = EntryServices(n, t) \cup ExitServices(n, t)
    BY <1>1, <1>7, <2>1, SameServices DEF Inv, TypeOK
  <2> QED
    BY <2>2, <2>3, <2>4 DEF ServicesOf
<1>9. Render(n)' = Render(n)
  BY <1>1, <1>6, <1>8 DEF Render
<1> QED
  BY <1>1, <1>4, <1>9, StaysFresh

\* A step that writes no rows renders nothing differently.
LEMMA NothingRendered ==
    ASSUME UNCHANGED <<node, tunnel, link, rule, user, material>>
    PROVE  \A n : Render(n)' = Render(n) /\ NodesOf(n)' = NodesOf(n)
<1>1. \A n : Render(n)' = Render(n)
  BY DEF Render, Degraded, Plain, ServicesOf, EntryServices, ExitServices, EntryService, ExitService,
         HasEntryService, HasExitService, SideOf, ExitTarget, Renders, IsEntry, IsExit, ExitPort,
         AllocatePort, LiveRules, Exits, TlsLink, FirstOut, Before, TunnelsOf, NodesOf, Ins, Outs, LinksOf
<1>2. \A t : NodesOf(t)' = NodesOf(t)
  BY DEF NodesOf, LinksOf
<1> QED
  BY <1>1, <1>2

\* The reads of a write that waits change no row.
Staging ==
    UNCHANGED <<node, tunnel, link, rule, user, material, snapshot, pending, behind, overdue>>

\* What a write does before it is made.
LEMMA StagesOnly ==
    ASSUME \/ \E n \in Node : StageDeleteNode(n)
           \/ \E t \in Tunnel : StageDeleteTunnel(t) \/ \E new \in TunnelRow : StageTunnel(t, new)
           \/ \E l \in Link, new \in LinkRows : StageNewLink(l, new)
           \/ \E l \in Link, new \in LinkRows, given \in LinkPatches : StageLink(l, new, given)
           \/ \E l \in Link : StageDeleteLink(l)
           \/ \E r \in Rule, new \in RuleRows : StageNewRule(r, new)
           \/ \E r \in Rule, new \in RuleRows, given \in RulePatches : StageRule(r, new, given)
           \/ \E r \in Rule : StageDeleteRule(r)
           \/ \E u \in User : StageDeleteUser(u)
           \/ \E w \in staged : DropStaged(w)
    PROVE  Staging
BY DEF Staging, StageDeleteNode, StageDeleteTunnel, StageTunnel, StageNewLink, StageLink, StageDeleteLink,
       StageNewRule, StageRule, StageDeleteRule, StageDeleteUser, StageRemoval, DropStaged

\* The deferred work: it is done, handed on to the nodes it stands for, or, when it fails, left to
\* the next sweep.
LEMMA WorkSchedules ==
    ASSUME Inv, StaleIsScheduled, Inv',
           \/ Staging
           \/ \E u \in User : QuotaSweep(u) \/ ExpandUser(u)
           \/ \E t \in Tunnel : ExpandTunnel(t)
           \/ ExpandTls
           \/ \E ns \in {Node} \cup {{n} : n \in Node} : Sweep(ns)
           \/ \E n \in Node : Recompute(n) \/ RecomputeFails(n)
           \/ UNCHANGED vars,
           NEW n \in Node, n \notin Due'
    PROVE  snapshot'[n] = Render(n)'
<1> USE DEF Inv, TypeOK
<1>1. UNCHANGED <<node, tunnel, link, rule, user, material>>
  BY DEF Staging, QuotaSweep, ExpandUser, ExpandTunnel, ExpandTls, Sweep, Recompute, RecomputeFails, vars
<1>2. /\ Render(n)' = Render(n) /\ \A t : NodesOf(t)' = NodesOf(t)
      /\ TlsTunnels' = TlsTunnels /\ \A us : TunnelsOfUsers(us)' = TunnelsOfUsers(us)
  BY <1>1, NothingRendered DEF TlsTunnels, TunnelsOfUsers
<1>3. ASSUME NEW k \in Node, Recompute(k), n = k PROVE snapshot'[n] = Render(n)'
  BY <1>2, <1>3 DEF Recompute, Shape
<1>4. CASE ~\E k \in Node : Recompute(k) /\ n = k
  <2>1. snapshot'[n] = snapshot[n]
    BY <1>4 DEF Staging, QuotaSweep, ExpandUser, ExpandTunnel, ExpandTls, Sweep, Recompute, RecomputeFails,
                vars, Shape
  <2>2. n \notin Due
    <3>1. CASE UNCHANGED <<pending, behind, overdue>>
      <4>1. Reaches(n)' <=> Reaches(n)
        BY <1>1, <1>2, <3>1 DEF Reaches
      <4> QED
        BY <3>1, <4>1, ScheduledReaches, ScheduledReachesNext DEF Due
    <3>2. ASSUME NEW u \in User, QuotaSweep(u) PROVE n \notin Due
      <4>1. UNCHANGED <<behind, overdue>> /\ Defer({}, {}, {u}, FALSE)
        BY <3>2 DEF QuotaSweep
      <4> QED
        BY <1>1, <1>2, <4>1, DeferAdds, StillDue
    <3>3. ASSUME NEW u \in User, ExpandUser(u) PROVE n \notin Due
      <4>1. /\ pending'.nodes = pending.nodes /\ pending'.users = pending.users \ {u}
            /\ pending'.tunnels = pending.tunnels \cup TunnelsOfUsers({u}) /\ pending'.tls = pending.tls
            /\ UNCHANGED <<behind, overdue>>
        BY <3>3 DEF ExpandUser, Pending
      <4>2. Reaches(n) => Reaches(n)'
        BY <1>1, <1>2, <4>1 DEF Reaches, TunnelsOfUsers
      <4> QED
        BY <4>1, <4>2, ScheduledReaches, ScheduledReachesNext DEF Due
    <3>4. ASSUME NEW t \in Tunnel, ExpandTunnel(t) PROVE n \notin Due
      <4>1. /\ pending'.nodes = pending.nodes \cup NodesOf(t) /\ pending'.users = pending.users
            /\ pending'.tunnels = pending.tunnels \ {t} /\ pending'.tls = pending.tls
            /\ UNCHANGED <<behind, overdue>>
        BY <3>4 DEF ExpandTunnel, Pending
      <4>2. Reaches(n) => Reaches(n)'
        BY <1>1, <1>2, <4>1 DEF Reaches
      <4> QED
        BY <4>1, <4>2, ScheduledReaches, ScheduledReachesNext DEF Due
    <3>5. CASE ExpandTls
      <4>1. /\ pending'.nodes = pending.nodes \cup NodesOfTunnels(TlsTunnels)
            /\ pending'.users = pending.users /\ pending'.tunnels = pending.tunnels
            /\ UNCHANGED <<behind, overdue>>
        BY <3>5 DEF ExpandTls, Pending
      <4>2. Reaches(n) => Reaches(n)'
        BY <1>1, <1>2, <4>1 DEF Reaches, NodesOfTunnels
      <4> QED
        BY <4>1, <4>2, ScheduledReaches, ScheduledReachesNext DEF Due
    <3>6. ASSUME NEW ns, Sweep(ns) PROVE n \notin Due
      <4>1. /\ pending'.nodes = pending.nodes \cup ns /\ pending'.users = pending.users
            /\ pending'.tunnels = pending.tunnels /\ pending'.tls = pending.tls
            /\ UNCHANGED <<behind, overdue>>
        BY <3>6 DEF Sweep, Pending
      <4>2. Reaches(n) => Reaches(n)'
        BY <1>1, <1>2, <4>1 DEF Reaches
      <4> QED
        BY <4>1, <4>2, ScheduledReaches, ScheduledReachesNext DEF Due
    <3>7. ASSUME NEW k \in Node, Recompute(k) \/ RecomputeFails(k) PROVE n \notin Due
      <4>1. /\ pending'.nodes = pending.nodes \ {k} /\ pending'.users = pending.users
            /\ pending'.tunnels = pending.tunnels /\ pending'.tls = pending.tls
            /\ behind \ {k} \subseteq behind' /\ overdue \ {k} \subseteq overdue'
        BY <3>7 DEF Recompute, RecomputeFails, Pending
      <4>2. n # k
        BY <1>4, <3>7 DEF RecomputeFails, Due
      <4>3. Reaches(n) => Reaches(n)'
        BY <1>1, <1>2, <4>1, <4>2 DEF Reaches
      <4> QED
        BY <4>1, <4>2, <4>3, ScheduledReaches, ScheduledReachesNext DEF Due
    <3> QED
      BY <3>1, <3>2, <3>3, <3>4, <3>5, <3>6, <3>7 DEF Staging, vars
  <2> QED
    BY <1>2, <2>1, <2>2, StaysFresh
<1> QED
  BY <1>3, <1>4

\* Every step keeps the stale snapshots scheduled.
LEMMA NextStaleIsScheduled == Inv /\ StaleIsScheduled /\ [Next]_vars /\ Inv' => StaleIsScheduled'
<1> SUFFICES ASSUME Inv, StaleIsScheduled, [Next]_vars, Inv', NEW n \in Node, n \notin Due'
             PROVE  snapshot'[n] = Render(n)'
  BY DEF StaleIsScheduled, Due
<1>1. CASE \/ \E k \in Node, new \in NodeRows : CreateNode(k, new)
           \/ \E k \in Node, new \in NodeRows : UpdateNode(k, new)
           \/ \E w \in Removing("node") : DeleteNode(w)
  BY <1>1, NodeWritesSchedule
<1>2. CASE \/ \E t \in Tunnel, new \in TunnelRow : CreateTunnel(t, new)
           \/ \E w \in staged \cap StagedTunnel : UpdateTunnel(w)
           \/ \E w \in Removing("tunnel") : DeleteTunnel(w)
  BY <1>2, TunnelWritesSchedule
<1>3. CASE \/ \E w \in staged \cap StagedLink : WriteLink(w)
           \/ \E w \in Removing("link") : DeleteLink(w)
  BY <1>3, LinkWritesSchedule
<1>4. CASE \/ \E w \in staged \cap StagedRule : WriteRule(w)
           \/ \E w \in Removing("rule") : DeleteRule(w)
  BY <1>4, RuleWritesSchedule
<1>5. CASE \/ \E u \in User, status \in {"served", "stopped"} : UpdateUser(u, status)
           \/ \E u \in User : AllowanceEnds(u)
  BY <1>5, UserWritesSchedule
<1>6. ASSUME NEW w \in Removing("user"), DeleteUser(w) PROVE snapshot'[n] = Render(n)'
  <2>1. w.id \in User
    BY <1>6, RemovingTypes
  <2> QED
    BY <1>6, <2>1, UserWritesSchedule
<1>7. CASE \E m \in Material : SetMaterial(m)
  BY <1>7, MaterialSchedules
<1> QED
  BY <1>1, <1>2, <1>3, <1>4, <1>5, <1>6, <1>7, StagesOnly, WorkSchedules DEF Next

-----------------------------------------------------------------------------
(* The theorems.                                                           *)

LEMMA Invariance == Spec => [](Inv /\ StaleIsScheduled)
<1>1. Init => Inv /\ StaleIsScheduled
  BY InitInv
<1>2. Inv /\ StaleIsScheduled /\ [Next]_vars => (Inv /\ StaleIsScheduled)'
  BY NextInv, NextStaleIsScheduled
<1> QED
  BY <1>1, <1>2, PTL DEF Spec

\* The rows have their types whatever is written in whatever order, no more writes wait between
\* check and write than are let in, and no snapshot is kept of a node that is gone (admin.ts).
THEOREM PanelTypes == Spec => []TypeOK
<1>1. Inv => TypeOK
  BY DEF Inv
<1> QED
  BY <1>1, Invariance, PTL

\* Wherever an entry node sends the connections of a rule, the exit node listens for them, on the
\* other side of TLS exactly if it must: for every set of rows an operator can reach, with any
\* number of tunnels, links, exits and rules (repo.ts, buildRealmNodeConfig).
THEOREM BothEndsAgree == Spec => []LegsMeet
<1>1. Inv => LegsMeet
  BY RowsMeet DEF Inv, TypeOK
<1> QED
  BY <1>1, Invariance, PTL

\* A stale snapshot is one that deferred work will recompute, or whose node waits for a sweep: it left
\* a tunnel, dials an edited exit, is in a tunnel that a write overtaken since its reads knew nothing
\* of, or its last recomputation failed.  No other interleaving of the routes' reads, their writes and
\* the deferred work loses a node (admin.ts, recompute.ts).
THEOREM StaleIsDue == Spec => []StaleIsScheduled
<1> QED
  BY Invariance, PTL

\* What the nodes are really sent agrees at the two ends of a link, for nodes that nothing is due for.
THEOREM StoredEndsAgree == Spec => []StoredLegsMeet
<1>1. Inv /\ StaleIsScheduled => StoredLegsMeet
  <2> SUFFICES ASSUME Inv, StaleIsScheduled,
                      NEW t \in Tunnel, NEW n \in Node, Renders(n, t), node[n] # None, IsEntry(n, t),
                      NEW r \in LiveRules(t), NEW l \in Exits(t), rule[r].target # Unparsable,
                      {n, link[l].node} \cap Due = {},
                      NEW s \in snapshot[n].services, s.rule = r, ExitTarget(r, l) \in s.to
               PROVE  \E x \in snapshot[link[l].node].services :
                         /\ x.rule = r /\ x.port = ExitPort(r, link[l].node)
                         /\ (s.tls = "connect") <=> (x.tls = "listen")
    BY DEF StoredLegsMeet, Due
  <2>1. link[l].node \in Node
    BY ExitsAreOuts, LinkTypes DEF Inv, TypeOK, Outs
  <2>2. snapshot[n] = Render(n) /\ snapshot[link[l].node] = Render(link[l].node)
    BY <2>1 DEF StaleIsScheduled, Due
  <2>3. LegsMeet
    BY RowsMeet DEF Inv, TypeOK
  <2> QED
    BY <2>2, <2>3 DEF LegsMeet
<1> QED
  BY <1>1, Invariance, PTL
=============================================================================
