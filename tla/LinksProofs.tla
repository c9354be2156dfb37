---------------------------- MODULE LinksProofs ----------------------------
(***************************************************************************)
(* What the steps of the link stack keep, one by one, for tables of any    *)
(* size: every C object is in a table, no two tunnels go to one router.    *)
(* UserApiProofs puts them in the order the runtime calls them in.  And    *)
(* what the pure functions of device access accept and send.               *)
(***************************************************************************)
EXTENDS Links, SequenceTheorems, FiniteSetTheorems, TLAPS

-----------------------------------------------------------------------------
(***************************************************************************)
(* The bus: no device, or one with both of its BARs mapped or neither.     *)
(***************************************************************************)
IsDevice(d) ==
  /\ d = [tunnel |-> d.tunnel, mapped |-> d.mapped, enabled |-> d.enabled]
  /\ d.mapped \in {{}, {0, 1}}

OnBus(bus) == bus = <<>> \/ \E d : IsDevice(d) /\ bus = <<d>>

LEMMA TwoBars == Cardinality({}) = 0 /\ Cardinality({0, 1}) = 2
<1>1. {0, 1} = {0} \cup {1}
  OBVIOUS
<1>2. IsFiniteSet({0}) /\ Cardinality({0}) = 1
  BY FS_Singleton
<1>3. Cardinality({0} \cup {1}) = 1 + 1
  BY <1>2, FS_AddElement
<1> QED
  BY <1>1, <1>3, FS_EmptySet

LEMMA EmptyBus == BusObjects(<<>>) = 0
<1> DEFINE E(g) == g = [i \in 0 .. Len(<<>>) |->
             IF i = 0 THEN 0 ELSE g[i - 1] + 1 + Cardinality(<<>>[i].mapped)]
           upTo == CHOOSE g : E(g)
<1>1. Len(<<>>) = 0 /\ 0 .. Len(<<>>) = {0}
  BY EmptySeq
<1>2. E([i \in {0} |-> 0])
  BY <1>1
<1>3. E(upTo)
  BY <1>2
<1>4. BusObjects(<<>>) = upTo[Len(<<>>)]
  BY DEF BusObjects
<1> HIDE DEF upTo
<1> QED
  BY <1>1, <1>3, <1>4

LEMMA BusOfOne ==
  ASSUME NEW d, Cardinality(d.mapped) \in Nat
  PROVE  BusObjects(<<d>>) = 1 + Cardinality(d.mapped)
<1> DEFINE s == <<d>>
           E(g) == g = [i \in 0 .. Len(s) |->
             IF i = 0 THEN 0 ELSE g[i - 1] + 1 + Cardinality(s[i].mapped)]
           upTo == CHOOSE g : E(g)
           f == [i \in {0, 1} |-> IF i = 0 THEN 0 ELSE 1 + Cardinality(d.mapped)]
<1>1. Len(s) = 1 /\ s[1] = d /\ 0 .. Len(s) = {0, 1}
  OBVIOUS
<1>2. BusObjects(s) = upTo[Len(s)]
  BY DEF BusObjects
<1> HIDE DEF s
<1>3. E(f)
  BY <1>1
<1>4. E(upTo)
  BY <1>3
<1> HIDE DEF upTo
<1>5. upTo[0] = 0 /\ upTo[1] = upTo[0] + 1 + Cardinality(s[1].mapped)
  BY <1>1, <1>4
<1> QED
  BY <1>1, <1>2, <1>5 DEF s

LEMMA BusCount ==
  ASSUME NEW bus, OnBus(bus)
  PROVE  /\ BusObjects(bus) \in Nat
         /\ \A d : IsDevice(d) /\ bus = <<d>> => BusObjects(bus) = 1 + Cardinality(d.mapped)
<1>1. ASSUME NEW d, IsDevice(d)
      PROVE  Cardinality(d.mapped) \in Nat /\ BusObjects(<<d>>) = 1 + Cardinality(d.mapped)
  <2>1. Cardinality(d.mapped) \in Nat
    BY <1>1, TwoBars DEF IsDevice
  <2> QED
    BY <2>1, BusOfOne
<1>2. CASE bus = <<>>
  <2>1. \A d : bus # <<d>>
    BY <1>2
  <2> QED
    BY <1>2, <2>1, EmptyBus
<1>3. CASE \E d : IsDevice(d) /\ bus = <<d>>
  BY <1>1, <1>3
<1> QED
  BY <1>2, <1>3 DEF OnBus

-----------------------------------------------------------------------------
(***************************************************************************)
(* The steps of the controller and of the bus.                             *)
(***************************************************************************)
Distinct(s) == \A i, j \in 1 .. Len(s) : s[i] = s[j] => i = j

RoutesInv ==
  /\ routers \in Seq(1 .. MaxRouters) /\ tunnels \in Seq(1 .. MaxRouters)
  /\ Range(tunnels) \subseteq Range(routers)
  /\ Distinct(tunnels) /\ Len(tunnels) <= MaxTunnels

Behind == usb4_up => \A i \in DOMAIN devices : devices[i].tunnel \in Range(tunnels)

LinksInv ==
  /\ usb4_up \in BOOLEAN /\ RoutesInv /\ OnBus(devices) /\ Behind
  /\ objects \in Nat /\ ObjectsInTables

NoLinks == routers = <<>> /\ tunnels = <<>> /\ devices = <<>>

LEMMA EmptyTables ==
  /\ Len(<<>>) = 0 /\ DOMAIN <<>> = {} /\ Range(<<>>) = {}
  /\ <<>> \in Seq(1 .. MaxRouters) /\ Distinct(<<>>) /\ OnBus(<<>>) /\ 0 <= MaxTunnels
BY EmptySeq, LinkAssumption DEF Range, Distinct, OnBus

LEMMA LinksInitially == LinksStart => LinksInv /\ NoLinks
<1> SUFFICES ASSUME LinksStart PROVE LinksInv /\ NoLinks
  OBVIOUS
<1>1. RoutesInv /\ OnBus(devices) /\ Behind
  BY EmptyTables DEF LinksStart, RoutesInv, Behind
<1>2. ObjectsInTables
  BY EmptyTables, EmptyBus DEF LinksStart, ObjectsInTables
<1> QED
  BY <1>1, <1>2 DEF LinksStart, LinksInv, NoLinks

LEMMA ControllerInitLinks ==
  ASSUME LinksInv, NoLinks, ControllerInit \/ ControllerInitFails
  PROVE  LinksInv' /\ NoLinks' /\ objects = 0 /\ objects' = 0
<1>1. /\ routers' = <<>> /\ tunnels' = <<>> /\ devices' = <<>> /\ objects' = objects
      /\ usb4_up' \in BOOLEAN
  BY DEF ControllerInit, ControllerInitFails, NoLinks
<1>2. objects = 0
  BY EmptyTables, EmptyBus DEF LinksInv, ObjectsInTables, NoLinks
<1>3. RoutesInv' /\ OnBus(devices') /\ Behind'
  BY <1>1, EmptyTables DEF RoutesInv, Behind
<1>4. ObjectsInTables'
  BY <1>1, <1>2, EmptyTables, EmptyBus DEF ObjectsInTables
<1> QED
  BY <1>1, <1>2, <1>3, <1>4 DEF LinksInv, NoLinks

LEMMA ScanRoutersLinks ==
  ASSUME LinksInv, NoLinks, ScanRouters
  PROVE  LinksInv' /\ tunnels' = <<>> /\ devices' = <<>> /\ usb4_up' = usb4_up
<1>1. PICK n \in 0 .. MaxRouters : /\ routers' = [i \in 1 .. n |-> i]
                                   /\ objects' = objects + 2 * n
  BY DEF ScanRouters
<1>2. tunnels' = <<>> /\ devices' = <<>> /\ usb4_up' = usb4_up
  BY DEF ScanRouters, NoLinks
<1>3. objects = 0
  BY EmptyTables, EmptyBus DEF LinksInv, ObjectsInTables, NoLinks
<1>4. n \in Nat /\ n <= MaxRouters /\ MaxRouters \in Nat
  BY LinkAssumption
<1>5. routers' \in Seq(1 .. MaxRouters) /\ Len(routers') = n
  BY <1>1, <1>4
<1>6. RoutesInv' /\ OnBus(devices') /\ Behind'
  BY <1>2, <1>5, EmptyTables DEF RoutesInv, Behind
<1>7. ObjectsInTables' /\ objects' \in Nat
  BY <1>1, <1>2, <1>3, <1>4, <1>5, EmptyTables, EmptyBus DEF ObjectsInTables
<1> QED
  BY <1>2, <1>6, <1>7 DEF LinksInv

LEMMA CreateTunnelLinks ==
  ASSUME LinksInv, devices = <<>>, NEW i \in 1 .. Len(routers),
         CreateTunnel(routers[i]) \/ CreateTunnelFails(routers[i])
  PROVE  LinksInv' /\ devices' = <<>> /\ UNCHANGED <<usb4_up, routers>>
<1> DEFINE r == routers[i]
<1>1. CASE CreateTunnelFails(r)
  <2>1. UNCHANGED linkVars
    BY <1>1 DEF CreateTunnelFails
  <2> QED
    BY <2>1 DEF linkVars, LinksInv, RoutesInv, Behind, ObjectsInTables
<1>2. CASE CreateTunnel(r)
  <2>1. /\ tunnels' = Append(tunnels, r) /\ objects' = objects + 3
        /\ UNCHANGED <<usb4_up, routers, devices>>
        /\ r \notin Range(tunnels) /\ r \in Range(routers) /\ ~ (Len(tunnels) >= MaxTunnels)
    BY <1>2 DEF CreateTunnel, TunnelRefused
  <2>2. /\ tunnels \in Seq(1 .. MaxRouters) /\ r \in 1 .. MaxRouters
        /\ Len(tunnels) \in Nat /\ MaxTunnels \in Nat /\ DOMAIN tunnels = 1 .. Len(tunnels)
        /\ Len(routers) \in Nat /\ objects \in Nat
    BY LenProperties, ElementOfSeq, LinkAssumption DEF LinksInv, RoutesInv
  <2> DEFINE t == Append(tunnels, r)
             n == Len(tunnels)
  <2>3. /\ t \in Seq(1 .. MaxRouters) /\ Len(t) = n + 1 /\ t[n + 1] = r
        /\ \A j \in 1 .. n : t[j] = tunnels[j]
    BY <2>2, AppendProperties
  <2>4. DOMAIN t = 1 .. n + 1 /\ 1 .. n + 1 = 1 .. n \cup {n + 1}
    BY <2>2, <2>3, LenProperties
  <2> HIDE DEF t, r
  <2>5. \A j \in 1 .. n : tunnels[j] \in Range(tunnels)
    BY <2>2 DEF Range
  <2>6. Distinct(t)
    <3>1. \A j, k \in 1 .. n : tunnels[j] = tunnels[k] => j = k
      BY DEF LinksInv, RoutesInv, Distinct
    <3>2. ASSUME NEW j \in 1 .. n + 1, NEW k \in 1 .. n + 1, t[j] = t[k]
          PROVE  j = k
      <4>1. j \in 1 .. n \/ j = n + 1
        BY <2>4
      <4>2. k \in 1 .. n \/ k = n + 1
        BY <2>4
      <4> QED
        BY <2>1, <2>3, <2>5, <3>1, <3>2, <4>1, <4>2
    <3> QED
      BY <2>3, <3>2 DEF Distinct
  <2>7. Range(t) = Range(tunnels) \cup {r}
    BY <2>2, <2>3, <2>4 DEF Range
  <2>8. tunnels' = t
    BY <2>1 DEF t
  <2>9. RoutesInv'
    BY <2>1, <2>2, <2>3, <2>6, <2>7, <2>8 DEF RoutesInv, LinksInv
  <2>10. Behind' /\ OnBus(devices')
    BY <2>1, EmptyTables DEF Behind
  <2>11. ObjectsInTables' /\ objects' \in Nat
    <3>1. /\ objects = 3 * Len(tunnels) + 2 * Len(routers) + BusObjects(devices)
          /\ objects' = objects + 3 /\ devices' = devices /\ routers' = routers
      BY <2>1 DEF ObjectsInTables, LinksInv
    <3>2. Len(tunnels') = Len(tunnels) + 1
      BY <2>3, <2>8
    <3>3. BusObjects(devices) \in Nat
      BY BusCount DEF LinksInv
    <3> DEFINE bus == BusObjects(devices)
               R == Len(routers)
               L == Len(tunnels)
    <3>4. objects + 3 = 3 * (L + 1) + 2 * R + bus
      <4>1. objects = 3 * L + 2 * R + bus /\ L \in Int /\ R \in Int /\ bus \in Int
        BY <2>2, <3>1, <3>3
      <4> HIDE DEF bus, R, L
      <4> QED
        BY <4>1
    <3> QED
      BY <2>2, <3>1, <3>2, <3>4 DEF ObjectsInTables
  <2> QED
    BY <2>1, <2>9, <2>10, <2>11 DEF LinksInv
<1> QED
  BY <1>1, <1>2

LEMMA ControllerShutdownLinks ==
  ASSUME LinksInv, ControllerShutdown
  PROVE  /\ LinksInv' /\ routers' = <<>> /\ tunnels' = <<>> /\ ~ usb4_up'
         /\ UNCHANGED devices
<1>1. /\ objects' = objects - 3 * Len(tunnels) - 2 * Len(routers)
      /\ ~ usb4_up' /\ usb4_up' \in BOOLEAN
      /\ routers' = <<>> /\ tunnels' = <<>> /\ UNCHANGED devices
  BY DEF ControllerShutdown
<1>2. Len(tunnels) \in Nat /\ Len(routers) \in Nat /\ BusObjects(devices) \in Nat
  BY LenProperties, BusCount DEF LinksInv, RoutesInv
<1>3. RoutesInv' /\ Behind' /\ OnBus(devices')
  BY <1>1, EmptyTables DEF RoutesInv, Behind, LinksInv
<1>4. ObjectsInTables' /\ objects' \in Nat
  BY <1>1, <1>2, EmptyTables DEF ObjectsInTables, LinksInv
<1> QED
  BY <1>1, <1>3, <1>4 DEF LinksInv

\* A step that leaves the tables of the controller alone.
BusStep(bus, n) == devices' = bus /\ objects' = n /\ UNCHANGED <<usb4_up, routers, tunnels>>

LEMMA BusStepLinks ==
  ASSUME LinksInv, NEW bus, NEW n \in Int, BusStep(bus, n), OnBus(bus),
         n - BusObjects(bus) = objects - BusObjects(devices),
         usb4_up => \A i \in DOMAIN bus : bus[i].tunnel \in Range(tunnels)
  PROVE  LinksInv'
<1>1. Len(tunnels) \in Nat /\ Len(routers) \in Nat
  BY LenProperties DEF LinksInv, RoutesInv
<1>2. BusObjects(devices) \in Nat /\ BusObjects(bus) \in Nat
  BY BusCount DEF LinksInv
<1>3. n = 3 * Len(tunnels) + 2 * Len(routers) + BusObjects(bus) /\ n \in Nat
  BY <1>1, <1>2 DEF LinksInv, ObjectsInTables
<1> QED
  BY <1>3 DEF BusStep, LinksInv, RoutesInv, Behind, ObjectsInTables

LEMMA ScanBusLinks ==
  ASSUME LinksInv, devices = <<>>, ScanBus
  PROVE  LinksInv'
<1>1. CASE UNCHANGED <<devices, objects>>
  BY <1>1, BusStepLinks
     DEF ScanBus, BusStep, LinksInv, Behind, RoutesInv, ObjectsInTables
<1>2. CASE /\ tunnels # <<>>
           /\ devices' = Append(devices, [tunnel |-> Head(tunnels), mapped |-> {},
                                          enabled |-> FALSE])
           /\ objects' = objects + 1
  <2> DEFINE d == [tunnel |-> Head(tunnels), mapped |-> {}, enabled |-> FALSE]
  <2>1. devices' = <<d>> /\ objects \in Nat /\ IsDevice(d)
    BY <1>2 DEF LinksInv, IsDevice
  <2>2. d.tunnel \in Range(tunnels)
    <3>1. /\ tunnels \in Seq(1 .. MaxRouters) /\ Len(tunnels) \in Nat
          /\ DOMAIN tunnels = 1 .. Len(tunnels)
      BY LenProperties DEF LinksInv, RoutesInv
    <3>2. Len(tunnels) # 0
      BY <1>2, <3>1, EmptySeq
    <3>3. Head(tunnels) = tunnels[1] /\ 1 \in DOMAIN tunnels
      BY <3>1, <3>2
    <3> QED
      BY <3>3 DEF Range
  <2> HIDE DEF d
  <2>3. OnBus(<<d>>) /\ BusObjects(<<d>>) = 1 + Cardinality(d.mapped)
    BY <2>1, BusCount DEF OnBus
  <2>4. BusObjects(<<d>>) = 1 /\ BusObjects(devices) = 0
    BY <2>1, <2>3, TwoBars, EmptyBus DEF d
  <2>5. \A i \in DOMAIN <<d>> : <<d>>[i].tunnel \in Range(tunnels)
    BY <2>2
  <2>6. BusStep(<<d>>, objects + 1)
    BY <1>2, <2>1 DEF BusStep, ScanBus
  <2> QED
    BY <2>1, <2>3, <2>4, <2>5, <2>6, BusStepLinks
<1> QED
  BY <1>1, <1>2 DEF ScanBus

LEMMA AttachLinks ==
  ASSUME LinksInv, devices # <<>>, AttachDevice(1)
  PROVE  LinksInv' /\ devices' # <<>> /\ devices'[1].mapped = {0, 1}
<1>1. PICK d : IsDevice(d) /\ devices = <<d>>
  BY DEF LinksInv, OnBus
<1> DEFINE e == [tunnel |-> d.tunnel, mapped |-> {0, 1}, enabled |-> TRUE]
<1>2. e.mapped = {0, 1} /\ e.tunnel = d.tunnel /\ IsDevice(e)
  BY <1>1 DEF IsDevice
<1>3. d.mapped \cup {0, 1} = {0, 1} /\ devices[1] = d
  BY <1>1 DEF IsDevice
<1>4. devices' = <<e>>
  <2>1. [tunnel |-> devices[1].tunnel, mapped |-> devices[1].mapped \cup {0, 1},
         enabled |-> TRUE] = e
    BY <1>3
  <2>2. devices' = [devices EXCEPT ![1] = e]
    BY <2>1 DEF AttachDevice
  <2> HIDE DEF e
  <2> QED
    BY <1>1, <2>2
<1>5. objects' = objects + Cardinality({0, 1} \ d.mapped)
  BY <1>3 DEF AttachDevice
<1>6. Cardinality({0, 1} \ d.mapped) = 2 - Cardinality(d.mapped) /\ Cardinality(d.mapped) \in Nat
  <2>1. CASE d.mapped = {}
    BY <2>1, TwoBars
  <2>2. CASE d.mapped = {0, 1}
    <3> DEFINE rest == {0, 1} \ d.mapped
    <3>1. rest = {}
      BY <2>2
    <3> HIDE DEF rest
    <3>2. Cardinality(rest) = 0 /\ Cardinality(d.mapped) = 2
      BY <2>2, <3>1, TwoBars
    <3>3. Cardinality(rest) = 2 - Cardinality(d.mapped)
      BY <3>2
    <3> QED
      BY <3>2, <3>3 DEF rest
  <2> QED
    BY <1>1, <2>1, <2>2 DEF IsDevice
<1> HIDE DEF e
<1>7. /\ BusObjects(devices) = 1 + Cardinality(d.mapped)
      /\ OnBus(<<e>>) /\ BusObjects(<<e>>) = 3
  <2>1. OnBus(<<e>>) /\ BusObjects(<<e>>) = 1 + Cardinality(e.mapped)
    BY <1>2, BusCount DEF OnBus
  <2>2. BusObjects(devices) = 1 + Cardinality(d.mapped)
    BY <1>1, BusCount DEF LinksInv
  <2> QED
    BY <1>2, <2>1, <2>2, TwoBars
<1>8. usb4_up => \A i \in DOMAIN <<e>> : <<e>>[i].tunnel \in Range(tunnels)
  BY <1>1, <1>2 DEF LinksInv, Behind
<1>9. BusStep(<<e>>, objects') /\ objects \in Nat
  BY <1>4 DEF BusStep, AttachDevice, LinksInv
<1>10. LinksInv'
  <2>1. objects' \in Int /\ objects' - 3 = objects - BusObjects(devices)
    BY <1>5, <1>6, <1>7, <1>9
  <2> QED
    BY <1>7, <1>8, <1>9, <2>1, BusStepLinks
<1> QED
  BY <1>2, <1>4, <1>10

LEMMA DetachLinks ==
  ASSUME LinksInv, devices # <<>>, DetachDevice(1)
  PROVE  LinksInv'
<1>1. PICK d : IsDevice(d) /\ devices = <<d>>
  BY DEF LinksInv, OnBus
<1> DEFINE e == [d EXCEPT !.mapped = {}]
<1>2. e.mapped = {} /\ e.tunnel = d.tunnel /\ IsDevice(e)
  BY <1>1 DEF IsDevice
<1>3. d.mapped \ {0, 1} = {} /\ d.mapped \cap {0, 1} = d.mapped /\ devices[1] = d
  BY <1>1 DEF IsDevice
<1>4. devices' = <<e>>
  BY <1>1, <1>3 DEF DetachDevice
<1>5. objects' = objects - Cardinality(d.mapped)
  BY <1>3 DEF DetachDevice
<1>6. Cardinality(d.mapped) \in Nat
  BY <1>1, TwoBars DEF IsDevice
<1> HIDE DEF e
<1>7. /\ BusObjects(devices) = 1 + Cardinality(d.mapped)
      /\ OnBus(<<e>>) /\ BusObjects(<<e>>) = 1
  <2>1. OnBus(<<e>>) /\ BusObjects(<<e>>) = 1 + Cardinality(e.mapped)
    BY <1>2, BusCount DEF OnBus
  <2>2. BusObjects(devices) = 1 + Cardinality(d.mapped)
    BY <1>1, BusCount DEF LinksInv
  <2> QED
    BY <1>2, <2>1, <2>2, TwoBars
<1>8. usb4_up => \A i \in DOMAIN <<e>> : <<e>>[i].tunnel \in Range(tunnels)
  BY <1>1, <1>2 DEF LinksInv, Behind
<1>9. BusStep(<<e>>, objects') /\ objects \in Nat
  BY <1>4 DEF BusStep, DetachDevice, LinksInv
<1>10. objects' \in Int /\ objects' - 1 = objects - BusObjects(devices)
  BY <1>5, <1>6, <1>7, <1>9
<1> QED
  BY <1>7, <1>8, <1>9, <1>10, BusStepLinks

LEMMA PcieInitLinks ==
  ASSUME LinksInv, devices = <<>>, PcieInit
  PROVE  LinksInv' /\ devices' = <<>> /\ UNCHANGED <<usb4_up, routers, tunnels>>
BY DEF PcieInit, LinksInv, RoutesInv, Behind, ObjectsInTables

LEMMA PcieShutdownLinks ==
  ASSUME LinksInv, PcieShutdown
  PROVE  LinksInv' /\ devices' = <<>> /\ UNCHANGED <<usb4_up, routers, tunnels>>
<1>1. /\ BusStep(<<>>, objects') /\ objects' = objects - BusObjects(devices)
      /\ objects \in Nat
  BY DEF PcieShutdown, BusStep, LinksInv
<1>2. OnBus(<<>>) /\ BusObjects(<<>>) = 0 /\ BusObjects(devices) \in Nat /\ DOMAIN <<>> = {}
  BY EmptyBus, EmptyTables, BusCount DEF LinksInv
<1>3. objects' \in Int /\ objects' - 0 = objects - BusObjects(devices)
  BY <1>1, <1>2
<1> QED
  BY <1>1, <1>2, <1>3, BusStepLinks DEF BusStep

\* When the tables are empty, there is no C object.
LEMMA NothingLeft ==
  ASSUME LinksInv, NoLinks
  PROVE  objects = 0
BY EmptyTables, EmptyBus DEF LinksInv, ObjectsInTables, NoLinks

-----------------------------------------------------------------------------
(***************************************************************************)
(* Arithmetic of packets.                                                  *)
(***************************************************************************)
LEMMA TimesMono ==
  ASSUME NEW a \in Int, NEW b \in Int, NEW c \in Nat, a <= b
  PROVE  a * c <= b * c /\ a * c \in Int /\ b * c \in Int
<1>1. (b - a) \in Nat /\ (b - a) * c \in Nat
  OBVIOUS
<1>2. (b - a) * c = b * c - a * c
  OBVIOUS
<1> QED
  BY <1>1, <1>2

LEMMA Quotient ==
  ASSUME NEW a \in Nat, NEW d \in Nat, d > 0
  PROVE  /\ a \div d \in Nat /\ a % d \in 0 .. (d - 1)
         /\ a = (a \div d) * d + (a % d)
OBVIOUS

LEMMA ModOnce ==
  ASSUME NEW w \in Nat, w > 0, NEW a \in Nat
  PROVE  /\ a < w => a % w = a
         /\ a >= w /\ a < w + w => a % w = a - w
OBVIOUS

\* Numbers that leave the same rest differ by a multiple.
LEMMA SameRest ==
  ASSUME NEW w \in Nat, w > 0, NEW a \in Nat, NEW b \in Nat, a % w = b % w
  PROVE  (a - b) % w = 0
<1>1. a = (a \div w) * w + (a % w) /\ b = (b \div w) * w + (b % w)
  BY Quotient
<1> DEFINE k == a \div w - b \div w
<1>2. k \in Int /\ a - b = k * w
  BY <1>1, Quotient
<1> HIDE DEF k
<1>3. (k * w) % w = 0
  BY <1>2
<1> QED
  BY <1>2, <1>3

\* How many packets a transfer takes, and where the last one starts.
LEMMA PacketCount ==
  ASSUME NEW size \in Nat, size > 0
  PROVE  LET n == (size + MaxPayload - 1) \div MaxPayload
         IN  /\ n \in Nat /\ n >= 1 /\ (n - 1) * MaxPayload < size
             /\ size <= n * MaxPayload
<1>1. MaxPayload \in Nat /\ MaxPayload > 0
  BY LinkAssumption
<1> DEFINE a == size + MaxPayload - 1
           n == a \div MaxPayload
<1>2. a \in Nat /\ a >= MaxPayload
  BY <1>1
<1>3. n \in Nat /\ a % MaxPayload \in 0 .. (MaxPayload - 1) /\ a = n * MaxPayload + (a % MaxPayload)
  BY <1>1, <1>2, Quotient
<1>4. n >= 1
  BY <1>1, <1>2, <1>3
<1>5. (n - 1) * MaxPayload = n * MaxPayload - MaxPayload
  BY <1>1, <1>3
<1> DEFINE m == n * MaxPayload
           r == a % MaxPayload
<1>6. m \in Int
  BY <1>1, <1>3
<1>7. a = m + r /\ r \in 0 .. (MaxPayload - 1) /\ (n - 1) * MaxPayload = m - MaxPayload
  <2> HIDE DEF a, n
  <2> QED
    BY <1>3, <1>5
<1> HIDE DEF m, r
<1>8. m - MaxPayload < size /\ size <= m
  BY <1>1, <1>6, <1>7
<1> QED
  BY <1>3, <1>4, <1>7, <1>8 DEF m

\* pcie_dma_transfer accepts no transfer that wraps.
LEMMA NoTransferWraps ==
  ASSUME NEW hostAddr \in 0 .. (AddrWidth - 1), NEW dev \in 0 .. (AddrWidth - 1),
         NEW size \in 0 .. (AddrWidth - 1), DmaAccepted(hostAddr, dev, size)
  PROVE  size > 0 /\ dev + size < AddrWidth /\ hostAddr + size < AddrWidth
<1>1. AddrWidth \in Nat /\ AddrWidth > 0
  BY LinkAssumption
<1>2. ASSUME NEW x \in 0 .. (AddrWidth - 1), size # 0, (x + size) % AddrWidth >= x
      PROVE  x + size < AddrWidth
  <2>1. x + size >= AddrWidth => (x + size) % AddrWidth = (x + size) - AddrWidth
    BY <1>1, ModOnce
  <2> QED
    BY <1>1, <1>2, <2>1
<1> QED
  BY <1>1, <1>2 DEF DmaAccepted

\* Every packet of a transfer of at least one byte that does not wrap.
LEMMA EveryPacket ==
  ASSUME NEW dev \in Nat, NEW size \in Nat, size > 0, dev + size < AddrWidth,
         NEW tag \in 0 .. (TagWidth - 1)
  PROVE  LET p == Packets(dev, size, tag)
             n == (size + MaxPayload - 1) \div MaxPayload
         IN  /\ n \in Nat /\ n >= 1 /\ DOMAIN p = 1 .. n /\ Len(p) = n
             /\ \A i \in 1 .. n :
                  /\ p[i].address = dev + (i - 1) * MaxPayload
                  /\ p[i].chunk \in 1 .. MaxPayload /\ 4 * p[i].length >= p[i].chunk
                  /\ p[i].chunk = IF i = n THEN size - (n - 1) * MaxPayload ELSE MaxPayload
                  /\ p[i].tag = (tag + i - 1) % TagWidth
<1> DEFINE n == (size + MaxPayload - 1) \div MaxPayload
           Chunk(i) == IF i < n THEN MaxPayload ELSE size - (n - 1) * MaxPayload
           p == Packets(dev, size, tag)
<1>1. n \in Nat /\ n >= 1 /\ (n - 1) * MaxPayload < size /\ size <= n * MaxPayload
  BY PacketCount
<1>2. p = [i \in 1 .. n |->
             [address |-> (dev + (i - 1) * MaxPayload) % AddrWidth, chunk |-> Chunk(i),
              length |-> (Chunk(i) + 3) \div 4, tag |-> (tag + i - 1) % TagWidth]]
  BY DEF Packets
<1>3. MaxPayload \in Nat /\ MaxPayload > 0 /\ AddrWidth \in Nat /\ AddrWidth > 0
  BY LinkAssumption
<1> HIDE DEF n, p
<1>4. DOMAIN p = 1 .. n /\ Len(p) = n
  BY <1>1, <1>2
<1>5. ASSUME NEW i \in 1 .. n
      PROVE  /\ p[i].address = dev + (i - 1) * MaxPayload
             /\ Chunk(i) \in 1 .. MaxPayload /\ 4 * ((Chunk(i) + 3) \div 4) >= Chunk(i)
             /\ Chunk(i) = IF i = n THEN size - (n - 1) * MaxPayload ELSE MaxPayload
  <2> DEFINE x == (i - 1) * MaxPayload
             m == (n - 1) * MaxPayload
  <2>1. x <= m /\ x \in Int /\ m \in Int /\ i - 1 \in Nat
    BY <1>1, <1>3, TimesMono
  <2>2. x \in Nat
    BY <1>3, <2>1
  <2>3. n * MaxPayload = m + MaxPayload
    BY <1>1, <1>3
  <2>4. m < size /\ size <= m + MaxPayload
    BY <1>1, <2>3
  <2>5. p[i].address = (dev + x) % AddrWidth
    BY <1>2
  <2>6. Chunk(i) = IF i = n THEN size - m ELSE MaxPayload
    BY <1>1
  <2> HIDE DEF x, m, Chunk
  <2>7. dev + x \in Nat /\ dev + x < AddrWidth
    BY <1>3, <2>1, <2>2, <2>4
  <2>8. p[i].address = dev + x
    BY <1>3, <2>5, <2>7, ModOnce
  <2>9. Chunk(i) \in 1 .. MaxPayload
    BY <1>3, <2>1, <2>4, <2>6
  <2>10. 4 * ((Chunk(i) + 3) \div 4) >= Chunk(i)
    <3>1. \A c \in Nat : 4 * ((c + 3) \div 4) >= c
      OBVIOUS
    <3>2. Chunk(i) \in Nat
      BY <1>3, <2>9
    <3> QED
      BY <3>1, <3>2
  <2> QED
    BY <2>6, <2>8, <2>9, <2>10 DEF x, m
<1>6. ASSUME NEW i \in 1 .. n
      PROVE  /\ p[i].chunk = Chunk(i) /\ p[i].length = (Chunk(i) + 3) \div 4
             /\ p[i].tag = (tag + i - 1) % TagWidth
  BY <1>2
<1> HIDE DEF Chunk
<1> QED
  BY <1>1, <1>4, <1>5, <1>6 DEF n, p

\* An aligned word ends at the end of the address space or before it.
LEMMA WordsFit ==
  ASSUME NEW offset \in 0 .. (AddrWidth - 1), NEW n \in WordLengths, offset % n = 0
  PROVE  offset + n <= AddrWidth
<1>1. AddrWidth \in Nat /\ AddrWidth % 8 = 0 /\ offset \in Nat /\ offset < AddrWidth
  BY LinkAssumption
<1>2. \A a, o \in Nat : a % 8 = 0 /\ o % 4 = 0 /\ o < a => o + 4 <= a
  OBVIOUS
<1>3. \A a, o \in Nat : a % 8 = 0 /\ o % 8 = 0 /\ o < a => o + 8 <= a
  OBVIOUS
<1>4. CASE n = 4
  BY <1>1, <1>2, <1>4
<1>5. CASE n = 8
  BY <1>1, <1>3, <1>5
<1> QED
  BY <1>4, <1>5 DEF WordLengths

\* The register accesses that are accepted: the sum wraps for the last word of
\* the address space and for no other.
LEMMA AccessesExact == ASSUME NEW dev PROVE RegistersExact(dev)
<1> SUFFICES ASSUME NEW size \in 0 .. (AddrWidth - 1), NEW offset \in 0 .. (AddrWidth - 1),
                    NEW n \in WordLengths, offset % n = 0
             PROVE  ~((offset + n) % AddrWidth > size)
                      <=> offset + n <= size \/ offset + n = AddrWidth
  BY DEF RegistersExact, MmioAccepted
<1>1. AddrWidth \in Nat /\ AddrWidth > 0 /\ n \in Nat /\ n > 0
  BY LinkAssumption DEF WordLengths
<1>2. offset + n <= AddrWidth
  BY WordsFit
<1>3. CASE offset + n = AddrWidth
  <2>1. (offset + n) % AddrWidth = 0
    BY <1>1, <1>3
  <2> QED
    BY <1>1, <1>3, <2>1
<1>4. CASE offset + n < AddrWidth
  <2>1. (offset + n) % AddrWidth = offset + n
    BY <1>1, <1>4, ModOnce
  <2> QED
    BY <1>1, <1>4, <2>1
<1> QED
  BY <1>1, <1>2, <1>3, <1>4

\* What is asked of a device (pcie_mmio_read32 and its kin, pcie_dma_transfer),
\* for every offset and address of the word: the register accesses accepted
\* are those of the BAR and the one whose sum wraps, and the packets of a
\* transfer that is accepted are the transfer.
THEOREM RequestsAreCovered == RequestsCovered
<1>1. ASSUME NEW hostAddr \in 0 .. (AddrWidth - 1), NEW dev \in 0 .. (AddrWidth - 1),
             NEW size \in 0 .. (AddrWidth - 1), NEW tag \in 0 .. (TagWidth - 1),
             DmaAccepted(hostAddr, dev, size)
      PROVE  LET p == Packets(dev, size, tag) IN
             /\ hostAddr + size < AddrWidth /\ dev + size < AddrWidth
             /\ p # <<>> /\ p[1].address = dev
             /\ \A i \in DOMAIN p :
                  /\ p[i].chunk \in 1 .. MaxPayload /\ 4 * p[i].length >= p[i].chunk
                  /\ IF i = Len(p) THEN p[i].address + p[i].chunk = dev + size
                                   ELSE p[i].address + p[i].chunk = p[i + 1].address
                  /\ \A j \in DOMAIN p : p[i].tag = p[j].tag => (i - j) % TagWidth = 0
  <2> DEFINE p == Packets(dev, size, tag)
             n == (size + MaxPayload - 1) \div MaxPayload
  <2>1. size > 0 /\ dev + size < AddrWidth /\ hostAddr + size < AddrWidth
    BY <1>1, NoTransferWraps
  <2>2. /\ MaxPayload \in Nat /\ AddrWidth \in Nat /\ TagWidth \in Nat /\ TagWidth > 0
        /\ dev \in Nat /\ size \in Nat /\ tag \in Nat
    BY LinkAssumption
  <2>3. /\ n \in Nat /\ n >= 1 /\ DOMAIN p = 1 .. n /\ Len(p) = n
        /\ \A i \in 1 .. n :
             /\ p[i].address = dev + (i - 1) * MaxPayload
             /\ p[i].chunk \in 1 .. MaxPayload /\ 4 * p[i].length >= p[i].chunk
             /\ p[i].chunk = IF i = n THEN size - (n - 1) * MaxPayload ELSE MaxPayload
             /\ p[i].tag = (tag + i - 1) % TagWidth
    BY <1>1, <2>1, <2>2, EveryPacket
  <2> HIDE DEF p, n
  <2>4. p # <<>> /\ p[1].address = dev
    <3>1. DOMAIN <<>> = {} /\ 1 \in 1 .. n
      BY <2>3, EmptySeq
    <3>2. p[1].address = dev + (1 - 1) * MaxPayload /\ (1 - 1) * MaxPayload = 0
      BY <2>2, <2>3, <3>1
    <3> QED
      BY <2>2, <2>3, <3>1, <3>2
  <2>5. ASSUME NEW i \in 1 .. n
        PROVE  IF i = n THEN p[i].address + p[i].chunk = dev + size
                        ELSE p[i].address + p[i].chunk = p[i + 1].address
    <3> DEFINE x == (i - 1) * MaxPayload
    <3>1. x \in Int /\ i * MaxPayload = x + MaxPayload
      BY <2>2
    <3>2. p[i].address = dev + x
      BY <2>3
    <3>3. CASE i = n
      <4>1. p[i].chunk = size - x
        BY <2>3, <3>3
      <4> QED
        BY <2>2, <3>1, <3>2, <3>3, <4>1
    <3>4. CASE i # n
      <4>0. n \in Nat /\ i \in 1 .. n
        BY <2>3
      <4>1. i + 1 \in 1 .. n /\ (i + 1) - 1 = i
        BY <3>4, <4>0
      <4>3. p[i].chunk = MaxPayload
        BY <2>3, <3>4
      <4>2. p[i + 1].address = dev + i * MaxPayload
        BY <2>3, <4>1
      <4> HIDE DEF x
      <4> QED
        BY <2>2, <3>1, <3>2, <3>4, <4>2, <4>3
    <3> QED
      BY <3>3, <3>4
  <2>6. ASSUME NEW i \in 1 .. n, NEW j \in 1 .. n, p[i].tag = p[j].tag
        PROVE  (i - j) % TagWidth = 0
    <3> DEFINE a == tag + i - 1
               b == tag + j - 1
    <3>1. a \in Nat /\ b \in Nat /\ a - b = i - j
      BY <2>2, <2>3
    <3>2. a % TagWidth = b % TagWidth
      BY <2>3, <2>6
    <3> HIDE DEF a, b
    <3>3. (a - b) % TagWidth = 0
      BY <2>2, <3>1, <3>2, SameRest
    <3> QED
      BY <3>1, <3>3
  <2> QED
    BY <2>1, <2>3, <2>4, <2>5, <2>6 DEF p
<1>2. TransfersCovered
  BY <1>1 DEF TransfersCovered
<1>3. [devices' # devices =>
         /\ \A i \in DOMAIN devices' : RegistersExact(devices'[i])
         /\ devices' # <<>> => TransfersCovered]_devices
  BY <1>2, AccessesExact
<1> QED
  BY <1>3, PTL DEF RequestsCovered
=============================================================================
