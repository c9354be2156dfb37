------------------------------- MODULE Links -------------------------------
(***************************************************************************)
(* The link stack: the USB4 controller (src/kernel/usb4/usb4_controller.c) *)
(* with the routers it found and the tunnels to them, and the PCIe bus     *)
(* behind them (src/kernel/pcie/pcie_tunnel.c) with its devices and their  *)
(* mapped BARs.  Where routers can be found (on macOS) is a constant;      *)
(* elsewhere there are none.                                               *)
(***************************************************************************)
EXTENDS Integers, Sequences, FiniteSets, SequencesExt

CONSTANTS
  MaxRouters,  \* routers plugged in, at most USB4_MAX_TUNNELS
  MaxTunnels,  \* USB4_MAX_TUNNELS
  LinkFails,   \* what may fail: a subset of LinkFaults
  AddrWidth,   \* 2^64, scaled down to a multiple of the words of registers
  MaxPayload,  \* bytes in a packet: 256
  MaxDma,      \* largest transfer: 1 GB
  TagWidth     \* 2^8: tags are one byte

LinkFaults == {"service", "tunnel", "device", "bar"}

ASSUME LinkAssumption ==
  /\ MaxRouters \in Nat /\ MaxTunnels \in Nat /\ LinkFails \subseteq LinkFaults
  /\ {AddrWidth, MaxPayload, MaxDma, TagWidth} \subseteq Nat \ {0}
  /\ AddrWidth % 8 = 0

VARIABLES
  usb4_up,   \* is ctx->service open (the controller initialised)?
  routers,   \* connected_routers[0 .. router_count - 1]
  tunnels,   \* active_tunnels[], each by the router downstream of it
  devices,   \* the PCIe devices, each [tunnel, mapped, enabled]
  objects    \* C objects allocated and not freed by the two modules

linkVars == <<usb4_up, routers, tunnels, devices, objects>>

-----------------------------------------------------------------------------
(***************************************************************************)
(* The controller.                                                         *)
(***************************************************************************)
\* The context is zeroed, whatever it held, and the host router set up.
ControllerInit ==
  /\ usb4_up' = TRUE /\ routers' = <<>> /\ tunnels' = <<>>
  /\ UNCHANGED <<devices, objects>>
ControllerInitFails ==
  /\ "service" \in LinkFails
  /\ usb4_up' = FALSE /\ routers' = <<>> /\ tunnels' = <<>>
  /\ UNCHANGED <<devices, objects>>

\* A router and its platform data for each device found plugged in, up to the
\* size of the table; one whose memory cannot be had is passed over.
ScanRouters ==
  \E n \in 0 .. MaxRouters :
    /\ n <= MaxTunnels
    /\ routers' = [i \in 1 .. n |-> i]
    /\ objects' = objects + 2 * n
    /\ UNCHANGED <<usb4_up, tunnels, devices>>

\* usb4_create_pcie_tunnel: to a router of the table, once, while there is
\* room; the tunnel and its two adapters are three objects.
TunnelRefused(r) ==
  \/ Len(tunnels) >= MaxTunnels
  \/ r \notin Range(routers)
  \/ r \in Range(tunnels)
CreateTunnel(r) ==
  /\ ~TunnelRefused(r)
  /\ tunnels' = Append(tunnels, r)
  /\ objects' = objects + 3
  /\ UNCHANGED <<usb4_up, routers, devices>>
CreateTunnelFails(r) ==
  /\ TunnelRefused(r) \/ "tunnel" \in LinkFails
  /\ UNCHANGED linkVars

\* Every tunnel with its adapters, from the last, then every router with its
\* platform data.
ControllerShutdown ==
  /\ objects' = objects - 3 * Len(tunnels) - 2 * Len(routers)
  /\ usb4_up' = FALSE /\ routers' = <<>> /\ tunnels' = <<>>
  /\ UNCHANGED devices

-----------------------------------------------------------------------------
(***************************************************************************)
(* The PCIe bus.                                                           *)
(***************************************************************************)
\* Behind the first tunnel there is one device, at 0:0.
ScanBus ==
  /\ IF tunnels = <<>>
       THEN UNCHANGED <<devices, objects>>
       ELSE \/ /\ devices' = Append(devices, [tunnel |-> Head(tunnels), mapped |-> {},
                                               enabled |-> FALSE])
               /\ objects' = objects + 1
            \/ "device" \in LinkFails /\ UNCHANGED <<devices, objects>>
  /\ UNCHANGED <<usb4_up, routers, tunnels>>

\* nv_gpu_init's use of device d: BARs 0 and 1 are mapped (pcie_map_bar) and
\* the device enabled (pcie_enable_device, pcie_enable_bus_master).
AttachDevice(d) ==
  /\ devices' = [devices EXCEPT ![d] = [tunnel |-> @.tunnel, mapped |-> @.mapped \cup {0, 1},
                                        enabled |-> TRUE]]
  /\ objects' = objects + Cardinality({0, 1} \ devices[d].mapped)
  /\ UNCHANGED <<usb4_up, routers, tunnels>>

\* A BAR cannot be mapped: BAR 1 failing, BAR 0 is unmapped again.
AttachFails(d) == "bar" \in LinkFails /\ UNCHANGED linkVars

\* nv_gpu_shutdown unmaps what it mapped (pcie_unmap_bar); the device stays
\* enabled.
DetachDevice(d) ==
  /\ devices' = [devices EXCEPT ![d].mapped = @ \ {0, 1}]
  /\ objects' = objects - Cardinality(devices[d].mapped \cap {0, 1})
  /\ UNCHANGED <<usb4_up, routers, tunnels>>

\* pcie_tunnel_init zeroes the context, whatever it held.
PcieInit == devices' = <<>> /\ UNCHANGED <<usb4_up, routers, tunnels, objects>>

\* Each device with the BARs still mapped.
BusObjects(bus) ==
  LET upTo[i \in 0 .. Len(bus)] ==
        IF i = 0 THEN 0 ELSE upTo[i - 1] + 1 + Cardinality(bus[i].mapped)
  IN  upTo[Len(bus)]

PcieShutdown ==
  /\ objects' = objects - BusObjects(devices)
  /\ devices' = <<>>
  /\ UNCHANGED <<usb4_up, routers, tunnels>>

LinksStart ==
  /\ usb4_up = FALSE /\ routers = <<>> /\ tunnels = <<>> /\ devices = <<>>
  /\ objects = 0

-----------------------------------------------------------------------------
(***************************************************************************)
(* Access to a device of the bus.                                          *)
(***************************************************************************)
\* pcie_mmio_read32 and its kin, for a BAR of that size: it must be mapped, the
\* bounds are tested in 64 bits, then the alignment.
Bars        == 0 .. 5
WordLengths == {4, 8}
MmioAccepted(dev, bar, size, offset, n) ==
  bar \in dev.mapped /\ ~((offset + n) % AddrWidth > size) /\ offset % n = 0

\* What pcie_dma_transfer accepts of any device, whatever of it is mapped.
DmaAccepted(hostAddr, dev, size) ==
  /\ size # 0 /\ size <= MaxDma /\ hostAddr # 0
  /\ (hostAddr + size) % AddrWidth >= hostAddr
  /\ (dev + size) % AddrWidth >= dev

\* The packets it sends: full ones, then what remains.  Mutant: what remains
\* is sent as a full packet.
PacketsFull(dev, size, tag) ==
  [i \in 1 .. ((size + MaxPayload - 1) \div MaxPayload) |->
     [address |-> (dev + (i - 1) * MaxPayload) % AddrWidth, chunk |-> MaxPayload,
      length |-> (MaxPayload + 3) \div 4, tag |-> (tag + i - 1) % TagWidth]]
Packets(dev, size, tag) ==
  LET n == (size + MaxPayload - 1) \div MaxPayload
      Chunk(i) == IF i < n THEN MaxPayload ELSE size - (n - 1) * MaxPayload
  IN  [i \in 1 .. n |->
         [address |-> (dev + (i - 1) * MaxPayload) % AddrWidth, chunk |-> Chunk(i),
          length |-> (Chunk(i) + 3) \div 4, tag |-> (tag + i - 1) % TagWidth]]
-----------------------------------------------------------------------------
(***************************************************************************)
(* Properties.                                                             *)
(***************************************************************************)
LinksTypeOK ==
  /\ usb4_up \in BOOLEAN
  /\ Range(routers) \subseteq 1 .. MaxRouters
  /\ Len(tunnels) <= MaxTunnels
  /\ \A i \in DOMAIN devices : devices[i].mapped \subseteq 0 .. 2
  /\ objects \in Nat

\* Every C object is in a table that shutdown walks (usb4_controller_init and
\* pcie_tunnel_init zero the tables they are given): nothing is lost, and
\* nothing is left when the tables are empty.
ObjectsInTables == objects = 3 * Len(tunnels) + 2 * Len(routers) + BusObjects(devices)

\* No two tunnels go to one router, and a device is behind a tunnel that the
\* controller has for as long as it has any.
TunnelsSound ==
  /\ \A i, j \in DOMAIN tunnels : tunnels[i] = tunnels[j] => i = j
  /\ Range(tunnels) \subseteq Range(routers)
  /\ usb4_up => \A i \in DOMAIN devices : devices[i].tunnel \in Range(tunnels)

\* What pcie_mmio_read32 and its kin accept of a device, at every offset of
\* their 64 bits: the aligned words of a mapped BAR, and, as the sum of their
\* test wraps there, the last word of the address space, before the BAR and not
\* in it.
RegistersExact(dev) ==
  \A bar \in Bars, size, offset \in 0 .. (AddrWidth - 1), n \in WordLengths :
    MmioAccepted(dev, bar, size, offset, n) <=>
      /\ bar \in dev.mapped /\ offset % n = 0
      /\ offset + n <= size \/ offset + n = AddrWidth

\* The packets of a transfer that pcie_dma_transfer accepts are the request,
\* and no end of it wraps: they follow one another without gap or overlap,
\* none exceeds the payload, the length in words holds the chunk, and tags
\* repeat only after all 2^8.
TransfersCovered ==
  \A hostAddr, dev, size \in 0 .. (AddrWidth - 1), tag \in 0 .. (TagWidth - 1) :
    DmaAccepted(hostAddr, dev, size) =>
      LET p == Packets(dev, size, tag) IN
      /\ hostAddr + size < AddrWidth /\ dev + size < AddrWidth
      /\ p # <<>> /\ p[1].address = dev
      /\ \A i \in DOMAIN p :
           /\ p[i].chunk \in 1 .. MaxPayload /\ 4 * p[i].length >= p[i].chunk
           /\ IF i = Len(p) THEN p[i].address + p[i].chunk = dev + size
                            ELSE p[i].address + p[i].chunk = p[i + 1].address
           /\ \A j \in DOMAIN p : p[i].tag = p[j].tag => (i - j) % TagWidth = 0

\* Whatever is asked of a device of the bus, registers and transfers alike, each
\* time the bus is scanned, or BARs are mapped or unmapped.
RequestsCovered ==
  [][devices' # devices =>
       /\ \A i \in DOMAIN devices' : RegistersExact(devices'[i])
       /\ devices' # <<>> => TransfersCovered]_devices
=============================================================================
