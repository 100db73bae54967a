-------------------------------- MODULE Boot --------------------------------
(***************************************************************************)
(* The kernel's start (init and kernel_main in kernel/src/main.rs): the    *)
(* order in which the globals come into being, the two walks over the PCI  *)
(* functions that attach the virtio drivers (network/device.rs, rng.rs,    *)
(* pci.rs), and the routing of interrupts (apic.rs, acpi_handling.rs) that *)
(* may fire from the moment init enables them.                             *)
(*                                                                         *)
(* A global is a name in `ready`; reading one that is not there is the     *)
(* panic of its `expect`; "ISOS" stands for IO_APICS too, which init_acpi  *)
(* makes with it.  Firmware tables, PCI functions and how a device takes   *)
(* to its driver are chosen at random within what a PC can offer: one I/O  *)
(* APIC that has all interrupt inputs, and a card whose input is not the   *)
(* serial port's.                                                          *)
(***************************************************************************)
EXTENDS Naturals, Sequences

CONSTANTS
  Functions,  \* number of PCI functions, walked in the order of their address
  Inputs,     \* the I/O APIC's inputs
  MaxIsos     \* bound: interrupt source overrides in the MADT

COM1_IRQ == 4
COM1_VECTOR == 36
TIMER_VECTOR == 64
VIRTIO_NET_VECTOR == 96

ASSUME BootAssumption ==
  /\ Functions \in Nat /\ MaxIsos \in Nat
  /\ Inputs \subseteq Nat /\ COM1_IRQ \in Inputs

Function == 1 .. Functions
Iso == [isa_irq : {0, COM1_IRQ}, gsi : Inputs]

VARIABLES
  type,      \* the DeviceType virtio_type_at reads for each function, or "None"
  line,      \* the interrupt line register of each function
  madt,      \* the overrides the MADT lists
  pc,        \* the step of init or kernel_main
  at,        \* the PCI function a walk has come to
  ready,     \* the globals that exist
  isos,      \* ISOS
  device,    \* "unused", "running" with a driver, or "reset"
  rte,       \* redirection entries that are not masked, and their vectors
  enabled,   \* the CPU's interrupt flag
  taken,     \* the vectors whose handlers have run
  panicked   \* a panic stopped the machine

inputs == <<type, line, madt>>
vars == <<inputs, pc, at, ready, isos, device, rte, enabled, taken, panicked>>

Isos == UNION {[1 .. n -> Iso] : n \in 0 .. MaxIsos}

\* isa_irq_to_gsi: the first override that names the irq, or the irq itself.
isa_irq_to_gsi(list, irq) ==
  LET hits == {i \in DOMAIN list : list[i].isa_irq = irq}
  IN  IF hits = {} THEN irq
      ELSE list[CHOOSE i \in hits : \A j \in hits : i <= j].gsi

Init ==
  /\ type \in [Function -> {"Network", "EntropySource", "None"}]
  /\ line \in [Function -> Inputs]
  /\ madt \in Isos
  /\ \A f \in Function : line[f] # isa_irq_to_gsi(madt, COM1_IRQ)
  /\ pc = "tables" /\ at = 1
  /\ ready = {} /\ isos = <<>>
  /\ device = [f \in Function |-> "unused"]
  /\ rte = {}
  /\ enabled = FALSE /\ taken = {} /\ panicked = FALSE

-----------------------------------------------------------------------------
(* init's straight-line steps *)

\* The step at p reads the globals in `needs` and panics if one is missing;
\* nothing runs after a panic.
Step(p, needs) ==
  /\ pc = p /\ ~panicked
  /\ panicked' = ~(needs \subseteq ready)

\* Mutant: the heap is set up before the offset it is mapped at is known.
HeapTooEarly ==
  << [name |-> "tables", needs |-> {},               makes |-> "IDT"],
     [name |-> "mapper", needs |-> {},               makes |-> "MAPPER"],
     [name |-> "pmm",    needs |-> {},               makes |-> "PMM"],
     [name |-> "heap",   needs |-> {"PMM", "OFFSET"}, makes |-> "ALLOCATOR"],
     [name |-> "offset", needs |-> {},               makes |-> "OFFSET"],
     [name |-> "acpi",   needs |-> {"OFFSET", "ALLOCATOR"}, makes |-> "ISOS"],
     [name |-> "tty",    needs |-> {},               makes |-> "SERIAL_TTY"] >>

\* gdt::init and init_idt, MAPPER, PMM, OFFSET, init_heap, init_acpi and
\* SERIAL_TTY, with the globals each reads and makes.
EarlySteps ==
  << [name |-> "tables", needs |-> {},               makes |-> "IDT"],
     [name |-> "mapper", needs |-> {},               makes |-> "MAPPER"],
     [name |-> "pmm",    needs |-> {},               makes |-> "PMM"],
     [name |-> "offset", needs |-> {},               makes |-> "OFFSET"],
     [name |-> "heap",   needs |-> {"PMM", "OFFSET"}, makes |-> "ALLOCATOR"],
     [name |-> "acpi",   needs |-> {"OFFSET", "ALLOCATOR"}, makes |-> "ISOS"],
     [name |-> "tty",    needs |-> {},               makes |-> "SERIAL_TTY"] >>

AfterEarly(i) ==
  IF i < Len(EarlySteps) THEN EarlySteps[i + 1].name ELSE "apic"

EarlyStep(i) ==
  /\ Step(EarlySteps[i].name, EarlySteps[i].needs)
  /\ ready' = ready \cup {EarlySteps[i].makes}
  /\ isos' = IF pc = "acpi" THEN madt ELSE isos
  /\ pc' = AfterEarly(i)
  /\ UNCHANGED <<inputs, at, device, rte, enabled, taken>>

\* route_interrupt and route_pci_interrupt: an input gets its vector and is
\* unmasked; what it had before is overwritten.
Route(gsi, vector) ==
  {e \in rte : e.gsi # gsi} \cup {[gsi |-> gsi, vector |-> vector]}

\* Mutant: the override of the serial port's interrupt is ignored.
OverrideIgnored ==
  /\ Step("apic", {"OFFSET", "ISOS"})
  /\ ready' = ready \cup {"LAPIC_BASE"}
  /\ rte' = Route(COM1_IRQ, COM1_VECTOR)
  /\ pc' = "timer"
  /\ UNCHANGED <<inputs, at, isos, device, enabled, taken>>

\* init_apic: every input is masked by IoApic::init, then COM1's is routed.
init_apic ==
  /\ Step("apic", {"OFFSET", "ISOS"})
  /\ ready' = ready \cup {"LAPIC_BASE"}
  /\ rte' = Route(isa_irq_to_gsi(isos, COM1_IRQ), COM1_VECTOR)
  /\ pc' = "timer"
  /\ UNCHANGED <<inputs, at, isos, device, enabled, taken>>

\* init_timer: the local timer counts from here on.
init_timer ==
  /\ Step("timer", {"LAPIC_BASE"})
  /\ ready' = ready \cup {"TIMER"}
  /\ pc' = "Network"
  /\ UNCHANGED <<inputs, at, isos, device, rte, enabled, taken>>

-----------------------------------------------------------------------------
(* The walks of init_virtio_net_pci and init_virtio_rng.  pc is the type of *)
(* device that is looked for.                                               *)

Cell(t) == IF t = "Network" THEN "VIRTIO_NET" ELSE "VIRTIO_RNG"

After(t) == IF t = "Network" THEN "EntropySource" ELSE "sti"

Probing == pc \in {"Network", "EntropySource"} /\ at \in Function /\ ~panicked

\* Mutant: a transport is built to find out the type, and dropped.
SkipWithTransport ==
  /\ Probing /\ type[at] # pc
  /\ device' = IF type[at] = "None" THEN device
                                    ELSE [device EXCEPT ![at] = "reset"]
  /\ at' = at + 1
  /\ UNCHANGED <<inputs, pc, ready, isos, rte, enabled, panicked, taken>>

\* virtio_type_at only reads configuration space.
Skip ==
  /\ Probing /\ type[at] # pc
  /\ at' = at + 1
  /\ UNCHANGED <<inputs, pc, ready, isos, device, rte, enabled, panicked, taken>>

\* PciTransport::new fails, or the driver does and drops the transport, which
\* resets the device; the walk goes on.
AttachFails ==
  /\ Probing /\ type[at] = pc
  /\ \/ UNCHANGED device
     \/ device' = [device EXCEPT ![at] = "reset"]
  /\ at' = at + 1
  /\ UNCHANGED <<inputs, pc, ready, isos, rte, enabled, panicked, taken>>

\* init_net_from_df and init_rng_from_df: the driver shares its rings through
\* KernelHal and is stored; the card's interrupt is routed, and the walk ends.
Attach ==
  /\ Probing /\ type[at] = pc
  /\ Step(pc, {"MAPPER", "PMM", "OFFSET", "ALLOCATOR"}
                \cup (IF pc = "Network" THEN {"ISOS"} ELSE {}))
  /\ device' = [device EXCEPT ![at] = "running"]
  /\ ready' = ready \cup {Cell(pc)}
  /\ rte' = IF pc = "Network" THEN Route(line[at], VIRTIO_NET_VECTOR) ELSE rte
  /\ at' = 1 /\ pc' = After(pc)
  /\ UNCHANGED <<inputs, isos, enabled, taken>>

\* No function is left: the walk returns false, which init does not look at.
NotFound ==
  /\ pc \in {"Network", "EntropySource"} /\ at \notin Function /\ ~panicked
  /\ at' = 1 /\ pc' = After(pc)
  /\ UNCHANGED <<inputs, ready, isos, device, rte, enabled, panicked, taken>>

-----------------------------------------------------------------------------
(* Interrupts, and kernel_main *)

Enable ==
  /\ pc = "sti" /\ ~panicked
  /\ enabled' = TRUE
  /\ pc' = "main"
  /\ UNCHANGED <<inputs, at, ready, isos, device, rte, panicked, taken>>

\* kernel_main asks for the network driver and goes on to the executor.
KernelMain ==
  /\ Step("main", {"VIRTIO_NET"})
  /\ pc' = "run"
  /\ UNCHANGED <<inputs, at, ready, isos, device, rte, enabled, taken>>

Vectors == {e.vector : e \in rte}
             \cup (IF "TIMER" \in ready THEN {TIMER_VECTOR} ELSE {})

\* What a handler reads: its vector's entry in the IDT, the local APIC for the
\* end of the interrupt, and what it serves.
HandlerNeeds(v) ==
  {"IDT", "LAPIC_BASE"} \cup (CASE v = COM1_VECTOR -> {"SERIAL_TTY"}
                                [] v = TIMER_VECTOR -> {}
                                [] v = VIRTIO_NET_VECTOR -> {"VIRTIO_NET"})

\* The handler of a vector runs.
Interrupt(v) ==
  /\ enabled
  /\ Step(pc, HandlerNeeds(v))
  /\ taken' = taken \cup {v}
  /\ UNCHANGED <<inputs, pc, at, ready, isos, device, rte, enabled>>

Next ==
  \/ \E i \in DOMAIN EarlySteps : EarlyStep(i)
  \/ init_apic \/ init_timer
  \/ Skip \/ AttachFails \/ Attach \/ NotFound
  \/ Enable \/ KernelMain
  \/ \E v \in Vectors : Interrupt(v)

Spec == Init /\ [][Next]_vars

-----------------------------------------------------------------------------
(* Properties *)

\* A probe never disturbs a running device (the comments of virtio_type_at and
\* of both walks): once a driver is attached its device is not reset, although
\* the second walk passes the card the first one brought up.
RunningNeverReset ==
  [][\A f \in Function : device[f] = "running" => device'[f] = "running"]_vars

\* The kernel panics at start only for want of a network card: no step of init
\* and no handler, from the moment interrupts are on, misses a global, whatever
\* the firmware lists and whichever devices fail.
PanicsOnlyWithoutCard ==
  panicked =>
    pc = "run" /\ \A f \in Function : type[f] = "Network" => device[f] # "running"

Running(t) == {f \in Function : type[f] = t /\ device[f] = "running"}

\* Once interrupts are on, the serial port's input, wherever an override has
\* moved it, has the serial handler's vector, and the input of the one card
\* with a driver has the card's; no other input is unmasked.
SourcesRouted ==
  enabled =>
    rte = {[gsi |-> isa_irq_to_gsi(madt, COM1_IRQ), vector |-> COM1_VECTOR]}
            \cup {[gsi |-> line[f], vector |-> VIRTIO_NET_VECTOR] :
                     f \in Running("Network")}

-----------------------------------------------------------------------------
(***************************************************************************)
(* The inductive invariant behind the properties: what each step of the    *)
(* start may rely on, because it comes after the step that made it.        *)
(***************************************************************************)
EarlyPcs == {"tables", "mapper", "pmm", "offset", "heap", "acpi", "tty"}

\* The places from which the network card, and the entropy source, have been
\* looked for.
CardSought == {"EntropySource", "sti", "main", "run"}
BothSought == CardSought \ {"EntropySource"}

\* What the early steps passed have made, and what init_apic and the firmware add.
ReadyInv ==
  /\ pc \in EarlyPcs \cup {"apic", "timer", "Network"} \cup CardSought
  /\ pc # "tables" => "IDT" \in ready
  /\ pc \notin {"tables", "mapper"} => "MAPPER" \in ready
  /\ pc \notin {"tables", "mapper", "pmm"} => "PMM" \in ready
  /\ pc \notin {"tables", "mapper", "pmm", "offset"} => "OFFSET" \in ready
  /\ pc \notin EarlyPcs \ {"acpi", "tty"} => "ALLOCATOR" \in ready
  /\ pc \notin EarlyPcs \ {"tty"} => "ISOS" \in ready
  /\ pc \notin EarlyPcs => "SERIAL_TTY" \in ready
  /\ pc \notin EarlyPcs \ {"tty"} => isos = madt
  /\ pc \notin EarlyPcs \cup {"apic"} => "LAPIC_BASE" \in ready
  /\ enabled => pc \in {"main", "run"}

\* Devices run only after the walk that looks for their type, and the card's
\* driver is then in its cell.
DeviceInv ==
  /\ device \in [Function -> {"unused", "running", "reset"}]
  /\ pc \notin CardSought => Running("Network") = {}
  /\ pc \notin BothSought => Running("EntropySource") = {}
  /\ Running("Network") # {} => "VIRTIO_NET" \in ready

\* The unmasked inputs, from the time init_apic has run.
RouteInv ==
  /\ \A f \in Function : line[f] # isa_irq_to_gsi(madt, COM1_IRQ)
  /\ rte = IF pc \in EarlyPcs \cup {"apic"} THEN {}
           ELSE {[gsi |-> isa_irq_to_gsi(madt, COM1_IRQ), vector |-> COM1_VECTOR]}
                  \cup {[gsi |-> line[f], vector |-> VIRTIO_NET_VECTOR] :
                           f \in Running("Network")}

BootInv == ReadyInv /\ DeviceInv /\ RouteInv /\ PanicsOnlyWithoutCard

=============================================================================
