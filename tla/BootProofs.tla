----------------------------- MODULE BootProofs -----------------------------
(***************************************************************************)
(* The start of the kernel, for any PCI bus and any interrupt overrides,   *)
(* and the random number generator whose source it brings up, for any      *)
(* block size, reseed interval and set of sources.                         *)
(***************************************************************************)
EXTENDS Boot, Csprng, TLAPS

\* EarlySteps, step by step.
LEMMA EarlyFacts ==
  /\ Len(EarlySteps) = 7 /\ DOMAIN EarlySteps = 1 .. 7
  /\ EarlySteps[1] = [name |-> "tables", needs |-> {}, makes |-> "IDT"]
  /\ EarlySteps[2] = [name |-> "mapper", needs |-> {}, makes |-> "MAPPER"]
  /\ EarlySteps[3] = [name |-> "pmm", needs |-> {}, makes |-> "PMM"]
  /\ EarlySteps[4] = [name |-> "offset", needs |-> {}, makes |-> "OFFSET"]
  /\ EarlySteps[5] = [name |-> "heap", needs |-> {"PMM", "OFFSET"},
                      makes |-> "ALLOCATOR"]
  /\ EarlySteps[6] = [name |-> "acpi", needs |-> {"OFFSET", "ALLOCATOR"},
                      makes |-> "ISOS"]
  /\ EarlySteps[7] = [name |-> "tty", needs |-> {}, makes |-> "SERIAL_TTY"]
BY DEF EarlySteps

\* The invariant holds when the boot loader enters the kernel.
LEMMA BootInit == Init => BootInv
<1> SUFFICES ASSUME Init PROVE BootInv
  OBVIOUS
<1>1. ReadyInv
  BY DEF Init, ReadyInv, EarlyPcs
<1>2. DeviceInv
  BY DEF Init, DeviceInv, Running, CardSought, BothSought
<1>3. RouteInv /\ PanicsOnlyWithoutCard
  BY DEF Init, RouteInv, EarlyPcs, PanicsOnlyWithoutCard
<1> QED BY <1>1, <1>2, <1>3 DEF BootInv

\* A step of the straight line finds what it reads: no panic, and the next step
\* finds what this one has made.
LEMMA EarlyStepKeeps ==
  ASSUME BootInv, NEW i \in DOMAIN EarlySteps, EarlyStep(i)
  PROVE  BootInv'
<1>1. /\ pc = EarlySteps[i].name /\ pc' = AfterEarly(i)
      /\ ready' = ready \cup {EarlySteps[i].makes}
      /\ isos' = IF pc = "acpi" THEN madt ELSE isos
      /\ ~panicked /\ panicked' = ~(EarlySteps[i].needs \subseteq ready)
      /\ UNCHANGED <<type, line, madt, device, rte, enabled>>
  BY DEF EarlyStep, Step, inputs
<1>2. /\ pc' \in EarlyPcs \cup {"apic"} /\ pc \in EarlyPcs
      /\ ReadyInv' /\ EarlySteps[i].needs \subseteq ready
  <2>0. i \in 1 .. 7 /\ AfterEarly(i) = IF i < 7 THEN EarlySteps[i + 1].name ELSE "apic"
    BY EarlyFacts DEF AfterEarly
  <2> USE EarlyFacts DEF BootInv, ReadyInv, EarlyPcs
  <2>1. CASE i = 1
    <3>1. pc = "tables" /\ pc' = "mapper" /\ ready' = ready \cup {"IDT"}
      BY <1>1, <2>0, <2>1
    <3> QED BY <1>1, <2>1, <3>1
  <2>2. CASE i = 2
    <3>1. pc = "mapper" /\ pc' = "pmm" /\ ready' = ready \cup {"MAPPER"}
      BY <1>1, <2>0, <2>2
    <3> QED BY <1>1, <2>2, <3>1
  <2>3. CASE i = 3
    <3>1. pc = "pmm" /\ pc' = "offset" /\ ready' = ready \cup {"PMM"}
      BY <1>1, <2>0, <2>3
    <3> QED BY <1>1, <2>3, <3>1
  <2>4. CASE i = 4
    <3>1. pc = "offset" /\ pc' = "heap" /\ ready' = ready \cup {"OFFSET"}
      BY <1>1, <2>0, <2>4
    <3> QED BY <1>1, <2>4, <3>1
  <2>5. CASE i = 5
    <3>1. pc = "heap" /\ pc' = "acpi" /\ ready' = ready \cup {"ALLOCATOR"}
      BY <1>1, <2>0, <2>5
    <3> QED BY <1>1, <2>5, <3>1
  <2>6. CASE i = 6
    <3>1. pc = "acpi" /\ pc' = "tty" /\ ready' = ready \cup {"ISOS"}
      BY <1>1, <2>0, <2>6
    <3> QED BY <1>1, <2>6, <3>1
  <2>7. CASE i = 7
    <3>1. pc = "tty" /\ pc' = "apic" /\ ready' = ready \cup {"SERIAL_TTY"}
      BY <1>1, <2>0, <2>7
    <3> QED BY <1>1, <2>7, <3>1
  <2> QED BY <2>0, <2>1, <2>2, <2>3, <2>4, <2>5, <2>6, <2>7
<1>3. DeviceInv'
  BY <1>1, <1>2 DEF BootInv, DeviceInv, Running, CardSought, BothSought, EarlyPcs
<1>4. RouteInv' /\ PanicsOnlyWithoutCard'
  BY <1>1, <1>2 DEF BootInv, RouteInv, PanicsOnlyWithoutCard, EarlyPcs
<1> QED BY <1>2, <1>3, <1>4 DEF BootInv

\* What a step of the walks or of kernel_main may change keeps ReadyInv.
LEMMA ReadyGrows ==
  ASSUME BootInv, ready \subseteq ready', UNCHANGED <<madt, isos, enabled>>,
         pc \notin EarlyPcs \cup {"apic"},
         pc' \in {"timer", "Network"} \cup CardSought,
         enabled => pc' \in {"main", "run"}
  PROVE  ReadyInv'
BY DEF BootInv, ReadyInv, EarlyPcs, CardSought

\* Every step of init, of the walks, of kernel_main and of a handler keeps it.
LEMMA BootStep == BootInv /\ [Next]_vars => BootInv'
<1> SUFFICES ASSUME BootInv, [Next]_vars PROVE BootInv'
  OBVIOUS
<1>1. ASSUME NEW i \in DOMAIN EarlySteps, EarlyStep(i) PROVE BootInv'
  BY <1>1, EarlyStepKeeps
<1>2. CASE init_apic
  <2>1. /\ pc = "apic" /\ pc' = "timer" /\ ready' = ready \cup {"LAPIC_BASE"}
        /\ rte' = Route(isa_irq_to_gsi(isos, COM1_IRQ), COM1_VECTOR)
        /\ panicked' = ~({"OFFSET", "ISOS"} \subseteq ready)
        /\ UNCHANGED <<type, line, madt, isos, device, enabled>>
    BY <1>2 DEF init_apic, Step, inputs
  <2>2. {"OFFSET", "ISOS"} \subseteq ready /\ isos = madt /\ ReadyInv'
    BY <2>1 DEF BootInv, ReadyInv, EarlyPcs
  <2>3. DeviceInv' /\ Running("Network")' = {}
    BY <2>1 DEF BootInv, DeviceInv, Running, CardSought, BothSought
  <2>4. rte' = {[gsi |-> isa_irq_to_gsi(madt, COM1_IRQ), vector |-> COM1_VECTOR]}
    BY <2>1, <2>2 DEF BootInv, RouteInv, Route
  <2>5. RouteInv'
    BY <2>1, <2>3, <2>4 DEF BootInv, RouteInv, EarlyPcs
  <2>6. ~panicked'
    BY <2>1, <2>2
  <2> QED BY <2>2, <2>3, <2>5, <2>6 DEF BootInv, PanicsOnlyWithoutCard
<1>3. CASE init_timer
  <2>1. /\ pc = "timer" /\ pc' = "Network" /\ ready' = ready \cup {"TIMER"}
        /\ panicked' = ~({"LAPIC_BASE"} \subseteq ready)
        /\ UNCHANGED <<type, line, madt, isos, device, rte, enabled>>
    BY <1>3 DEF init_timer, Step, inputs
  <2>2. {"LAPIC_BASE"} \subseteq ready /\ ReadyInv'
    BY <2>1 DEF BootInv, ReadyInv, EarlyPcs
  <2>3. DeviceInv' /\ RouteInv'
    BY <2>1 DEF BootInv, DeviceInv, RouteInv, Running, CardSought, BothSought, EarlyPcs
  <2>4. ~panicked'
    BY <2>1, <2>2
  <2> QED BY <2>2, <2>3, <2>4 DEF BootInv, PanicsOnlyWithoutCard
<1>4. CASE Skip \/ NotFound
  <2>1. /\ pc \in {"Network", "EntropySource"} /\ pc' \in {pc, After(pc)} /\ ~panicked
        /\ UNCHANGED <<type, line, madt, ready, isos, device, rte, enabled, panicked>>
    BY <1>4 DEF Skip, NotFound, Probing, inputs
  <2>2. ReadyInv'
    BY <2>1, ReadyGrows DEF BootInv, ReadyInv, After, EarlyPcs, CardSought
  <2>3. DeviceInv' /\ RouteInv'
    BY <2>1 DEF BootInv, DeviceInv, RouteInv, Running, After, CardSought, BothSought,
        EarlyPcs
  <2> QED BY <2>1, <2>2, <2>3 DEF BootInv, PanicsOnlyWithoutCard
<1>5. CASE AttachFails
  <2>1. /\ pc \in {"Network", "EntropySource"} /\ ~panicked /\ at \in Function
        /\ type[at] = pc
        /\ device' = device \/ device' = [device EXCEPT ![at] = "reset"]
        /\ UNCHANGED <<type, line, madt, pc, ready, isos, rte, enabled, panicked>>
    BY <1>5 DEF AttachFails, Probing, inputs
  <2>2. device[at] # "running"
    BY <2>1 DEF BootInv, DeviceInv, Running, CardSought, BothSought
  <2>3. \A t : Running(t)' = Running(t)
    BY <2>1, <2>2 DEF BootInv, DeviceInv, Running
  <2>4. device' \in [Function -> {"unused", "running", "reset"}]
    BY <2>1 DEF BootInv, DeviceInv
  <2>5. DeviceInv' /\ RouteInv'
    BY <2>1, <2>3, <2>4 DEF BootInv, DeviceInv, RouteInv
  <2> QED BY <2>1, <2>5 DEF BootInv, ReadyInv, PanicsOnlyWithoutCard
<1>6. CASE Attach
  <2>1. /\ pc \in {"Network", "EntropySource"} /\ ~panicked /\ at \in Function
        /\ type[at] = pc /\ pc' = After(pc)
        /\ device' = [device EXCEPT ![at] = "running"]
        /\ ready' = ready \cup {Cell(pc)}
        /\ rte' = IF pc = "Network" THEN Route(line[at], VIRTIO_NET_VECTOR) ELSE rte
        /\ UNCHANGED <<type, line, madt, isos, enabled>>
    BY <1>6 DEF Attach, Probing, inputs
  <2>2. {"MAPPER", "PMM", "OFFSET", "ALLOCATOR", "ISOS"} \subseteq ready
    BY <2>1 DEF BootInv, ReadyInv, EarlyPcs
  <2>3. ~panicked'
    BY <1>6, <2>1, <2>2 DEF Attach, Step
  <2>4. ReadyInv'
    BY <2>1, ReadyGrows DEF BootInv, ReadyInv, After, EarlyPcs, CardSought
  <2>5. device' \in [Function -> {"unused", "running", "reset"}]
    BY <2>1 DEF BootInv, DeviceInv
  <2>6. CASE pc = "Network"
    <3>1. Running("Network") = {} /\ Running("EntropySource") = {}
      BY <2>6 DEF BootInv, DeviceInv, CardSought, BothSought
    <3>2. Running("Network")' = {at} /\ Running("EntropySource")' = {}
      BY <2>1, <2>6, <3>1 DEF BootInv, DeviceInv, Running
    <3>3. DeviceInv'
      BY <2>1, <2>5, <2>6, <3>2 DEF DeviceInv, After, Cell, CardSought, BothSought
    <3>4. rte = {[gsi |-> isa_irq_to_gsi(madt, COM1_IRQ), vector |-> COM1_VECTOR]}
      BY <2>6, <3>1 DEF BootInv, RouteInv, EarlyPcs
    <3>5. line[at] # isa_irq_to_gsi(madt, COM1_IRQ)
      BY <2>1 DEF BootInv, RouteInv
    <3>6. rte' = {[gsi |-> isa_irq_to_gsi(madt, COM1_IRQ), vector |-> COM1_VECTOR],
                  [gsi |-> line[at], vector |-> VIRTIO_NET_VECTOR]}
      BY <2>1, <2>6, <3>4, <3>5 DEF Route
    <3>7. RouteInv'
      BY <2>1, <2>6, <3>2, <3>6 DEF BootInv, RouteInv, After, EarlyPcs
    <3> QED BY <2>3, <2>4, <3>3, <3>7 DEF BootInv, PanicsOnlyWithoutCard
  <2>7. CASE pc = "EntropySource"
    <3>1. Running("Network")' = Running("Network")
      BY <2>1, <2>7 DEF BootInv, DeviceInv, Running
    <3>2. DeviceInv'
      BY <2>1, <2>5, <2>7, <3>1 DEF BootInv, DeviceInv, After, CardSought, BothSought
    <3>3. RouteInv'
      BY <2>1, <2>7, <3>1 DEF BootInv, RouteInv, After, EarlyPcs
    <3> QED BY <2>3, <2>4, <3>2, <3>3 DEF BootInv, PanicsOnlyWithoutCard
  <2> QED BY <2>1, <2>6, <2>7
<1>7. CASE Enable
  <2>1. /\ pc = "sti" /\ pc' = "main" /\ ~panicked
        /\ UNCHANGED <<type, line, madt, ready, isos, device, rte, panicked>>
    BY <1>7 DEF Enable, inputs
  <2>2. ReadyInv'
    BY <2>1 DEF BootInv, ReadyInv, EarlyPcs, CardSought
  <2>3. DeviceInv' /\ RouteInv'
    BY <2>1 DEF BootInv, DeviceInv, RouteInv, Running, CardSought, BothSought, EarlyPcs
  <2> QED BY <2>1, <2>2, <2>3 DEF BootInv, PanicsOnlyWithoutCard
<1>8. CASE KernelMain
  <2>1. /\ pc = "main" /\ pc' = "run" /\ panicked' = ~({"VIRTIO_NET"} \subseteq ready)
        /\ UNCHANGED <<type, line, madt, ready, isos, device, rte, enabled>>
    BY <1>8 DEF KernelMain, Step, inputs
  <2>2. ReadyInv'
    BY <2>1, ReadyGrows DEF EarlyPcs, CardSought
  <2>3. DeviceInv' /\ RouteInv'
    BY <2>1 DEF BootInv, DeviceInv, RouteInv, Running, CardSought, BothSought, EarlyPcs
  <2>4. PanicsOnlyWithoutCard'
    <3>1. CASE "VIRTIO_NET" \in ready
      BY <2>1, <3>1 DEF PanicsOnlyWithoutCard
    <3>2. CASE "VIRTIO_NET" \notin ready
      BY <2>1, <3>2 DEF BootInv, DeviceInv, Running, PanicsOnlyWithoutCard
    <3> QED BY <3>1, <3>2
  <2> QED BY <2>2, <2>3, <2>4 DEF BootInv
<1>9. ASSUME NEW v \in Vectors, Interrupt(v) PROVE BootInv'
  <2>1. /\ pc \in {"main", "run"} /\ panicked' = ~(HandlerNeeds(v) \subseteq ready)
        /\ UNCHANGED <<type, line, madt, pc, ready, isos, device, rte, enabled>>
    BY <1>9 DEF Interrupt, Step, inputs, BootInv, ReadyInv
  <2>2. {"IDT", "LAPIC_BASE", "SERIAL_TTY"} \subseteq ready
    BY <2>1 DEF BootInv, ReadyInv, EarlyPcs
  <2>3. \/ v = COM1_VECTOR \/ v = TIMER_VECTOR
        \/ v = VIRTIO_NET_VECTOR /\ "VIRTIO_NET" \in ready
    BY <2>1 DEF Vectors, BootInv, RouteInv, DeviceInv, EarlyPcs
  <2>4. HandlerNeeds(v) \subseteq ready
    BY <2>2, <2>3 DEF HandlerNeeds, COM1_VECTOR, TIMER_VECTOR, VIRTIO_NET_VECTOR
  <2>5. ~panicked'
    BY <2>1, <2>4
  <2>6. ReadyInv' /\ DeviceInv' /\ RouteInv'
    BY <2>1 DEF BootInv, ReadyInv, DeviceInv, RouteInv, Running
  <2> QED BY <2>5, <2>6 DEF BootInv, PanicsOnlyWithoutCard
<1>10. CASE UNCHANGED vars
  BY <1>10 DEF BootInv, ReadyInv, DeviceInv, RouteInv, Running, PanicsOnlyWithoutCard,
      vars, inputs
<1> QED
  BY <1>1, <1>2, <1>3, <1>4, <1>5, <1>6, <1>7, <1>8, <1>9, <1>10 DEF Next

\* The invariant holds throughout.
THEOREM BootInvariance == Spec => []BootInv
BY BootInit, BootStep, PTL DEF Spec

\* No step of the start and no handler misses a global: the one panic is for want
\* of a network card.
THEOREM StartsUnlessNoCard == Spec => []PanicsOnlyWithoutCard
<1>1. BootInv => PanicsOnlyWithoutCard
  BY DEF BootInv
<1> QED BY <1>1, BootInvariance, PTL

\* Once interrupts are on, exactly the serial port's input and the running card's
\* are unmasked, each with its handler's vector.
THEOREM InterruptsRouted == Spec => []SourcesRouted
<1>1. BootInv => SourcesRouted
  BY DEF BootInv, ReadyInv, RouteInv, SourcesRouted, EarlyPcs
<1> QED BY <1>1, BootInvariance, PTL

\* Neither walk resets a device that has its driver.
THEOREM ProbesDisturbNothing == Spec => RunningNeverReset
<1>1. BootInv /\ [Next]_vars =>
        [\A f \in Function : device[f] = "running" => device'[f] = "running"]_vars
  <2> SUFFICES ASSUME BootInv, Next, NEW f \in Function, device[f] = "running"
               PROVE  device'[f] = "running"
    OBVIOUS
  <2>1. CASE AttachFails
    <3>1. /\ pc \in {"Network", "EntropySource"} /\ type[at] = pc /\ at \in Function
          /\ device' = device \/ device' = [device EXCEPT ![at] = "reset"]
      BY <2>1 DEF AttachFails, Probing
    <3>2. at # f
      BY <3>1 DEF BootInv, DeviceInv, Running, CardSought, BothSought
    <3> QED BY <3>1, <3>2 DEF BootInv, DeviceInv
  <2>2. CASE Attach
    BY <2>2 DEF Attach, BootInv, DeviceInv
  <2>3. CASE ~AttachFails /\ ~Attach
    <3>1. UNCHANGED device
      BY <2>3 DEF Next, EarlyStep, init_apic, init_timer, Skip, NotFound, Enable,
          KernelMain, Interrupt
    <3> QED BY <3>1
  <2> QED BY <2>1, <2>2, <2>3
<1> QED BY <1>1, BootInvariance, PTL DEF RunningNeverReset, Spec

-----------------------------------------------------------------------------
(* The random number generator *)

\* What was handed out is behind the walk: it comes from earlier blocks, or from
\* the part of the current one before buf_pos.
Behind ==
  /\ buf \in Nat
  /\ Seeded => buf < key.gen
  /\ \A b \in served : b[1] < buf \/ (b[1] = buf /\ b[2] < buf_pos)

\* Nothing has happened before a seed is there.
Unseeded ==
  /\ ~booted => attempt = 0 /\ ~Seeded
  /\ ~Seeded => served = {} /\ buf = 0

RngInv ==
  /\ TypeOK
  /\ attempt \in Nat
  /\ unstirred = blocks
  /\ Behind
  /\ Unseeded
  /\ SeedKept

-----------------------------------------------------------------------------

\* The invariant holds before anything is drawn.
LEMMA SeedingInit == RngInit => RngInv
<1> SUFFICES ASSUME RngInit
             PROVE  RngInv
  OBVIOUS
<1>1. key \in Key /\ ~Seeded
  BY DEF RngInit, Key, Seeded
<1>2. buf_pos \in 0 .. BufLen /\ blocks \in 0 .. RESEED_INTERVAL - 1
  BY CsprngAssumption DEF RngInit
<1>3. TypeOK
  BY <1>1, <1>2 DEF RngInit, TypeOK
<1>4. Behind /\ Unseeded /\ SeedKept
  BY <1>1 DEF RngInit, Behind, Unseeded, SeedKept
<1>5. QED
  BY <1>3, <1>4 DEF RngInit, RngInv

\* Seeding sets the key and the mode together.
LEMMA InitEntropyHolds ==
  ASSUME RngInv, NEW answering \in SUBSET Source, InitEntropy(answering)
  PROVE  RngInv'
<1> USE CsprngAssumption DEF InitEntropy, RngInv
<1>1. attempt = 0 /\ ~Seeded /\ served = {} /\ buf = 0
  BY DEF Unseeded
<1>2. CASE answering = {}
  <2>1. key' = key /\ mode' = {} /\ mode = {}
    BY <1>1, <1>2 DEF TypeOK
  <2>2. QED
    BY <1>1, <2>1 DEF TypeOK, Behind, Unseeded, SeedKept, Seeded
<1>3. CASE answering # {}
  <2>1. /\ key' = [gen |-> 1, from |-> GatherSeed(answering)]
        /\ GatherSeed(answering) = {<<s, 0>> : s \in answering}
    BY <1>1, <1>3 DEF GatherSeed
  <2>2. key' \in Key /\ Seeded'
    BY <2>1 DEF Key, Seeded
  <2>3. TypeOK'
    BY <1>3, <2>2 DEF TypeOK
  <2>4. Behind' /\ Unseeded'
    BY <1>1, <2>1, <2>2 DEF Behind, Unseeded
  <2>5. SeedKept'
    BY <2>1 DEF SeedKept
  <2>6. QED
    BY <2>3, <2>4, <2>5
<1>4. QED
  BY <1>2, <1>3

\* A byte of the current block moves the walk on by one.
LEMMA FillByteHolds == RngInv /\ FillByte => RngInv' /\ served' # served
<1> SUFFICES ASSUME RngInv, FillByte
             PROVE  RngInv' /\ served' # served
  OBVIOUS
<1> USE CsprngAssumption DEF FillByte, Serve, RngInv
<1>1. buf_pos \in 0 .. BufLen - 1 /\ <<buf, buf_pos>> \in Nat \X (0 .. BufLen - 1)
  BY DEF TypeOK, Behind
<1>2. <<buf, buf_pos>> \notin served
  BY <1>1 DEF Behind
<1>3. TypeOK'
  BY <1>1 DEF TypeOK, Seeded
<1>4. Behind'
  <2>1. ASSUME NEW b \in served'
        PROVE  b[1] < buf' \/ (b[1] = buf' /\ b[2] < buf_pos')
    <3>1. CASE b \in served
      <4>1. b[2] \in Nat /\ (b[1] < buf \/ (b[1] = buf /\ b[2] < buf_pos))
        BY <3>1 DEF Behind, TypeOK
      <4>2. QED
        BY <1>1, <4>1
    <3>2. CASE b = <<buf, buf_pos>>
      BY <1>1, <3>2
    <3>3. QED
      BY <3>1, <3>2
  <2>2. QED
    BY <2>1 DEF Behind, Seeded
<1>5. Unseeded' /\ SeedKept'
  BY DEF Unseeded, SeedKept, Seeded
<1>6. QED
  BY <1>2, <1>3, <1>4, <1>5

\* A fresh block comes from a key no block came from before.
LEMMA FreshBlock ==
  ASSUME RngInv, Seeded, NEW from \in SUBSET (Source \X Nat),
         key.from \subseteq from,
         buf' = key.gen, Serve(key.gen, 0), key' = Rekey(from),
         UNCHANGED <<booted, mode, fallback>>,
         attempt' \in Nat,
         blocks' \in 0 .. RESEED_INTERVAL - 1, unstirred' = blocks'
  PROVE  RngInv' /\ served' # served
<1> USE CsprngAssumption DEF Serve, Rekey, RngInv
<1>1. key.gen \in Nat \ {0} /\ key \in Key
  BY DEF TypeOK, Key, Seeded
<1>2. key' \in Key /\ key'.gen = key.gen + 1 /\ key'.from = from /\ Seeded'
  BY <1>1 DEF Key, Seeded
<1>3. <<key.gen, 0>> \notin served
  BY <1>1 DEF Behind
<1>4. TypeOK'
  <2>1. <<key.gen, 0>> \in Nat \X (0 .. BufLen - 1) /\ 1 \in 0 .. BufLen
    BY <1>1
  <2>2. QED
    BY <1>2, <2>1 DEF TypeOK
<1>5. Behind'
  <2>1. ASSUME NEW b \in served'
        PROVE  b[1] < buf' \/ (b[1] = buf' /\ b[2] < buf_pos')
    <3>1. CASE b \in served
      <4>1. b[1] \in Nat /\ buf \in Nat /\ buf < key.gen /\ (b[1] < buf \/ b[1] = buf)
        BY <3>1 DEF Behind, TypeOK
      <4>2. QED
        BY <1>1, <4>1
    <3>2. CASE b = <<key.gen, 0>>
      BY <3>2
    <3>3. QED
      BY <3>1, <3>2
  <2>2. QED
    BY <1>1, <1>2, <2>1 DEF Behind
<1>6. Unseeded' /\ SeedKept'
  BY <1>2 DEF Unseeded, SeedKept, Seeded
<1>7. QED
  BY <1>3, <1>4, <1>5, <1>6

\* refill without asking the hardware.
LEMMA RefillHolds == RngInv /\ Refill => RngInv' /\ served' # served
<1> SUFFICES ASSUME RngInv, Refill
             PROVE  RngInv' /\ served' # served
  OBVIOUS
<1>1. key.from \in SUBSET (Source \X Nat) /\ Seeded
  BY DEF RngInv, TypeOK, Key, Refill
<1>2. blocks' \in 0 .. RESEED_INTERVAL - 1 /\ unstirred' = blocks' /\ attempt' \in Nat
  BY CsprngAssumption DEF RngInv, TypeOK, Refill, ReseedDue
<1>3. QED
  BY <1>1, <1>2, FreshBlock DEF Refill

\* And with it.
LEMMA RefillAndReseedHolds ==
  ASSUME RngInv, NEW answering \in SUBSET Source, RefillAndReseed(answering)
  PROVE  RngInv' /\ served' # served
<1>1. Stirred(answering) \in SUBSET (Source \X Nat) /\ key.from \subseteq Stirred(answering)
  BY DEF RngInv, TypeOK, Key, Stirred, GatherSeed
<1>2. blocks' \in 0 .. RESEED_INTERVAL - 1 /\ unstirred' = blocks' /\ attempt' \in Nat
  BY CsprngAssumption DEF RngInv, RefillAndReseed
<1>3. Seeded /\ buf' = key.gen /\ Serve(key.gen, 0) /\ key' = Rekey(Stirred(answering))
        /\ UNCHANGED <<booted, mode, fallback>>
  BY DEF RefillAndReseed
<1>4. QED
  BY <1>1, <1>2, <1>3, FreshBlock

\* No step but the boot and the fallback leaves the served bytes as they are.
LEMMA RngStep ==
  RngInv /\ [RngNext]_rngVars =>
    RngInv' /\ (Seeded => served' # served \/ UNCHANGED rngVars)
<1> SUFFICES ASSUME RngInv, [RngNext]_rngVars
             PROVE  RngInv' /\ (Seeded => served' # served \/ UNCHANGED rngVars)
  OBVIOUS
<1>1. ASSUME NEW answering \in SUBSET Source, InitEntropy(answering)
      PROVE  RngInv' /\ ~Seeded
  BY <1>1, InitEntropyHolds DEF RngInv, Unseeded, InitEntropy
<1>2. ASSUME NEW answering \in SUBSET Source, RefillAndReseed(answering)
      PROVE  RngInv' /\ served' # served
  BY <1>2, RefillAndReseedHolds
<1>3. CASE Fallback
  BY <1>3 DEF Fallback, RngInv, TypeOK, Behind, Unseeded, SeedKept, Seeded
<1>4. CASE UNCHANGED rngVars
  BY <1>4 DEF rngVars, RngInv, TypeOK, Behind, Unseeded, SeedKept, Seeded
<1>5. QED
  BY <1>1, <1>2, <1>3, <1>4, FillByteHolds, RefillHolds DEF RngNext

\* The invariant holds throughout.
LEMMA RngInvariance == RngSpec => []RngInv
BY SeedingInit, RngStep, PTL DEF RngSpec

-----------------------------------------------------------------------------

\* Types, and that the generator exists exactly when entropy_mode names a source.
THEOREM RngTypeCorrect == RngSpec => []TypeOK
<1>1. RngInv => TypeOK
  BY DEF RngInv
<1>2. QED
  BY <1>1, RngInvariance, PTL

\* fill never hands a byte out twice.
THEOREM NoByteTwice == RngSpec => ServedOnce
<1>1. RngInv /\ [RngNext]_rngVars => [Seeded => served' # served]_rngVars
  BY RngStep
<1>2. QED
  BY <1>1, RngInvariance, PTL DEF RngSpec, ServedOnce

\* The key in memory never produced anything that was handed out.
THEOREM KeysAreErased == RngSpec => []KeyErased
<1>1. RngInv => KeyErased
  <2> SUFFICES ASSUME RngInv, Seeded, NEW b \in served
               PROVE  buf < key.gen /\ b[1] < key.gen
    BY DEF KeyErased, RngInv, Behind
  <2>1. b[1] \in Nat /\ buf \in Nat /\ key.gen \in Nat /\ buf < key.gen
    BY DEF RngInv, TypeOK, Key, Behind
  <2>2. b[1] < buf \/ b[1] = buf
    BY DEF RngInv, Behind
  <2>3. QED
    BY <2>1, <2>2
<1>2. QED
  BY <1>1, RngInvariance, PTL

\* The first seed stays in the key.
THEOREM SeedStays == RngSpec => []SeedKept
<1>1. RngInv => SeedKept
  BY DEF RngInv
<1>2. QED
  BY <1>1, RngInvariance, PTL

\* Reseeding is attempted in time.
THEOREM Reseeds == RngSpec => []ReseedsInTime
<1>1. RngInv => ReseedsInTime
  BY CsprngAssumption DEF RngInv, TypeOK, ReseedsInTime
<1>2. QED
  BY <1>1, RngInvariance, PTL
=============================================================================
