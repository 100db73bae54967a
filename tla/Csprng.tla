------------------------------- MODULE Csprng -------------------------------
(***************************************************************************)
(* Random numbers (kernel/src/rng.rs): seeding from the hardware sources   *)
(* that answer, ChaCha20 with fast key erasure, and the fallback.          *)
(*                                                                         *)
(* A key is represented by its generation and by its ingredients: the      *)
(* draws from hardware that went into it, each named by its source and the *)
(* number of the attempt.  XOR and the cipher combine ingredients and lose *)
(* none.  A byte is named by the generation of the key that produced it    *)
(* and its place in the block.  One iteration of fill's loop is one step.  *)
(***************************************************************************)
EXTENDS Integers

CONSTANTS
  Source,           \* the hardware sources: virtio and RDRAND
  BufLen,           \* bytes of a block that are handed out (32)
  RESEED_INTERVAL,  \* blocks between two attempts to reseed (1024)
  MaxBlocks         \* bound: blocks drawn

ASSUME CsprngAssumption ==
  /\ BufLen \in Nat \ {0}
  /\ RESEED_INTERVAL \in Nat \ {0}
  /\ MaxBlocks \in Nat

\* A key of the cipher; generation 0 is that of a generator not there yet.
Key == [gen : Nat, from : SUBSET (Source \X Nat)]

VARIABLES
  booted,    \* whether init_entropy has run
  mode,      \* entropy_mode: the sources that seeded the generator, none of them for
             \* Insecure and before init_entropy
  key,       \* the key of CSPRNG's cipher
  buf,       \* generation of the key that filled buf; 0 for the initial zeroes
  buf_pos,
  blocks,
  served,    \* the bytes handed out from CSPRNG
  attempt,   \* attempts to gather a seed
  unstirred, \* blocks drawn since the last attempt
  fallback   \* whether the fallback has been seeded and used

rngVars == <<booted, mode, key, buf, buf_pos, blocks, served, attempt, unstirred, fallback>>

RngInit ==
  /\ booted = FALSE
  /\ mode = {}
  /\ key = [gen |-> 0, from |-> {}]
  /\ buf = 0 /\ buf_pos = BufLen /\ blocks = 0
  /\ served = {}
  /\ attempt = 0
  /\ unstirred = 0
  /\ fallback = FALSE

\* The sources in "answering" delivered all of their bytes; gather_seed XORs them.
GatherSeed(answering) == {<<s, attempt>> : s \in answering}

Seeded == key.gen > 0

\* init_entropy.
InitEntropy(answering) ==
  /\ ~booted
  /\ booted' = TRUE
  /\ mode' = answering
  /\ key' = IF answering = {} THEN key ELSE [gen |-> 1, from |-> GatherSeed(answering)]
  /\ attempt' = attempt + 1
  /\ UNCHANGED <<buf, buf_pos, blocks, served, unstirred, fallback>>

\* Mutant: one block too many.
ReseedDueLate == blocks + 1 > RESEED_INTERVAL

ReseedDue == blocks + 1 >= RESEED_INTERVAL

\* Mutant: the fresh seed replaces the next one.
StirredOver(answering) == IF answering = {} THEN key.from ELSE GatherSeed(answering)

\* XOR of the next seed with a fresh one, if there is one.
Stirred(answering) == key.from \cup GatherSeed(answering)

\* Mutant: the cipher is kept and its stream continued.
RekeyForgotten(from) == [gen |-> key.gen, from |-> from]

\* inner is made anew from the first half of the block.
Rekey(from) == [gen |-> key.gen + 1, from |-> from]

\* Mutant: the position wraps around and the block is served again.
ServeWrapped(block, pos) ==
  /\ served' = served \cup {<<block, pos>>}
  /\ buf_pos' = (pos + 1) % BufLen

Serve(block, pos) ==
  /\ served' = served \cup {<<block, pos>>}
  /\ buf_pos' = pos + 1

\* fill hands out the next byte of the block.
FillByte ==
  /\ Seeded /\ buf_pos # BufLen
  /\ Serve(buf, buf_pos)
  /\ UNCHANGED <<booted, mode, key, buf, blocks, attempt, unstirred, fallback>>

\* fill finds the block used up: refill without reseeding.
Refill ==
  /\ Seeded /\ buf_pos = BufLen
  /\ key.gen < MaxBlocks
  /\ ~ReseedDue
  /\ buf' = key.gen
  /\ Serve(key.gen, 0)
  /\ key' = Rekey(key.from)
  /\ blocks' = blocks + 1
  /\ unstirred' = unstirred + 1
  /\ UNCHANGED <<booted, mode, attempt, fallback>>

\* refill asks the hardware again; if none answers it goes on with what it has.
RefillAndReseed(answering) ==
  /\ Seeded /\ buf_pos = BufLen
  /\ key.gen < MaxBlocks
  /\ ReseedDue
  /\ buf' = key.gen
  /\ Serve(key.gen, 0)
  /\ key' = Rekey(Stirred(answering))
  /\ blocks' = 0
  /\ attempt' = attempt + 1
  /\ unstirred' = 0
  /\ UNCHANGED <<booted, mode, fallback>>

\* get_random without a generator: before init_entropy, or for good.
Fallback ==
  /\ ~Seeded
  /\ fallback' = TRUE
  /\ UNCHANGED <<booted, mode, key, buf, buf_pos, blocks, served, attempt, unstirred>>

RngNext ==
  \/ \E answering \in SUBSET Source : InitEntropy(answering) \/ RefillAndReseed(answering)
  \/ FillByte
  \/ Refill
  \/ Fallback

RngSpec == RngInit /\ [][RngNext]_rngVars

-----------------------------------------------------------------------------
(* Properties                                                              *)

\* Types; the generator exists exactly when the mode names a source, so
\* entropy_is_cryptographic never vouches for the fallback.
TypeOK ==
  /\ booted \in BOOLEAN
  /\ mode \subseteq Source
  /\ key \in Key
  /\ Seeded <=> mode # {}
  /\ buf_pos \in 0 .. BufLen
  /\ blocks \in 0 .. RESEED_INTERVAL - 1
  /\ served \subseteq Nat \X (0 .. BufLen - 1)
  /\ fallback \in BOOLEAN

\* Each byte is handed out once: every step of fill serves one never served.
ServedOnce == [][Seeded => served' # served]_rngVars

\* Fast key erasure: the key in memory is not one that produced bytes that were
\* handed out, nor the rest of the block they came from.
KeyErased == Seeded => buf < key.gen /\ \A b \in served : b[1] < key.gen

\* What seeded the generator stays in its key, whatever sources answer or fail at
\* reseeding: a fresh seed is stirred in and never takes over.
SeedKept == Seeded => {<<s, 0>> : s \in mode} \subseteq key.from

\* refill asks the hardware again every RESEED_INTERVAL blocks.
ReseedsInTime == unstirred < RESEED_INTERVAL
=============================================================================
