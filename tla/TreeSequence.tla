------------------------------ MODULE TreeSequence ------------------------------
(****************************************************************************)
(* The sequence number of a Tree (firmware, identity::next_seq), which goes *)
(* into every body the Tree signs and posts (net/oracle.cpp).  The counter  *)
(* lives in RAM; flash holds only a watermark, written once per Reserve     *)
(* numbers, and power may fail at any time.                                 *)
(****************************************************************************)
EXTENDS Naturals

CONSTANTS
  Reserve,   \* kSeqReserve, 256 in the firmware
  MaxBoots,  \* bounds of the model: how often the Tree boots,
  MaxPosts   \* and how much it posts after each boot

ASSUME ReserveAssumption ==
  /\ Reserve \in Nat \ {0}
  /\ MaxBoots \in Nat /\ MaxPosts \in Nat

VARIABLES
  stored,   \* seq_wm in flash, 0 while absent
  mark,     \* seq_watermark_, 0 until the first number after a boot
  counter,  \* seq_counter_
  up,
  boot,     \* the boots so far
  posts,    \* the posts since the last one
  sent      \* all bodies the Tree has posted

treeVars == <<stored, mark, counter, up, boot, posts, sent>>

TreeInit ==
  /\ stored = 0 /\ mark = 0 /\ counter = 0
  /\ up = FALSE /\ boot = 0 /\ posts = 0
  /\ sent = {}

Boot ==
  /\ ~up /\ boot < MaxBoots
  /\ up' = TRUE
  /\ boot' = boot + 1
  /\ mark' = 0 /\ counter' = 0 /\ posts' = 0
  /\ UNCHANGED <<stored, sent>>

PowerLoss == up /\ up' = FALSE /\ UNCHANGED <<stored, mark, counter, boot, posts, sent>>

(* Variation: the counter starts over.                                      *)
WrongResumed == IF mark # 0 THEN counter ELSE 0

(* The lazy load, and where the counter resumes: a whole block below the    *)
(* watermark.                                                               *)
Loaded == IF mark # 0 THEN mark ELSE IF stored # 0 THEN stored ELSE Reserve
Resumed == IF mark # 0 THEN counter ELSE Loaded - Reserve

NextSeq == Resumed + 1

(* Variation: the next block is reserved one number too late.               *)
WrongNextMark == IF NextSeq > Loaded THEN NextSeq + Reserve ELSE Loaded

(* The number that reaches the watermark reserves the next block.           *)
NextMark == IF NextSeq >= Loaded THEN NextSeq + Reserve ELSE Loaded

(* A body is known by the boot and the place in it; ts is its clock.        *)
Body(ts) == [seq |-> NextSeq, boot |-> boot, nth |-> posts + 1, ts |-> ts]

(* oracle_post_reading takes a number, which the flash has seen reserved by *)
(* then, signs and posts.  Whether the body arrives is up to the network.   *)
Post(ts) ==
  /\ up /\ posts < MaxPosts
  /\ counter' = NextSeq
  /\ mark' = NextMark
  /\ stored' = NextMark
  /\ posts' = posts + 1
  /\ sent' = sent \union {Body(ts)}
  /\ UNCHANGED <<up, boot>>

Bodies(times) == [seq: Nat, boot: Nat, nth: Nat, ts: times]

TreeTypeOK(times) ==
  /\ stored \in Nat /\ mark \in Nat /\ counter \in Nat
  /\ up \in BOOLEAN /\ boot \in 0..MaxBoots /\ posts \in 0..MaxPosts
  /\ sent \subseteq Bodies(times)

(* A boot costs fewer readings than a block has numbers: by then the Tree   *)
(* is past every number it has used before, and the oracle listens again.   *)
CatchesUp ==
  \A b, c \in sent : b.boot > c.boot /\ b.nth >= Reserve => b.seq > c.seq

(* identity.h:52: the counter possibly skips numbers and never repeats one. *)
(* It is not so: the first post of a boot takes up a block too early.       *)
NeverRepeats == \A b, c \in sent : b.seq = c.seq => b = c

================================================================================
