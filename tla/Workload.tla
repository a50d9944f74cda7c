------------------------------ MODULE Workload ------------------------------
(***************************************************************************)
(* workload.hpp: the memory that a query touches after its lookup.  The    *)
(* buffer's contents only feed a sink and are left out; a touch is the     *)
(* address of the first byte of a word.  The addresses of a call depend on *)
(* its tag and on the tables of the constructor alone, so that it does not *)
(* matter that in Poisson mode all clients share one object.  Lines and    *)
(* words are a few bytes long.  The sizes are those of --bytes and         *)
(* --universe, which nothing checks; what an access outside the buffer     *)
(* does to the rest of the program is left out.                            *)
(***************************************************************************)
EXTENDS Integers, Sequences, FiniteSetsExt

CONSTANTS
  LINE,       \* bytes in a cache line
  WORD,       \* bytes in a uint64_t
  Sizes,      \* per_call_bytes, as given to the constructor
  Universes,  \* universe_bytes, as given to the constructor
  Tags

ASSUME WorkloadAssumption ==
  /\ LINE \in Nat \ {0} /\ WORD \in 1 .. LINE /\ LINE % WORD = 0
  /\ Sizes \subseteq Nat /\ Universes \subseteq Nat /\ Tags \subseteq Nat

VARIABLES
  work,    \* the object that the constructor made
  touched  \* the words of the buffer that the last call of each tag touched

workvars == <<work, touched>>

Kinds == {"polluter", "object", "storage"}

(* What the constructor may make, shuffles included, if extra slots are    *)
(* laid out beyond those that the buffer needs.                            *)
Layouts(kind, per, universe, extra) ==
  LET per_call == IF per = 0 THEN LINE ELSE per
      lines    == Max({1, universe \div LINE})
      bytes    == lines * LINE
      slots    == (bytes + per_call - 1) \div per_call + extra
  IN  [kind : {kind}, per_call_bytes : {per_call}, universe_bytes : {bytes},
       total_lines : {lines}, lines_per_call : {Max({1, per_call \div LINE})},
       slots : {slots},
       line_perm : Bijection(0 .. lines - 1, 0 .. lines - 1),
       offsets : Bijection(0 .. slots - 1, 0 .. slots - 1)]

(* Mutant: one slot too many.                                              *)
WorkloadOneMore(kind, per, universe) == Layouts(kind, per, universe, 1)

(* The constructor, for a kind other than None.                            *)
Workloads(kind, per, universe) == Layouts(kind, per, universe, 0)

WInit ==
  /\ \E kind \in Kinds, per \in Sizes, universe \in Universes :
       work \in Workloads(kind, per, universe)
  /\ touched = [tag \in Tags |-> <<>>]

(* Mutant: the walk does not wrap at the end of the permutation but stays. *)
WrapStays(idx) == Min({idx, work.total_lines - 1})

Wrap(idx) == IF idx >= work.total_lines THEN idx - work.total_lines ELSE idx

(* The tag times an odd constant, modulo the width of a size_t: here 4     *)
(* bits.                                                                   *)
hash(tag) == (tag * 5) % 16

(* line_perm_[idx]: beyond the end of the vector whatever is there, a line *)
(* of the buffer or one outside, the line number total_lines.              *)
Line(idx) ==
  IF idx < work.total_lines THEN {work.line_perm[idx]} ELSE 0 .. work.total_lines

(* The walks that a call may take.                                         *)
polluter(tag) ==
  LET start == hash(tag) % work.total_lines
      steps == 1 .. work.lines_per_call
  IN  {[j \in steps |-> f[j] * LINE] :
         f \in {g \in [steps -> 0 .. work.total_lines] :
                 \A j \in steps : g[j] \in Line(Wrap(start + j - 1))}}

Slot(tag) ==
  work.offsets[tag % work.slots] * work.per_call_bytes

(* for (off = 0; off < per_call_bytes_; off += step)                       *)
Payload(tag, step) ==
  [j \in 1 .. (work.per_call_bytes + step - 1) \div step |-> Slot(tag) + (j - 1) * step]

object_access(tag) == {Payload(tag, WORD)}

(* The metadata records that are read first are other buffers.             *)
storage_stack(tag) == {Payload(tag, LINE)}

Walks(tag) ==
  CASE work.kind = "polluter" -> polluter(tag)
    [] work.kind = "object"   -> object_access(tag)
    [] work.kind = "storage"  -> storage_stack(tag)

run(tag) ==
  /\ \E walk \in Walks(tag) : touched' = [touched EXCEPT ![tag] = walk]
  /\ UNCHANGED work

WNext == \E tag \in Tags : run(tag)

WSpec == WInit /\ [][WNext]_workvars

-----------------------------------------------------------------------------
(* Properties                                                              *)

InBuffer(a) == a >= 0 /\ a + WORD <= work.universe_bytes

(* What the walks rely on and the constructor does not check: of Polluter  *)
(* at most one line more than there are (a walk wraps once), of the others *)
(* objects of whole words that divide the buffer (slots are rounded up).   *)
SizesFit ==
  IF work.kind = "polluter"
  THEN work.lines_per_call <= work.total_lines + 1
  ELSE work.per_call_bytes % WORD = 0 /\ work.universe_bytes % work.per_call_bytes = 0

(* With sizes that fit, every word that a call reads lies in the buffer,   *)
(* for every shuffle (workload.hpp:29-34, 57-71, 110-150).                 *)
TouchesInBuffer ==
  SizesFit => \A tag \in Tags : \A a \in Range(touched[tag]) : InBuffer(a)

(* The lines that are touched are "drawn from a pre-shuffled permutation   *)
(* of the whole universe" (workload.hpp:97-98), and payloads are read from *)
(* slots of it (workload.hpp:64-66), whatever sizes are asked for.         *)
TouchesUniverse ==
  \A tag \in Tags : \A a \in Range(touched[tag]) : InBuffer(a)

(* Polluter touches lines_per_call_ different lines, also where its walk   *)
(* wraps, if there are so many: the "counts of lines" that per_call_bytes  *)
(* stands for (workload.hpp:97-109).  For the others, "repeated tags read  *)
(* the same object payload" (workload.hpp:64-66), and tags of different    *)
(* slots read payloads that share no byte if objects are whole words,      *)
(* whether or not they divide the buffer.                                  *)
WalksSpread ==
  \A x, y \in {tag \in Tags : touched[tag] # <<>>} :
    IF work.kind = "polluter"
    THEN work.lines_per_call <= work.total_lines =>
           DOMAIN touched[x] = 1 .. work.lines_per_call /\ IsInjective(touched[x])
    ELSE IF x % work.slots = y % work.slots THEN touched[x] = touched[y]
    ELSE work.per_call_bytes % WORD = 0 =>
           \A a \in Range(touched[x]), b \in Range(touched[y]) :
             a + WORD <= b \/ b + WORD <= a

=============================================================================
