-------------------------------- MODULE Mtrr --------------------------------
(***************************************************************************)
(* The memory type of a page (src/minihv/mtrr.c): what MtrrInit keeps of   *)
(* the memory-type range registers, and MtrrGetPageMemoryType, which       *)
(* decodes the fixed-range registers below 1 MB and searches the variable  *)
(* ranges above, one range per step. EptMapGuestPaToPa writes the result   *)
(* into the page's leaf, so it must be the type the processor itself would *)
(* use.                                                                    *)
(*                                                                         *)
(* A page is its page number. A variable range is its base page and its    *)
(* size in pages, a power of two, which stands for the mask (contiguous).  *)
(***************************************************************************)
EXTENDS Integers, Sequences

CONSTANTS
    Settings,   \* what the firmware may have left in the registers
    Pages,      \* the pages whose type is asked for
    KeptPages   \* the pages told apart by the 28 bits kept of base and mask

Types      == {"UC", "WC", "WT", "WP", "WB"}
FixedPages == 256

Range   == [valid: BOOLEAN, base: Nat, size: Nat \ {0}, type: Types]
Setting == [e: BOOLEAN, fe: BOOLEAN, default: Types, ranges: Seq(Range),
            fix64: [0 .. 7 -> Types],
            fix16: [0 .. 1 -> [0 .. 7 -> Types]],
            fix4:  [0 .. 7 -> [0 .. 7 -> Types]]]

ASSUME ConstantsAreSane ==
    /\ Settings \subseteq Setting
    /\ \A s \in Settings : Len(s.ranges) <= 10   \* m_mtrrVariableRangesMsrs
    /\ Pages \subseteq Nat
    /\ KeptPages \in Nat /\ KeptPages > FixedPages

VARIABLES
    mtrr,       \* the registers
    default,    \* m_mtrrDefaultMemoryType
    vcnt,       \* m_mtrrVcnt
    page,       \* the page in question
    i,          \* the ranges looked at so far
    result,     \* the answer, or "none"
    pc          \* "off", "ready", "loop"

vars == <<mtrr, default, vcnt, page, i, result, pc>>

Init ==
    /\ mtrr \in Settings
    /\ default = "none" /\ vcnt = 0
    /\ page = 0 /\ i = 0 /\ result = "none"
    /\ pc = "off"

---------------------------------------------------------------------------
(* The fixed ranges *)

Fixed64K(s, p) == s.fix64[(p \div 16) % 16]

\* Mutant: both halves of a register are read from its lower half.
Fixed16KLower(s, p) == s.fix16[(p \div 16 - 8) \div 2][(p % 16) \div 4]

\* m_mtrrFixed16KRangeMsrMap lists each of the two registers twice.
Fixed16K(s, p) == s.fix16[(p \div 16 - 8) \div 2][(p % 16) \div 4 + 4 * ((p \div 16) % 2)]

Fixed4K(s, p) == s.fix4[2 * (p \div 16 - 12) + (p % 16) \div 8][p % 8]

Fixed(s, p) ==
    IF p < 128 THEN Fixed64K(s, p)
    ELSE IF p < 192 THEN Fixed16K(s, p)
    ELSE Fixed4K(s, p)

\* (BaseAddress & physMask) == (physBase & physMask)
Hits(r, p) == r.valid /\ (p % KeptPages) \div r.size = (r.base % KeptPages) \div r.size

---------------------------------------------------------------------------
(* The steps *)

\* MtrrGetCapabilities: the flags E and FE are read and not kept.
MtrrInit ==
    /\ pc = "off" /\ pc' = "ready"
    /\ vcnt' = Len(mtrr.ranges) /\ default' = mtrr.default
    /\ UNCHANGED <<mtrr, page, i, result>>

MtrrGetPageMemoryType(p) ==
    /\ pc = "ready"
    /\ page' = p /\ i' = 0
    /\ IF p < FixedPages
       THEN result' = Fixed(mtrr, p) /\ UNCHANGED pc
       ELSE result' = "none" /\ pc' = "loop"
    /\ UNCHANGED <<mtrr, default, vcnt>>

\* One iteration: the first range that is valid and matches decides.
NextRange ==
    /\ pc = "loop" /\ i < vcnt
    /\ IF Hits(mtrr.ranges[i + 1], page)
       THEN result' = mtrr.ranges[i + 1].type /\ pc' = "ready" /\ UNCHANGED i
       ELSE i' = i + 1 /\ UNCHANGED <<result, pc>>
    /\ UNCHANGED <<mtrr, default, vcnt, page>>

NoRange ==
    /\ pc = "loop" /\ i = vcnt
    /\ result' = default /\ pc' = "ready"
    /\ UNCHANGED <<mtrr, default, vcnt, page, i>>

Next ==
    \/ MtrrInit
    \/ \E p \in Pages : MtrrGetPageMemoryType(p)
    \/ NextRange \/ NoRange

Spec     == Init /\ [][Next]_vars

---------------------------------------------------------------------------
(* The type the processor uses: the rules for memory-type range registers *)

\* Consecutive regions, eight to a register: 64 KB, then 16 KB, then 4 KB each.
FixedType(s, p) ==
    IF p < 128 THEN s.fix64[p \div 16]
    ELSE IF p < 192 THEN s.fix16[((p - 128) \div 4) \div 8][((p - 128) \div 4) % 8]
    ELSE s.fix4[(p - 192) \div 8][(p - 192) % 8]

Contains(r, p) == r.valid /\ p \div r.size = r.base \div r.size
Containing(s, p) == {k \in 1 .. Len(s.ranges) : Contains(s.ranges[k], p)}

\* Overlapping ranges: UC wins, WT wins over WB, anything else is undefined.
Combined(ts) ==
    IF "UC" \in ts THEN "UC"
    ELSE IF ts = {"WT", "WB"} THEN "WT"
    ELSE CHOOSE t \in ts : TRUE

ProcessorType(s, p) ==
    IF ~ s.e THEN "UC"
    ELSE IF s.fe /\ p < FixedPages THEN FixedType(s, p)
    ELSE IF Containing(s, p) = {} THEN s.default
    ELSE Combined({s.ranges[k].type : k \in Containing(s, p)})

---------------------------------------------------------------------------
(* Properties *)

TypeOK ==
    /\ mtrr \in Settings
    /\ default \in IF pc = "off" THEN {"none"} ELSE Types
    /\ vcnt \in Nat /\ i \in 0 .. vcnt /\ page \in Nat
    /\ result \in Types \cup {"none"}
    /\ pc \in {"off", "ready", "loop"}

\* The registers are enabled, and base and mask fit into the bits that are kept.
Enabled(s) == s.e /\ s.fe
Fits(s, p) == p < KeptPages /\ \A k \in 1 .. Len(s.ranges) : s.ranges[k].base < KeptPages

\* Ranges that overlap in the page have one type, or the first of them is UC.
NoConflict(s, p) ==
    \A k \in Containing(s, p) :
        \/ \E j \in Containing(s, p) : j < k
        \/ s.ranges[k].type = "UC"
        \/ \A j \in Containing(s, p) : s.ranges[j].type = s.ranges[k].type

\* The type written into the EPT leaf is the type the processor would use, for every
\* fixed region and every list of variable ranges without a conflict, in whatever
\* order and with whatever unused registers between them.
TypeIsTheProcessors ==
    (/\ pc = "ready" /\ result # "none"
     /\ Enabled(mtrr) /\ Fits(mtrr, page) /\ NoConflict(mtrr, page))
        => result = ProcessorType(mtrr, page)
=============================================================================
