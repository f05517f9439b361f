------------------------------- MODULE VvPatch -------------------------------
(***************************************************************************)
(* vvpatch.c: the tier table of a package is decoded, the keyed hash it     *)
(* uses is recovered from its first entry, every tier is raised, entries    *)
(* for the running GPU are put in front, and the package is written again   *)
(* with the new table.                                                      *)
(*                                                                          *)
(* Strings are sequences of character codes.  The hash is taken modulo M    *)
(* (2^31 in the code) over the base Base (257), and an entry's hash has one *)
(* more bit on top, which the code does not know.                           *)
(***************************************************************************)
EXTENDS Integers, Sequences, SequencesExt, FiniteSets

CONSTANTS
    Renderers,  \* GL_RENDERER strings
    Tables,     \* sequences of [name, tier]: the "gpu" object of the package
    Seeds,      \* R(0) of the package's hash, which vvpatch has to find
    Packages,   \* sequences of entry names, one of them Tiers
    Tiers,      \* TIERS_PATH
    M, Base,
    NameMax,    \* sizeof aname
    KeyMax,     \* 511
    MaxK,       \* MAXK
    Passes,     \* 4
    Failing     \* which copied entry fails (0: none)

VARIABLES
    renderer, table, seed, package,   \* the inputs
    pc, r0, keys, pass, base, entries, output

vars == <<renderer, table, seed, package, pc, r0, keys, pass, base, entries, output>>

Space == 1
Open == 2
Close == 3
Comma == 4
Template == <<Open, 8, 9, Close>>     \* "(%s)"
Angle == <<10, Space, Open>>          \* "ANGLE ("
Low(a, b) == IF a < b THEN a ELSE b
From(s, i) == SubSeq(s, i, Len(s))

-----------------------------------------------------------------------------
(* base64: three bytes are four digits below 64; 64 is the padding sign. *)
EncodeGroup(g) ==
    LET x == (g[1] * 256 + (IF Len(g) > 1 THEN g[2] ELSE 0)) * 256 + (IF Len(g) > 2 THEN g[3] ELSE 0)
        digits == <<x \div 262144, (x \div 4096) % 64, (x \div 64) % 64, x % 64>>
    IN  SubSeq(digits, 1, Len(g) + 1) \o [i \in 1..(3 - Len(g)) |-> 64]

Groups(s, n) == [i \in 1..((Len(s) + n - 1) \div n) |-> SubSeq(s, (i - 1) * n + 1, Low(i * n, Len(s)))]

B64Encode(s) == FlattenSeq([i \in 1..Len(Groups(s, 3)) |-> EncodeGroup(Groups(s, 3)[i])])

DecodeGroup(q) ==
    LET b1 == (q[1] * 4 + q[2] \div 16) % 256
        b2 == (q[2] * 16 + q[3] \div 4) % 256
        b3 == (q[3] * 64 + q[4]) % 256
    IN  CASE Len(q) = 4 -> <<b1, b2, b3>>
          [] Len(q) = 3 -> <<b1, b2>>
          [] Len(q) = 2 -> <<b1>>
          [] OTHER -> <<>>

(* Characters that are no digit are passed over, the padding too. *)
B64Decode(s) ==
    LET digits == SelectSeq(s, LAMBDA c : c < 64)
    IN  FlattenSeq([i \in 1..Len(Groups(digits, 4)) |-> DecodeGroup(Groups(digits, 4)[i])])

-----------------------------------------------------------------------------
(* Pf: sum of c_i * Base^i *)
RECURSIVE PfFrom(_)
PfFrom(a) ==
    IF a.rest = <<>> THEN a.acc
    ELSE PfFrom([rest |-> Tail(a.rest), p |-> (a.p * Base) % M,
                 acc |-> (a.acc + Head(a.rest) * a.p) % M])
Pf(s) == PfFrom([rest |-> s, p |-> 1, acc |-> 0])

(* init_modinv: the extended Euclid for Base modulo M *)
RECURSIVE Euclid(_, _, _, _)
Euclid(t, nt, r, nr) ==
    IF nr = 0 THEN IF t < 0 THEN t + M ELSE t
    ELSE LET q == r \div nr IN Euclid(nt, t - q * nt, nr, r - q * nr)
ModInv == Euclid(0, 1, M, Base)

(* Rlen: R(L) = Base * R(L-1) + 1 from R(0) *)
RECURSIVE Rlen(_, _)
Rlen(r, n) == IF n = 0 THEN r ELSE Rlen((r * Base + 1) % M, n - 1)

(* calibrate: from the hash of a known name back to R(0) *)
RECURSIVE StepDown(_, _)
StepDown(r, n) == IF n = 0 THEN r ELSE StepDown((((r + M - 1) % M) * ModInv) % M, n - 1)
Calibrated(name, hash) == StepDown(((hash % M) + M - Pf(name)) % M, Len(name))

HashCandidates(s) ==
    LET lo == (Pf(s) + Rlen(r0, Len(s))) % M IN <<lo, lo + M>>

(* External: what the game computes for a string; bit is its unknown top bit *)
GameHash(s, bit) == ((Pf(s) + Rlen(seed, Len(s))) % M) + bit * M

-----------------------------------------------------------------------------
(* ADDK *)
AddKey(ks, s) ==
    IF s = <<>> \/ Len(s) >= KeyMax \/ Len(ks) >= MaxK \/ s \in ToSet(ks) THEN ks
    ELSE Append(ks, s)

(* How deep the brackets are open after s[i..j] *)
Depth(s, i, j) ==
    Cardinality({k \in i..j : s[k] = Open}) - Cardinality({k \in i..j : s[k] = Close})

(* Every bracketed part, nested ones too *)
Bracketed(s, i) ==
    LET ends == {j \in i..Len(s) : s[j] = Close /\ Depth(s, i, j) = 0}
    IN  IF ends = {} THEN <<>>
        ELSE SubSeq(s, i + 1, (CHOOSE j \in ends : \A k \in ends : j <= k) - 1)

RECURSIVE Trimmed(_)
Trimmed(s) == IF s # <<>> /\ Last(s) \in {Close, Space} THEN Trimmed(Front(s)) ELSE s

Driver(s) ==
    LET at == {i \in 1..(Len(s) - 1) : s[i] = Comma /\ s[i + 1] = Space}
    IN  IF at = {} THEN <<>>
        ELSE Trimmed(From(s, (CHOOSE i \in at : \A k \in at : k <= i) + 2))

Vendor(s) ==
    LET v == IF IsPrefix(Angle, s) THEN From(s, Len(Angle) + 1) ELSE s
        stop == {i \in 1..Len(v) : v[i] \in {Comma, Space, Open}}
    IN  IF stop = {} THEN v ELSE SubSeq(v, 1, (CHOOSE i \in stop : \A k \in stop : i <= k) - 1)

BaseKeys(s) ==
    LET opens == SetToSortSeq({i \in 1..Len(s) : s[i] = Open}, <)
        inner == FoldLeft(LAMBDA ks, i : AddKey(ks, Bracketed(s, i)), AddKey(<<>>, s), opens)
    IN  AddKey(AddKey(inner, Driver(s)), Vendor(s))

(* The three transforms: without the leading word, without the trailing     *)
(* " (...)", and with that replaced by " (%s)".                             *)
Tail1(s) ==
    LET sp == {i \in 1..(Len(s) - 1) : s[i] = Space}
    IN  IF sp = {} THEN <<>> ELSE From(s, (CHOOSE i \in sp : \A k \in sp : i <= k) + 1)

Matching(s) ==
    LET opens == {i \in 1..Len(s) : s[i] = Open /\ Depth(s, i, Len(s)) = 0}
    IN  IF Len(s) < 4 \/ Last(s) # Close \/ opens = {} THEN 0
        ELSE CHOOSE i \in opens : \A k \in opens : k <= i

Expanded(ks, s) ==
    LET q == Matching(s)
        one == AddKey(ks, Tail1(s))
    IN  IF q > 1 /\ s[q - 1] = Space
        THEN AddKey(AddKey(one, SubSeq(s, 1, q - 2)), SubSeq(s, 1, q - 1) \o Template)
        ELSE one

RECURSIVE ExpandAll(_)
ExpandAll(a) == IF a.rest = <<>> THEN a.keys
                ELSE ExpandAll([rest |-> Tail(a.rest), keys |-> Expanded(a.keys, Head(a.rest))])

-----------------------------------------------------------------------------
Init ==
    /\ renderer \in Renderers /\ table \in Tables /\ seed \in Seeds /\ package \in Packages
    /\ pc = "calibrate" /\ r0 = 0 /\ keys = <<>> /\ pass = 0 /\ base = 0
    /\ entries = <<>> /\ output = <<>>

Inputs == <<renderer, table, seed, package>>

(* The anchor is the table's first entry; its name is cut to the buffer.    *)
(* The other tiers are raised, unless they are no digit from 1 to 5.        *)
Calibrate ==
    /\ pc = "calibrate"
    /\ \E bit \in {0, 1} :
        r0' = Calibrated(SubSeq(table[1].name, 1, Low(Len(table[1].name), NameMax - 1)), GameHash(table[1].name, bit))
    /\ entries' = [i \in 1..Len(table) |->
                      [tier |-> IF table[i].tier \in 1..5 THEN 5 ELSE table[i].tier,
                       hash |-> GameHash(table[i].name, 0)]]
    /\ pc' = "keys"
    /\ UNCHANGED <<Inputs, keys, pass, base, output>>

Collect ==
    /\ pc = "keys"
    /\ keys' = BaseKeys(renderer)
    /\ pc' = "expand"
    /\ UNCHANGED <<Inputs, r0, pass, base, entries, output>>

(* One pass over the keys there were when it began; the passes stop when    *)
(* one adds nothing.                                                        *)
Expand ==
    /\ pc = "expand"
    /\ base' = Len(keys)
    /\ keys' = ExpandAll([rest |-> keys, keys |-> keys])
    /\ pass' = pass + 1
    /\ pc' = IF keys' = keys \/ pass' = Passes THEN "inject" ELSE "expand"
    /\ UNCHANGED <<Inputs, r0, entries, output>>

Inject ==
    /\ pc = "inject"
    /\ entries' = [i \in 1..(2 * Len(keys)) |->
                      [tier |-> 5, hash |-> HashCandidates(keys[(i + 1) \div 2])[2 - (i % 2)]]]
                  \o entries
    /\ pc' = "repack"
    /\ UNCHANGED <<Inputs, r0, keys, pass, base, output>>

(* Every entry but the table is copied, then the table is added; a failure  *)
(* ends the program without a finished package.                             *)
Repack(fail) ==
    /\ pc = "repack"
    /\ LET kept == SelectSeq(package, LAMBDA n : n # Tiers)
       IN  IF fail \in 1..(Len(kept) + 2)
           THEN output' = <<>> /\ pc' = "failed"
           ELSE output' = Append(kept, Tiers) /\ pc' = "done"
    /\ UNCHANGED <<Inputs, r0, keys, pass, base, entries>>

Next == Calibrate \/ Collect \/ Expand \/ Inject \/ \E fail \in Failing : Repack(fail)

Spec == Init /\ [][Next]_vars

-----------------------------------------------------------------------------
(* The hash the game computes for any of the candidate names is in the      *)
(* table, with tier 5, whichever its top bit: the seed found from one entry *)
(* serves names of every other length.                                      *)
HashesHit ==
    pc \in {"repack", "done"} /\ Len(table[1].name) < NameMax =>
        \A k \in ToSet(keys), bit \in {0, 1} :
            [tier |-> 5, hash |-> GameHash(k, bit)] \in ToSet(entries)

(* The candidates are distinct, include the full string, and when the       *)
(* passes stopped on their own no transform leads out of them.              *)
KeysClosed ==
    /\ \A i, j \in 1..Len(keys) : keys[i] = keys[j] => i = j
    /\ pc = "repack" => renderer \in ToSet(keys)
    /\ pc = "repack" /\ pass < Passes =>
         \A k \in ToSet(keys) : Expanded(keys, k) = keys

(* A finished package has every entry of the old one exactly once, and the  *)
(* table survives its encoding.                                             *)
PackageWhole ==
    /\ pc = "done" =>
         /\ ToSet(output) = ToSet(package) /\ Len(output) = Len(package)
         /\ \A e \in ToSet(entries) : e.tier \notin 1..4
    /\ pc = "repack" =>
         LET bytes == [i \in 1..Len(renderer) |-> (renderer[i] * 23) % 256]
         IN  \A n \in 0..Len(bytes) : B64Decode(B64Encode(SubSeq(bytes, 1, n))) = SubSeq(bytes, 1, n)
=============================================================================
