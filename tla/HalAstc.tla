------------------------------- MODULE HalAstc ------------------------------
(***************************************************************************)
(* Compressed-format emulation of the Vulkan HAL (hal/src/astc.c).  An     *)
(* image of a compressed format the ICD lacks is a decoded image plus one  *)
(* block image per mip level in one allocation.  Copies go to the block    *)
(* images and a compute pass decodes what they wrote; barriers are         *)
(* mirrored to the block images.  ref is the image a driver with the       *)
(* format would keep: its blocks only.                                     *)
(*                                                                         *)
(* An image is one row of texels; a block is bw texels wide.  Plain images *)
(* are uncompressed ones whose texels have the size of a block.            *)
(***************************************************************************)
EXTENDS Integers, FiniteSets, Sequences

CONSTANTS Emulated, Plain, Class, Width, Mips, Values, Layouts, MaxOps

VARIABLES
    on,         \* images tracked in the table
    icd,        \* live ICD objects: <<"image", i>>, <<"block", i, m>>, <<"slot", i, m>>
    block,      \* block-image contents, a plain image's texels
    texel,      \* decoded contents: the class that decoded a block, and its value
    ref,        \* reference contents
    lay, blay,  \* layouts of the decoded image's mips and of the block images
    skew,       \* images a barrier could not be mirrored for (logged)
    raw,        \* mips with an undecoded region (logged)
    out,        \* what the last read-back gave, and what the reference gives
    init, pipe, \* the decoder's set-up: 0 not tried, 1 ready, -1 failed; by class
    ops

vars == <<on, icd, block, texel, ref, lay, blay, skew, raw, out, init, pipe, ops>>
data == <<block, texel, ref, raw, out>>
decoder == <<init, pipe>>

Imgs == Emulated \cup Plain
Levels == 0 .. Mips - 1
DivUp(a, b) == (a + b - 1) \div b
MipDim(m) == IF Width \div 2^m > 0 THEN Width \div 2^m ELSE 1

\* A class names its block width.
Bw(i) == IF i \in Emulated THEN Class[i] ELSE 1
Texels(m) == 0 .. MipDim(m) - 1
Blocks(i, m) == 0 .. (IF i \in Emulated THEN DivUp(MipDim(m), Bw(i)) ELSE MipDim(m)) - 1

Blank == 0
NoTexel == <<0, Blank>>
Parts(i) == {<<"image", i>>} \cup {<<"block", i, m>> : m \in Levels}

Init ==
    /\ on = {} /\ icd = {}
    /\ block = [i \in Imgs |-> [m \in Levels |-> [b \in Blocks(i, m) |-> Blank]]]
    /\ ref = block
    /\ texel = [i \in Emulated |-> [m \in Levels |-> [t \in Texels(m) |-> NoTexel]]]
    /\ lay = [i \in Emulated |-> [m \in Levels |-> 0]] /\ blay = lay
    /\ skew = {} /\ raw = {} /\ out = <<>>
    /\ init = 0 /\ pipe = [c \in {Class[i] : i \in Emulated} |-> 0]
    /\ ops = 0

Step == ops < MaxOps /\ ops' = ops + 1

-----------------------------------------------------------------------------
(* Images *)

\* nvhal_astc_CreateImage: any part may fail, and so may the requirements or
\* the table; what was made is destroyed.
CreateImage(i) ==
    /\ Step /\ i \notin on
    /\ on' = on \cup {i} /\ icd' = icd \cup Parts(i)
    /\ block' = [block EXCEPT ![i] = [m \in Levels |-> [b \in Blocks(i, m) |-> Blank]]]
    /\ ref' = [ref EXCEPT ![i] = block'[i]]
    /\ texel' = [texel EXCEPT ![i] = [m \in Levels |-> [t \in Texels(m) |-> <<Bw(i), Blank>>]]]
    /\ lay' = [lay EXCEPT ![i] = [m \in Levels |-> 0]]
    /\ blay' = [blay EXCEPT ![i] = [m \in Levels |-> 0]]
    /\ UNCHANGED <<skew, raw, out, decoder>>

\* destroy_parts frees the slots, the block images and the decoded image.
DestroyParts(i, app_image) ==
    icd' = icd \ ({<<"block", i, m>> : m \in Levels} \cup {<<"slot", i, m>> : m \in Levels}
                  \cup (IF app_image THEN {<<"image", i>>} ELSE {}))

CreateImageFails(i) ==
    /\ Step /\ i \notin on
    /\ \E made \in SUBSET Parts(i) :
          icd' = (icd \cup made) \ Parts(i)
    /\ UNCHANGED <<on, lay, blay, skew, data, decoder>>

DestroyImage(i) ==
    /\ Step /\ i \in on
    /\ on' = on \ {i}
    /\ DestroyParts(i, TRUE)
    /\ skew' = skew \ {i} /\ raw' = {r \in raw : r[1] # i}
    /\ UNCHANGED <<block, texel, ref, out, lay, blay, decoder>>

-----------------------------------------------------------------------------
(* Barriers *)

Remaining == 99

\* range_mips: how many levels a subresource range covers.
RangeMips(base, count) ==
    LET n == IF count = Remaining THEN Mips - base ELSE count IN
    IF base >= Mips THEN 0 ELSE IF n > Mips - base THEN Mips - base ELSE n

\* The app's barrier on the decoded image, and a mirrored one on every block
\* image of the range; out of host memory it is passed on alone, and logged.
Barriers(i, base, count, l) ==
    LET covered == {m \in Levels : m >= base /\ (count = Remaining \/ m < base + count)}
        mirrored == {m \in Levels : m >= base /\ m < base + RangeMips(base, count)}
    IN
    /\ Step /\ i \in on
    /\ lay' = [lay EXCEPT ![i] = [m \in Levels |-> IF m \in covered THEN l ELSE @[m]]]
    /\ \/ /\ blay' = [blay EXCEPT ![i] = [m \in Levels |-> IF m \in mirrored THEN l ELSE @[m]]]
          /\ UNCHANGED skew
       \/ /\ skew' = skew \cup {i} /\ UNCHANGED blay
    /\ UNCHANGED <<on, icd, data, decoder>>

-----------------------------------------------------------------------------
(* The decoder *)

\* decoder_init and decoder_pipeline: tried once, then sticky.
Tried(v) == IF v = 0 THEN {1, -1} ELSE {v}

\* slot_get: the views and the set of a (mip, layers), made once.
Slot(i, m) == icd' = icd \cup {<<"slot", i, m>>}

\* decode_jobs for one region: it is recorded when the queue family has
\* compute, the decoder and its pipeline are there and the slot can be made;
\* otherwise the texels stay as they are, which is logged.
DecodedTexels(i, m, x, w, bl) ==
    [t \in Texels(m) |-> IF t >= x /\ t < x + w THEN <<Bw(i), bl[t \div Bw(i)]>>
                         ELSE texel[i][m][t]]
Decode(i, m, x, w) ==
    /\ init' \in Tried(init)
    /\ pipe' \in IF init' = 1
                 THEN {[pipe EXCEPT ![Class[i]] = v] : v \in Tried(pipe[Class[i]])}
                 ELSE {pipe}
    /\ \/ /\ init' = 1 /\ pipe'[Class[i]] = 1
          /\ Slot(i, m)
          /\ texel' = [texel EXCEPT ![i][m] = DecodedTexels(i, m, x, w, block'[i][m])]
          /\ raw' = raw
       \/ /\ UNCHANGED <<icd, texel>>
          /\ raw' = raw \cup {<<i, m>>}

-----------------------------------------------------------------------------
(* Copies.  A region starts on a block and ends on one or on the edge. *)

Regions(i, m) == {r \in Texels(m) \X (1 .. MipDim(m)) :
    /\ r[1] % Bw(i) = 0 /\ r[1] + r[2] <= MipDim(m)
    /\ r[2] % Bw(i) = 0 \/ r[1] + r[2] = MipDim(m)}

RegionBlocksMutFloor(i, x, w) ==
    {b \in 0 .. Width : b >= x \div Bw(i) /\ b < x \div Bw(i) + w \div Bw(i)}

\* region_blocks: texels to blocks.
RegionBlocks(i, x, w) == {b \in 0 .. Width : b >= x \div Bw(i) /\ b < x \div Bw(i) + DivUp(w, Bw(i))}

\* What a driver with the format copies: the blocks the texels lie in.
RefBlocks(i, x, w) == {t \div Bw(i) : t \in x .. x + w - 1}

Put(f, where, v) == [b \in DOMAIN f |-> IF b \in where THEN v ELSE f[b]]

CopyBufferToImage(i, m, r, v) ==
    /\ Step /\ i \in on /\ r \in Regions(i, m)
    /\ block' = [block EXCEPT ![i][m] = Put(@, RegionBlocks(i, r[1], r[2]), v)]
    /\ ref' = [ref EXCEPT ![i][m] = Put(@, RefBlocks(i, r[1], r[2]), v)]
    /\ Decode(i, m, r[1], r[2])
    /\ UNCHANGED <<on, lay, blay, skew, out>>

CopyImageToBuffer(i, m, r) ==
    /\ Step /\ i \in on /\ r \in Regions(i, m)
    /\ out' = <<[b \in RegionBlocks(i, r[1], r[2]) |-> block[i][m][b]],
                [b \in RefBlocks(i, r[1], r[2]) |-> ref[i][m][b]]>>
    /\ UNCHANGED <<on, icd, block, texel, ref, lay, blay, skew, raw, decoder>>

\* vkCmdCopyBufferToImage2, vkCmdCopyImageToBuffer2, vkCmdCopyImage2 with a
\* pNext, and the commands the emulation refuses, are dropped and logged.
Dropped ==
    /\ Step
    /\ UNCHANGED <<on, icd, block, texel, ref, lay, blay, skew, raw, out, decoder>>

Known(i) == i \in Plain \/ i \in on
Shift(f, g, n, from, to) == [b \in DOMAIN g |-> IF b >= to /\ b < to + n THEN f[b - to + from] ELSE g[b]]

\* The texels a copy of n blocks covers, clipped to the mip level.
Clip(m, x, w) == IF x + w > MipDim(m) THEN (IF MipDim(m) > x THEN MipDim(m) - x ELSE 0) ELSE w

\* nvhal_astc_cmd_copy_image: the extent is in texels of the source.  Images of
\* one decode class copy their texels too; any other destination is decoded.
CopyImage(s, d, ms, md, r, dx) ==
    LET n == DivUp(r[2], Bw(s))
        from == r[1] \div Bw(s)
        to == dx \div Bw(d)
        sameClass == s \in Emulated /\ d \in Emulated /\ Bw(s) = Bw(d)
    IN
    /\ Step /\ <<s, ms>> # <<d, md>> /\ Known(s) /\ Known(d) /\ {s, d} \cap Emulated # {}
    /\ r \in Regions(s, ms)
    /\ dx % Bw(d) = 0 /\ (to .. to + n - 1) \subseteq Blocks(d, md)
    \* whole blocks of both, unless both end at their edges
    /\ sameClass => dx + r[2] <= MipDim(md) /\ (r[2] % Bw(d) = 0 \/ dx + r[2] = MipDim(md))
    /\ block' = [block EXCEPT ![d][md] = Shift(block[s][ms], @, n, from, to)]
    /\ ref' = [ref EXCEPT ![d][md] = Shift(ref[s][ms], @, n, from, to)]
    /\ IF sameClass
       THEN /\ texel' = [texel EXCEPT ![d][md] = Shift(texel[s][ms], @, r[2], r[1], dx)]
            /\ raw' = raw \cup (IF <<s, ms>> \in raw THEN {<<d, md>>} ELSE {})
            /\ UNCHANGED <<icd, decoder>>
       ELSE IF d \in Emulated
            THEN Decode(d, md, dx, Clip(md, dx, n * Bw(d)))
            ELSE UNCHANGED <<icd, texel, raw, decoder>>
    /\ UNCHANGED <<on, lay, blay, skew, out>>

\* nvhal_astc_device_teardown: leaked images give up their HAL objects, the
\* decoded image stays the app's; the decoder goes.
Teardown ==
    /\ Step
    /\ icd' = {o \in icd : o[1] = "image"} /\ on' = {}
    /\ icd' \cap {<<"image", i>> : i \in on} = {<<"image", i>> : i \in on}
    /\ init' = 0 /\ pipe' = [c \in DOMAIN pipe |-> 0]
    /\ ops' = MaxOps
    /\ skew' = {} /\ raw' = {} /\ UNCHANGED <<block, texel, ref, out, lay, blay>>

Next ==
    \/ \E i \in Emulated :
          \/ CreateImage(i) \/ CreateImageFails(i) \/ DestroyImage(i)
          \/ \E base \in Levels, count \in {1, Remaining}, l \in Layouts : Barriers(i, base, count, l)
          \/ \E m \in Levels : \E r \in Regions(i, m) :
                \/ CopyImageToBuffer(i, m, r)
                \/ \E v \in Values : CopyBufferToImage(i, m, r, v)
    \/ \E s \in Imgs, d \in Imgs, ms \in Levels, md \in Levels :
          \E r \in Regions(s, ms), dx \in Texels(md) : CopyImage(s, d, ms, md, r, dx)
    \/ Dropped \/ Teardown

Spec == Init /\ [][Next]_vars
-----------------------------------------------------------------------------
\* What a shader samples is the decoding of the blocks the application put
\* there, for every mip not logged as undecoded: through uploads, copies
\* between mips, classes and uncompressed images, and partial edge blocks
\* (astc.c:1418-1427, 1588-1675).
TexelsAreDecoded ==
    \A i \in on, m \in Levels : <<i, m>> \notin raw =>
        \A t \in Texels(m) : texel[i][m][t] = <<Bw(i), ref[i][m][t \div Bw(i)]>>

\* Reading back gives the application's own blocks, decoded or not.
ReadBackExact ==
    /\ block = ref
    /\ out # <<>> => out[1] = out[2]

\* Every block image is in the layout of the mip level it stands for, unless
\* a barrier was logged as not mirrored (astc.c:1363-1410).
LayoutsAgree == \A i \in on \ skew : lay[i] = blay[i]

\* The ICD objects are those of the images the application has: a failed
\* create and a destroy leave none behind (astc.c:998-1105).
PartsExact ==
    ops < MaxOps => /\ \A i \in Emulated : i \in on => Parts(i) \subseteq icd
                    /\ \A o \in icd : o[2] \in on
=============================================================================
