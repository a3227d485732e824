------------------------- MODULE EcryptfsDataProofs -------------------------
(* The data of an encrypted file, from the cipher up to the page cache.    *)
(* For any length of the data, any page and block size and any numbers of  *)
(* parts: the parts of gaes_ecb.c never overlap, make up the data if they  *)
(* are whole pages, and none is outstanding when the completions are freed. *)
(* For any number of processes and of pages of any size: what finished     *)
(* ecryptfs_write2 calls wrote is stored, and an ecryptfs_read2 returns it. *)
(* For any number and size of pages of Linux 4.7's page cache: a file      *)
(* holds what was written to it, and its header has its size.  For any     *)
(* number of tasks and pages: read-ahead leaves the newest contents.       *)
EXTENDS GaesEcb, EcryptfsFile, EcryptfsPages, EcryptfsReadahead, SequenceTheorems, TLAPS

-----------------------------------------------------------------------------
(* Division.                                                               *)
LEMMA Division ==
    ASSUME NEW a \in Nat, NEW b \in Nat \ {0}
    PROVE  /\ a \div b \in Nat /\ a % b \in 0 .. (b - 1)
           /\ a % b = a - b * (a \div b)
           /\ b * (a \div b) <= a /\ a < b * (a \div b) + b
<1>1. a \div b \in Nat /\ a % b \in 0 .. (b - 1)
  OBVIOUS
<1>2. a % b = a - b * (a \div b)
  BY SMTT(30)
<1>3. b * (a \div b) <= a
  OBVIOUS
<1>4. a < b * (a \div b) + b
  OBVIOUS
<1>. QED  BY <1>1, <1>2, <1>3, <1>4

(* The quotient is the only number of its kind.                            *)
LEMMA Quotient ==
    ASSUME NEW a \in Nat, NEW b \in Nat \ {0}, NEW q \in Nat, b * q <= a, a < b * q + b
    PROVE  a \div b = q
<1>. QED  OBVIOUS

LEMMA Monotone ==
    ASSUME NEW j \in Nat, NEW k \in Nat, NEW b \in Nat, j <= k
    PROVE  j * b <= k * b /\ j * b \in Nat
<1>. QED  OBVIOUS

LEMMA MonotoneStrict ==
    ASSUME NEW j \in Nat, NEW k \in Nat, NEW b \in Nat, j < k
    PROVE  j * b + b <= k * b
<1>1. j + 1 <= k /\ (j + 1) * b = j * b + b
  OBVIOUS
<1>2. (j + 1) * b <= k * b
  BY <1>1, Monotone
<1>. QED  BY <1>1, <1>2

(* Multiples.                                                              *)
LEMMA Multiple ==
    ASSUME NEW m \in Nat, NEW b \in Nat \ {0}
    PROVE  (b * m) % b = 0 /\ (b * m) \div b = m
<1>. QED  OBVIOUS

(* A number of whole blocks is what the GPU works on, unchanged.           *)
LEMMA WholeMultiple ==
    ASSUME NEW a \in Nat, NEW b \in Nat \ {0}, a % b = 0
    PROVE  (a \div b) * b = a /\ a \div b \in Nat /\ a = b * (a \div b)
<1>1. a \div b \in Nat /\ a = b * (a \div b)
  BY Division
<1>2. b * (a \div b) = (a \div b) * b
  BY <1>1
<1>. QED  BY <1>1, <1>2

LEMMA ProductMultiple ==
    ASSUME NEW a \in Nat, NEW b \in Nat \ {0}, a % b = 0, NEW k \in Nat
    PROVE  k * a \in Nat /\ (k * a) % b = 0
<1>. DEFINE m == a \div b
<1>1. m \in Nat /\ a = b * m
  BY WholeMultiple
<1>. HIDE DEF m
<1>2. k * a = b * (k * m) /\ k * m \in Nat
  BY <1>1
<1>. QED  BY <1>1, <1>2, Multiple

LEMMA DifferenceMultiple ==
    ASSUME NEW a \in Nat, NEW c \in Nat, NEW b \in Nat \ {0}, a % b = 0, c % b = 0, c <= a
    PROVE  (a - c) % b = 0
<1>. DEFINE p == a \div b
            q == c \div b
<1>1. p \in Nat /\ a = b * p /\ q \in Nat /\ c = b * q
  BY WholeMultiple
<1>. HIDE DEF p, q
<1>2. q <= p
  <2>1. CASE p < q
    <3>1. p * b + b <= q * b
      BY <1>1, <2>1, MonotoneStrict
    <3>2. p * b = a /\ q * b = c
      BY <1>1
    <3>. QED  BY <3>1, <3>2
  <2>. QED  BY <1>1, <2>1
<1>3. a - c = b * (p - q) /\ p - q \in Nat
  BY <1>1, <1>2
<1>. QED  BY <1>3, Multiple

-----------------------------------------------------------------------------
(* The parts.                                                              *)
Part(k) == Crypted(PartSize(k), k * partsz)

LEMMA Sizes ==
    ASSUME n \in Lengths
    PROVE  /\ n \in Nat /\ n % BlockSize = 0
           /\ nparts \in Nat \ {0} /\ nparts <= PartsAt + PartsAbove /\ partsz \in Nat
           /\ nparts * partsz <= n /\ n < nparts * partsz + nparts
<1>1. n \in Nat /\ n % BlockSize = 0
  BY SizesAssumption
<1>2. nparts \in Nat \ {0} /\ nparts <= PartsAt + PartsAbove
  BY SizesAssumption DEF nparts
<1>. HIDE DEF nparts
<1>3. partsz \in Nat /\ nparts * partsz <= n /\ n < nparts * partsz + nparts
  BY <1>1, <1>2, Division DEF partsz
<1>. QED  BY <1>1, <1>2, <1>3

LEMMA PartBounds ==
    ASSUME n \in Lengths, NEW k \in 0 .. (nparts - 1)
    PROVE  /\ k * partsz \in Nat /\ PartSize(k) \in Nat
           /\ k * partsz + partsz <= n /\ k * partsz + PartSize(k) <= n
           /\ PartSize(k) = IF k = nparts - 1 THEN n - k * partsz ELSE partsz
<1>1. n \in Nat /\ nparts \in Nat \ {0} /\ partsz \in Nat /\ nparts * partsz <= n
  BY Sizes
<1>2. k \in Nat /\ k < nparts
  BY <1>1
<1>3. k * partsz \in Nat /\ k * partsz + partsz <= nparts * partsz
  BY <1>1, <1>2, Monotone, MonotoneStrict
<1>4. k * partsz + partsz <= n
  <2>1. nparts * partsz \in Nat
    BY <1>1, Monotone
  <2>. QED  BY <1>1, <1>3, <2>1
<1>. DEFINE off == k * partsz
<1>. HIDE DEF off
<1>5. PartSize(k) = IF k = nparts - 1 THEN n - off ELSE partsz
  BY DEF PartSize, off
<1>6. off \in Nat /\ off + partsz <= n
  BY <1>3, <1>4 DEF off
<1>7. PartSize(k) \in Nat /\ off + PartSize(k) <= n
  BY <1>1, <1>5, <1>6
<1>. QED  BY <1>5, <1>6, <1>7 DEF off

(* The walk takes no byte before the part's offset or behind its end.      *)
LEMMA InPart ==
    ASSUME n \in Lengths, NEW k \in 0 .. (nparts - 1), NEW x \in Part(k)
    PROVE  x \in 0 .. (n - 1) /\ k * partsz <= x /\ x < k * partsz + PartSize(k)
<1>. DEFINE off == k * partsz
            sz == PartSize(k)
<1>1. off \in Nat /\ sz \in Nat /\ off + sz <= n /\ n \in Nat
  BY PartBounds, Sizes
<1>2. x \in 0 .. (sz + off - 1) /\ (x \div PageSize) * PageSize >= off
  BY DEF Part, Crypted, Walked
<1>. HIDE DEF off, sz
<1>3. x \in Nat
  BY <1>1, <1>2
<1>4. (x \div PageSize) * PageSize <= x /\ (x \div PageSize) * PageSize \in Int
  <2>1. PageSize * (x \div PageSize) <= x /\ x \div PageSize \in Nat
    BY <1>3, SizesAssumption, Division
  <2>2. (x \div PageSize) * PageSize = PageSize * (x \div PageSize)
    BY <2>1, SizesAssumption
  <2>3. PageSize * (x \div PageSize) \in Int
    BY <2>1, SizesAssumption
  <2>. QED  BY <2>1, <2>2, <2>3
<1>5. off <= x /\ x < off + sz
  BY <1>1, <1>2, <1>3, <1>4
<1>6. x \in 0 .. (n - 1)
  BY <1>1, <1>3, <1>5
<1>. QED  BY <1>5, <1>6 DEF off, sz

LEMMA PartsDisjoint ==
    ASSUME n \in Lengths, NEW j \in 0 .. (nparts - 1), NEW k \in 0 .. (nparts - 1), j < k
    PROVE  Part(j) \cap Part(k) = {}
<1>. SUFFICES ASSUME NEW x \in Part(j), x \in Part(k)
              PROVE  FALSE
  OBVIOUS
<1>1. nparts \in Nat \ {0} /\ partsz \in Nat
  BY Sizes
<1>2. x \in Int /\ x < j * partsz + PartSize(j) /\ k * partsz <= x
  BY InPart
<1>3. j # nparts - 1 /\ j \in Nat /\ k \in Nat
  BY <1>1
<1>4. PartSize(j) = partsz
  BY <1>3 DEF PartSize
<1>5. j * partsz + partsz <= k * partsz /\ j * partsz \in Nat /\ k * partsz \in Nat
  BY <1>1, <1>3, Monotone, MonotoneStrict
<1>. QED  BY <1>1, <1>2, <1>4, <1>5

LEMMA WholePart ==
    ASSUME NEW off \in Nat, NEW sz \in Nat, off % PageSize = 0, sz % BlockSize = 0,
           NEW x \in Nat, off <= x, x < off + sz
    PROVE  x \in Crypted(sz, off)
<1>. DEFINE m == off \div PageSize
            g == x \div PageSize
<1>0. PageSize \in Nat \ {0} /\ BlockSize \in Nat \ {0}
  BY SizesAssumption
<1>1. m \in Nat /\ off = PageSize * m
  BY <1>0, WholeMultiple
<1>2. g \in Nat /\ PageSize * g <= x /\ x < PageSize * g + PageSize
  BY <1>0, Division
<1>. HIDE DEF m, g
<1>3. m <= g
  <2>1. CASE g < m
    <3>1. g * PageSize + PageSize <= m * PageSize
      BY <1>0, <1>1, <1>2, <2>1, MonotoneStrict
    <3>2. g * PageSize = PageSize * g /\ m * PageSize = off /\ PageSize * g \in Int
      BY <1>0, <1>1, <1>2
    <3>. QED  BY <1>0, <1>2, <3>1, <3>2
  <2>. QED  BY <1>1, <1>2, <2>1
<1>4. g * PageSize >= off
  <2>1. m * PageSize <= g * PageSize
    BY <1>0, <1>1, <1>2, <1>3, Monotone
  <2>2. m * PageSize = off
    BY <1>0, <1>1
  <2>. QED  BY <2>1, <2>2
<1>5. RoundUp(off) = off
  <2>1. off + PageSize - 1 \in Nat /\ PageSize * m <= off + PageSize - 1
        /\ off + PageSize - 1 < PageSize * m + PageSize
    BY <1>0, <1>1
  <2>2. (off + PageSize - 1) \div PageSize = m
    BY <1>0, <1>1, <2>1, Quotient
  <2>3. m * PageSize = off
    BY <1>0, <1>1
  <2>. QED  BY <2>2, <2>3 DEF RoundUp
<1>6. (sz \div BlockSize) * BlockSize = sz
  BY <1>0, WholeMultiple
<1>7. x \in 0 .. (sz + off - 1) /\ x - off < sz
  OBVIOUS
<1>8. x \in Walked(sz, off)
  BY <1>4, <1>7 DEF Walked, g
<1>. QED  BY <1>5, <1>6, <1>7, <1>8 DEF Crypted

LEMMA PartsCover ==
    ASSUME n \in Lengths, partsz % PageSize = 0, NEW x \in 0 .. (n - 1)
    PROVE  \E k \in 0 .. (nparts - 1) : x \in Part(k)
<1>1. /\ n \in Nat /\ n % BlockSize = 0
      /\ nparts \in Nat \ {0} /\ partsz \in Nat
      /\ nparts * partsz <= n
  BY Sizes
<1>2. PageSize \in Nat \ {0} /\ BlockSize \in Nat \ {0} /\ PageSize % BlockSize = 0
  BY SizesAssumption
<1>3. partsz % BlockSize = 0
  <2>. DEFINE m == partsz \div PageSize
  <2>1. m \in Nat /\ partsz = PageSize * m
    BY <1>1, <1>2, WholeMultiple
  <2>. HIDE DEF m
  <2>2. partsz = m * PageSize
    BY <1>2, <2>1
  <2>3. (m * PageSize) % BlockSize = 0
    BY <1>2, <2>1, ProductMultiple
  <2>. QED  BY <2>2, <2>3
<1>4. ASSUME NEW k \in 0 .. (nparts - 1), k * partsz <= x, x < k * partsz + PartSize(k)
      PROVE  x \in Part(k)
  <2>. DEFINE off == k * partsz
  <2>1. /\ off \in Nat /\ PartSize(k) \in Nat /\ off + partsz <= n
        /\ PartSize(k) = IF k = nparts - 1 THEN n - off ELSE partsz
    BY PartBounds
  <2>2. k \in Nat /\ x \in Nat
    BY <1>1
  <2>3. off % PageSize = 0 /\ off % BlockSize = 0
    BY <1>1, <1>2, <1>3, <2>2, ProductMultiple
  <2>4. x >= off /\ x < off + PartSize(k)
    BY <1>4
  <2>. HIDE DEF off
  <2>5. PartSize(k) % BlockSize = 0
    <3>1. off <= n
      BY <1>1, <2>1
    <3>2. (n - off) % BlockSize = 0
      BY <1>1, <1>2, <2>1, <2>3, <3>1, DifferenceMultiple
    <3>. QED  BY <1>3, <2>1, <3>2
  <2>6. x \in Crypted(PartSize(k), off)
    BY <2>1, <2>2, <2>3, <2>4, <2>5, WholePart
  <2>. QED  BY <2>6 DEF Part, off
<1>. DEFINE last == nparts - 1
<1>5. CASE last * partsz <= x
  <2>1. last \in 0 .. (nparts - 1)
    BY <1>1
  <2>2. last * partsz \in Nat /\ PartSize(last) = n - last * partsz
    BY <2>1, PartBounds
  <2>3. x < last * partsz + PartSize(last)
    BY <1>1, <2>2
  <2>. QED  BY <1>4, <1>5, <2>1, <2>3
<1>6. CASE x < last * partsz
  <2>. DEFINE k == x \div partsz
  <2>1. last \in Nat
    BY <1>1
  <2>2. partsz # 0
    <3>1. last * 0 = 0
      BY <2>1
    <3>. QED  BY <1>6, <3>1
  <2>3. k \in Nat /\ partsz * k <= x /\ x < partsz * k + partsz
    <3>1. x \in Nat /\ partsz \in Nat \ {0}
      BY <1>1, <2>2
    <3>. QED  BY <3>1, Division
  <2>. HIDE DEF k, last
  <2>4. partsz * k = k * partsz /\ k * partsz \in Nat
    BY <1>1, <2>3
  <2>5. k < last
    <3>1. CASE last <= k
      <4>1. last * partsz <= k * partsz /\ last * partsz \in Nat
        BY <1>1, <2>1, <2>3, <3>1, Monotone
      <4>. QED  BY <1>6, <2>3, <2>4, <4>1
    <3>. QED  BY <2>1, <2>3, <3>1
  <2>6. k \in 0 .. (nparts - 1) /\ k # nparts - 1
    BY <1>1, <2>3, <2>5 DEF last
  <2>7. PartSize(k) = partsz
    BY <2>6 DEF PartSize
  <2>. QED  BY <1>4, <2>3, <2>4, <2>6, <2>7
<1>7. last * partsz \in Nat
  BY <1>1, Monotone
<1>. QED  BY <1>1, <1>5, <1>6, <1>7

-----------------------------------------------------------------------------
(* The inductive invariant.                                                *)
Typed ==
  /\ n \in Lengths /\ i \in -1 .. nparts /\ remainings \in Int
  /\ pc \in {"start", "submit", "sync", "wait", "returned"}
  /\ part \in [Parts -> {"none", "sent", "lost", "done"}]
  /\ cs \in {"none", "live", "freed"} /\ ret \in {0, -1}
  /\ writes \in [0 .. (n - 1) -> Nat] /\ signals \in Nat

(* A call that does not split its data has no parts, and writes all of     *)
(* the data or nothing.                                                    *)
Unsplit ==
  cs = "none" =>
    /\ pc \in {"start", "sync", "returned"}
    /\ \A k \in Parts : part[k] = "none"
    /\ \A x \in 0 .. (n - 1) : writes[x] = IF pc = "returned" /\ ret = 0 THEN 1 ELSE 0

(* One that does has written what the parts that are done cover, once.     *)
Covered(x) == \E k \in 0 .. (nparts - 1) : part[k] = "done" /\ x \in Part(k)

Split ==
  cs # "none" =>
    /\ pc \in {"submit", "wait", "returned"} /\ (cs = "freed" <=> pc = "returned")
    /\ n > 0
    /\ \A k \in Parts : k >= nparts => part[k] = "none"
    /\ \A x \in 0 .. (n - 1) : writes[x] = IF Covered(x) THEN 1 ELSE 0

(* The parts before the loop counter are offloaded, the others are not.    *)
Submitting ==
  pc = "submit" =>
    /\ i >= 0 /\ ret = 0 /\ remainings = n - i * partsz
    /\ \A k \in Parts : part[k] = "none" <=> k >= i

(* The parts the caller has waited for have been answered, if no signal    *)
(* ended a wait; if nothing failed every part was offloaded.               *)
Answered ==
  pc = "wait" \/ (pc = "returned" /\ cs # "none") =>
    /\ i < nparts /\ (pc = "returned" => i < 0)
    /\ signals = 0 => \A k \in Parts : k > i => part[k] \in {"none", "done"}
    /\ ret = 0 => \A k \in 0 .. (nparts - 1) : part[k] # "none"

Beginning == pc \in {"start", "sync"} => i = 0 /\ cs = "none" /\ remainings = n /\ ret = 0

IInv == Typed /\ Unsplit /\ Split /\ Submitting /\ Answered /\ Beginning

LEMMA PartsAreParts ==
    ASSUME n \in Lengths
    PROVE  0 .. (nparts - 1) \subseteq Parts /\ Parts \subseteq Nat /\ nparts \in Nat \ {0}
<1>1. nparts \in Nat \ {0} /\ nparts <= PartsAt + PartsAbove /\ PartsAt \in Nat /\ PartsAbove \in Nat
  BY Sizes, SizesAssumption
<1>. QED  BY <1>1 DEF Parts

LEMMA InitHolds == Init => IInv
<1>. SUFFICES ASSUME Init PROVE IInv
  OBVIOUS
<1>1. n \in Lengths /\ n \in Nat /\ nparts \in Nat \ {0}
  BY Sizes DEF Init
<1>2. Typed
  BY <1>1 DEF Init, Typed
<1>3. Unsplit
  BY <1>1 DEF Init, Unsplit
<1>. QED  BY <1>1, <1>2, <1>3 DEF Init, IInv, Split, Submitting, Answered, Beginning

(* The parts do not change during a call.                                  *)
LEMMA SameParts ==
    ASSUME n' = n
    PROVE  nparts' = nparts /\ partsz' = partsz /\ \A k : Part(k)' = Part(k)
<1>. QED  BY DEF nparts, partsz, Part, PartSize, Crypted, Walked, RoundUp

LEMMA SameCovered ==
    ASSUME n' = n, \A k \in 0 .. (nparts - 1) : part'[k] = "done" <=> part[k] = "done"
    PROVE  \A x : Covered(x)' <=> Covered(x)
<1>1. nparts' = nparts /\ \A k : Part(k)' = Part(k)
  BY SameParts
<1>. QED  BY <1>1 DEF Covered

-----------------------------------------------------------------------------
LEMMA CryptStep ==
    ASSUME IInv, crypto_ecb_gpu_crypt
    PROVE  IInv'
<1>. USE DEF IInv
<1>1. /\ pc = "start" /\ UNCHANGED <<n, i, remainings, part, ret, writes, buffers, signals>>
      /\ \/ n \div PageSize >= SplitPages /\ pc' = "submit" /\ cs' = "live"
         \/ pc' = "sync" /\ cs' = cs
  BY DEF crypto_ecb_gpu_crypt
<1>2. nparts' = nparts /\ partsz' = partsz
  BY <1>1, SameParts
<1>3. /\ n \in Nat /\ nparts \in Nat \ {0} /\ partsz \in Nat /\ i = 0 /\ cs = "none"
      /\ remainings = n /\ ret = 0
  BY <1>1, Sizes DEF Typed, Beginning
<1>4. /\ \A k \in Parts : part[k] = "none" /\ k \in Nat
      /\ \A x \in 0 .. (n - 1) : writes[x] = 0
  BY <1>1, <1>3, PartsAreParts DEF Unsplit, Typed
<1>5. 0 .. (nparts - 1) \subseteq Parts
  BY PartsAreParts DEF Typed
<1>6. Typed'
  BY <1>1, <1>2 DEF Typed
<1>7. pc' = "submit" => n > 0
  <2>1. SUFFICES ASSUME n \div PageSize >= SplitPages
                 PROVE  n > 0
    BY <1>1
  <2>2. PageSize \in Nat \ {0} /\ SplitPages \in Nat \ {0}
    BY SizesAssumption
  <2>3. CASE n = 0
    <3>1. PageSize * 0 <= n /\ n < PageSize * 0 + PageSize
      BY <2>2, <2>3
    <3>2. n \div PageSize = 0
      BY <1>3, <2>2, <3>1, Quotient
    <3>. QED  BY <2>1, <2>2, <3>2
  <2>. QED  BY <1>3, <2>3
<1>8. Unsplit'
  BY <1>1, <1>3, <1>4 DEF Unsplit
<1>9. Split'
  <2>1. \A x : ~Covered(x)'
    BY <1>1, <1>2, <1>4, <1>5 DEF Covered
  <2>. QED  BY <1>1, <1>2, <1>3, <1>4, <1>7, <2>1 DEF Split
<1>10. Submitting'
  <2>1. remainings' = n' - i' * partsz'
    <3>1. 0 * partsz = 0
      BY <1>3
    <3>. QED  BY <1>1, <1>2, <1>3, <3>1
  <2>2. \A k \in Parts : part'[k] = "none" <=> k >= i'
    BY <1>1, <1>3, <1>4
  <2>. QED  BY <1>1, <1>3, <2>1, <2>2 DEF Submitting
<1>11. Answered' /\ Beginning'
  BY <1>1, <1>3 DEF Answered, Beginning
<1>. QED  BY <1>6, <1>8, <1>9, <1>10, <1>11

LEMMA SubmitStep ==
    ASSUME IInv, submit
    PROVE  IInv'
<1>. USE DEF IInv
<1>1. /\ pc = "submit" /\ i < nparts /\ UNCHANGED <<n, cs, writes, signals>>
  BY DEF submit
<1>2. nparts' = nparts /\ partsz' = partsz
  BY <1>1, SameParts
<1>3. /\ i >= 0 /\ ret = 0 /\ remainings = n - i * partsz /\ cs # "none" /\ cs # "freed"
      /\ \A k \in Parts : part[k] = "none" <=> k >= i
  BY <1>1 DEF Submitting, Unsplit, Split
<1>4. /\ n \in Nat /\ nparts \in Nat \ {0} /\ partsz \in Nat /\ i \in 0 .. (nparts - 1)
      /\ i \in Parts /\ Parts \subseteq Nat
  <2>1. n \in Nat /\ nparts \in Nat \ {0} /\ partsz \in Nat /\ 0 .. (nparts - 1) \subseteq Parts /\ Parts \subseteq Nat
    BY Sizes, PartsAreParts DEF Typed
  <2>. QED  BY <1>1, <1>3, <2>1 DEF Typed
<1>5. CASE ret' = -1 /\ pc' = "wait" /\ i' = i - 1 /\ UNCHANGED <<remainings, part, buffers>>
  <2>1. Typed'
    BY <1>1, <1>2, <1>4, <1>5 DEF Typed
  <2>2. \A x : Covered(x)' <=> Covered(x)
    BY <1>1, <1>5, SameCovered
  <2>3. Split'
    BY <1>1, <1>2, <1>3, <1>5, <2>2 DEF Split
  <2>4. Answered'
    <3>1. \A k \in Parts : k > i' => k >= i
      BY <1>4, <1>5
    <3>. QED  BY <1>1, <1>2, <1>3, <1>4, <1>5, <3>1 DEF Answered
  <2>. QED  BY <1>1, <1>3, <1>5, <2>1, <2>3, <2>4 DEF Unsplit, Submitting, Beginning
<1>6. ASSUME NEW st \in {"lost", "sent"}, part' = [part EXCEPT ![i] = st],
             ret' = 0, i' = i + 1, remainings' = remainings - partsz, pc' = pc
      PROVE  IInv'
  <2>1. part' \in [Parts -> {"none", "sent", "lost", "done"}] /\ part'[i] = st
        /\ \A k \in Parts \ {i} : part'[k] = part[k]
    BY <1>4, <1>6 DEF Typed
  <2>2. Typed'
    BY <1>1, <1>2, <1>4, <1>6, <2>1 DEF Typed
  <2>3. \A k \in Parts : part'[k] = "done" <=> part[k] = "done"
    BY <1>3, <1>4, <2>1
  <2>4. \A x : Covered(x)' <=> Covered(x)
    <3>1. 0 .. (nparts - 1) \subseteq Parts
      BY PartsAreParts DEF Typed
    <3>. QED  BY <1>1, <2>3, <3>1, SameCovered
  <2>5. \A k \in Parts : k >= nparts => part'[k] = "none"
    BY <1>3, <1>4, <2>1 DEF Split
  <2>6. Split'
    BY <1>1, <1>2, <1>3, <1>6, <2>4, <2>5 DEF Split
  <2>7. Submitting'
    <3>1. (i + 1) * partsz = i * partsz + partsz /\ i * partsz \in Nat
      BY <1>4, Monotone
    <3>2. remainings' = n' - i' * partsz'
      BY <1>1, <1>2, <1>3, <1>4, <1>6, <3>1
    <3>3. \A k \in Parts : part'[k] = "none" <=> k >= i'
      BY <1>3, <1>4, <1>6, <2>1
    <3>. QED  BY <1>4, <1>6, <3>2, <3>3 DEF Submitting
  <2>. QED  BY <1>1, <1>3, <1>6, <2>2, <2>6, <2>7 DEF Unsplit, Answered, Beginning
<1>. QED  BY <1>5, <1>6 DEF submit

LEMMA SubmittedStep ==
    ASSUME IInv, submitted
    PROVE  IInv'
<1>. USE DEF IInv
<1>1. /\ pc = "submit" /\ ~(i < nparts /\ remainings > 0) /\ pc' = "wait" /\ i' = i - 1
      /\ UNCHANGED <<n, remainings, part, cs, ret, writes, buffers, signals>>
  BY DEF submitted
<1>2. nparts' = nparts /\ partsz' = partsz
  BY <1>1, SameParts
<1>3. /\ i >= 0 /\ i \in Int /\ i <= nparts /\ remainings = n - i * partsz /\ cs # "none" /\ cs # "freed" /\ n > 0
      /\ \A k \in Parts : part[k] = "none" <=> k >= i
  <2>1. nparts \in Nat
    BY Sizes DEF Typed
  <2>. QED  BY <1>1, <2>1 DEF Typed, Submitting, Unsplit, Split
<1>4. /\ n \in Nat /\ nparts \in Nat \ {0} /\ partsz \in Nat /\ nparts * partsz <= n
      /\ 0 .. (nparts - 1) \subseteq Parts /\ Parts \subseteq Nat
  BY Sizes, PartsAreParts DEF Typed
<1>5. i = nparts
  <2>1. SUFFICES ASSUME i < nparts
                 PROVE  remainings > 0
    BY <1>1, <1>3, <1>4
  <2>2. i \in Nat
    BY <1>3
  <2>3. i * partsz + partsz <= nparts * partsz /\ i * partsz \in Nat
    BY <1>4, <2>1, <2>2, Monotone, MonotoneStrict
  <2>4. CASE partsz = 0
    <3>1. i * partsz = 0
      BY <2>2, <2>4
    <3>. QED  BY <1>3, <1>4, <3>1
  <2>5. CASE partsz # 0
    <3>1. nparts * partsz \in Nat
      BY <1>4, Monotone
    <3>. QED  BY <1>3, <1>4, <2>3, <2>5, <3>1
  <2>. QED  BY <2>4, <2>5
<1>6. Typed'
  BY <1>1, <1>2, <1>3, <1>4 DEF Typed
<1>7. Split'
  <2>1. \A x : Covered(x)' <=> Covered(x)
    BY <1>1, SameCovered
  <2>. QED  BY <1>1, <1>2, <1>3, <2>1 DEF Split
<1>8. Answered'
  <2>1. \A k \in Parts : k > i' => part'[k] = "none"
    BY <1>1, <1>3, <1>4
  <2>2. \A k \in 0 .. (nparts - 1) : part'[k] # "none"
    BY <1>1, <1>3, <1>4, <1>5
  <2>. QED  BY <1>1, <1>2, <1>4, <1>5, <2>1, <2>2 DEF Answered
<1>. QED  BY <1>1, <1>3, <1>6, <1>7, <1>8 DEF Unsplit, Submitting, Beginning

LEMMA CallbackStep ==
    ASSUME IInv, NEW k \in Parts, async_gpu_callback(k)
    PROVE  IInv'
<1>. USE DEF IInv
<1>1. /\ part[k] = "sent" /\ part' = [part EXCEPT ![k] = "done"]
      /\ writes' = [x \in DOMAIN writes |-> IF x \in Part(k) THEN writes[x] + 1 ELSE writes[x]]
      /\ UNCHANGED <<n, pc, i, remainings, cs, ret, signals>>
  BY DEF async_gpu_callback, __done_cryption, Part
<1>2. nparts' = nparts /\ partsz' = partsz /\ \A j : Part(j)' = Part(j)
  BY <1>1, SameParts
<1>3. /\ nparts \in Nat \ {0} /\ Parts \subseteq Nat /\ 0 .. (nparts - 1) \subseteq Parts
      /\ n \in Lengths
  BY PartsAreParts DEF Typed
<1>4. cs # "none" /\ k \in 0 .. (nparts - 1)
  BY <1>1, <1>3 DEF Unsplit, Split
<1>5. /\ part' \in [Parts -> {"none", "sent", "lost", "done"}] /\ part'[k] = "done"
      /\ \A j \in Parts \ {k} : part'[j] = part[j]
  BY <1>1 DEF Typed
<1>6. /\ writes' \in [0 .. (n - 1) -> Nat]
      /\ \A x \in 0 .. (n - 1) : writes'[x] = IF x \in Part(k) THEN writes[x] + 1 ELSE writes[x]
  BY <1>1 DEF Typed
<1>7. Typed'
  BY <1>1, <1>2, <1>5, <1>6 DEF Typed
<1>8. ASSUME NEW x \in 0 .. (n - 1)
      PROVE  writes'[x] = IF Covered(x)' THEN 1 ELSE 0
  <2>1. Covered(x)' <=> Covered(x) \/ x \in Part(k)
    BY <1>2, <1>3, <1>4, <1>5 DEF Covered
  <2>2. ASSUME x \in Part(k), Covered(x)
        PROVE  FALSE
    <3>1. PICK j \in 0 .. (nparts - 1) : part[j] = "done" /\ x \in Part(j)
      BY <2>2 DEF Covered
    <3>2. j # k /\ j \in Nat /\ k \in Nat
      BY <1>1, <1>3, <1>4, <3>1
    <3>3. CASE j < k
      BY <1>3, <1>4, <2>2, <3>1, <3>3, PartsDisjoint
    <3>4. CASE k < j
      BY <1>3, <1>4, <2>2, <3>1, <3>4, PartsDisjoint
    <3>. QED  BY <3>2, <3>3, <3>4
  <2>3. writes[x] = IF Covered(x) THEN 1 ELSE 0
    BY <1>4 DEF Split
  <2>. QED  BY <1>6, <2>1, <2>2, <2>3
<1>9. Split'
  <2>1. \A j \in Parts : j >= nparts => part'[j] = "none"
    BY <1>3, <1>4, <1>5 DEF Split
  <2>. QED  BY <1>1, <1>2, <1>4, <1>8, <2>1 DEF Split
<1>10. Submitting'
  <2>1. pc = "submit" => \A j \in Parts : part'[j] = "none" <=> j >= i
    BY <1>1, <1>5 DEF Submitting
  <2>. QED  BY <1>1, <1>2, <2>1 DEF Submitting
<1>11. Answered'
  <2>1. \A j \in Parts : (part[j] \in {"none", "done"} => part'[j] \in {"none", "done"})
                        /\ (part[j] # "none" => part'[j] # "none")
    BY <1>5
  <2>. QED  BY <1>1, <1>2, <1>3, <2>1 DEF Answered
<1>. QED  BY <1>1, <1>4, <1>7, <1>9, <1>10, <1>11 DEF Unsplit, Beginning

LEMMA WaitStep ==
    ASSUME IInv, wait \/ wait_interrupted \/ free_and_return
    PROVE  IInv'
<1>. USE DEF IInv
<1>1. /\ pc = "wait" /\ UNCHANGED <<n, remainings, part, ret, writes>>
      /\ \/ /\ i >= 0 /\ i' = i - 1 /\ pc' = pc /\ cs' = cs
            /\ \/ part[i] = "done" /\ signals' = signals
               \/ signals' = signals + 1
         \/ i < 0 /\ i' = i /\ pc' = "returned" /\ cs' = "freed" /\ signals' = signals
  BY DEF wait, wait_interrupted, free_and_return
<1>2. nparts' = nparts /\ partsz' = partsz
  BY <1>1, SameParts
<1>3. /\ nparts \in Nat \ {0} /\ Parts \subseteq Nat /\ signals \in Nat
      /\ i \in Int /\ i < nparts /\ cs # "none" /\ cs # "freed"
  BY <1>1, PartsAreParts DEF Typed, Answered, Unsplit, Split
<1>4. Typed'
  BY <1>1, <1>2, <1>3 DEF Typed
<1>5. Split'
  <2>1. \A x : Covered(x)' <=> Covered(x)
    BY <1>1, SameCovered
  <2>. QED  BY <1>1, <1>2, <1>3, <2>1 DEF Split
<1>6. Answered'
  <2>1. ASSUME signals' = 0
        PROVE  \A k \in Parts : k > i' => part'[k] \in {"none", "done"}
    <3>1. signals = 0 /\ (i' = i \/ (i' = i - 1 /\ part[i] = "done"))
      BY <1>1, <1>3, <2>1
    <3>2. \A k \in Parts : k > i => part[k] \in {"none", "done"}
      BY <1>1, <3>1 DEF Answered
    <3>3. \A k \in Parts : k > i - 1 => k > i \/ k = i
      BY <1>3
    <3>. QED  BY <1>1, <3>1, <3>2, <3>3
  <2>2. ret' = 0 => \A k \in 0 .. (nparts - 1) : part'[k] # "none"
    BY <1>1 DEF Answered
  <2>3. i' < nparts /\ (pc' = "returned" => i' < 0)
    BY <1>1, <1>3
  <2>. QED  BY <1>2, <2>1, <2>2, <2>3 DEF Answered
<1>. QED  BY <1>1, <1>3, <1>4, <1>5, <1>6 DEF Unsplit, Submitting, Beginning

LEMMA SyncStep ==
    ASSUME IInv, crypt_sync
    PROVE  IInv'
<1>. USE DEF IInv
<1>1. /\ pc = "sync" /\ pc' = "returned" /\ UNCHANGED <<n, i, remainings, part, cs, signals>>
      /\ \/ ret' = -1 /\ writes' = writes
         \/ /\ ret' = 0
            /\ writes' = [x \in DOMAIN writes |-> IF x \in Crypted(n, 0) THEN writes[x] + 1 ELSE writes[x]]
  BY DEF crypt_sync, __done_cryption
<1>2. nparts' = nparts /\ partsz' = partsz
  BY <1>1, SameParts
<1>3. cs = "none" /\ n \in Nat /\ n % BlockSize = 0
  BY <1>1, Sizes DEF Beginning, Typed
<1>4. \A x \in 0 .. (n - 1) : x \in Crypted(n, 0)
  <2>1. TAKE x \in 0 .. (n - 1)
  <2>2. 0 % PageSize = 0
    BY SizesAssumption
  <2>3. x \in Nat /\ 0 <= x /\ x < 0 + n
    BY <1>3
  <2>. QED  BY <1>3, <2>2, <2>3, WholePart
<1>5. \A x \in 0 .. (n - 1) : writes[x] = 0
  BY <1>1, <1>3 DEF Unsplit
<1>6. /\ writes' \in [0 .. (n - 1) -> Nat]
      /\ \A x \in 0 .. (n - 1) : writes'[x] = IF ret' = 0 THEN 1 ELSE 0
  <2>1. DOMAIN writes = 0 .. (n - 1) /\ writes \in [0 .. (n - 1) -> Nat]
    BY DEF Typed
  <2>2. CASE ret' = -1 /\ writes' = writes
    <3>1. ret' # 0
      BY <2>2
    <3>. QED  BY <1>5, <2>1, <2>2, <3>1
  <2>3. CASE ret' = 0 /\ writes' = [x \in DOMAIN writes |-> IF x \in Crypted(n, 0) THEN writes[x] + 1 ELSE writes[x]]
    <3>1. writes' \in [0 .. (n - 1) -> Nat] /\ \A x \in 0 .. (n - 1) : writes'[x] = writes[x] + 1
      BY <1>4, <2>1, <2>3
    <3>. QED  BY <1>5, <2>3, <3>1
  <2>. QED  BY <1>1, <2>2, <2>3
<1>7. Typed'
  BY <1>1, <1>2, <1>6 DEF Typed
<1>8. Unsplit'
  BY <1>1, <1>3, <1>6 DEF Unsplit
<1>. QED  BY <1>1, <1>3, <1>7, <1>8 DEF Split, Submitting, Answered, Beginning

LEMMA NextHolds == IInv /\ [Next]_vars => IInv'
<1>1. ASSUME IInv, UNCHANGED vars
      PROVE  IInv'
  <2>1. n' = n /\ part' = part
    BY <1>1 DEF vars
  <2>2. nparts' = nparts /\ partsz' = partsz /\ \A x : Covered(x)' <=> Covered(x)
    BY <2>1, SameParts, SameCovered
  <2>. QED  BY <1>1, <2>2 DEF vars, IInv, Typed, Unsplit, Split, Submitting, Answered, Beginning
<1>. QED  BY <1>1, CallbackStep, CryptStep, SubmitStep, SubmittedStep, WaitStep, SyncStep
          DEF Next, Respond, CallerStep

-----------------------------------------------------------------------------
(* The inductive invariant holds throughout a call of crypto_ecb_gpu_crypt. *)
THEOREM IInvAlways == Spec => []IInv
<1>. QED  BY InitHolds, NextHolds, PTL DEF Spec

(* For every length and way to divide it: no byte of the data is covered   *)
(* by the results of two parts; a call of crypto_ecb_gpu_crypt that        *)
(* returns 0 has covered all of them if its parts are whole pages; the     *)
(* completions are freed only when no callback is to come that uses them,  *)
(* as long as no signal ended a wait.                                      *)
THEOREM DataAlwaysWhole == Spec => []WholeData
<1>1. ASSUME IInv
      PROVE  WholeData
  <2>. USE <1>1 DEF IInv
  <2>1. /\ DOMAIN writes = 0 .. (n - 1) /\ nparts \in Nat \ {0} /\ n \in Lengths
        /\ 0 .. (nparts - 1) \subseteq Parts /\ Parts \subseteq Nat
    BY PartsAreParts DEF Typed
  <2>2. \A x \in DOMAIN writes : writes[x] <= 1
    BY <2>1 DEF Unsplit, Split
  <2>3. ASSUME Success, WholePages, NEW x \in DOMAIN writes
        PROVE  writes[x] = 1
    <3>1. CASE cs = "none"
      BY <2>1, <2>3, <3>1 DEF Unsplit, Success
    <3>2. CASE cs # "none"
      <4>1. PICK k \in 0 .. (nparts - 1) : x \in Part(k)
        BY <2>1, <2>3, <3>2, PartsCover DEF WholePages
      <4>2. i < 0 /\ part[k] # "none" /\ \A j \in Parts : j > i => part[j] \in {"none", "done"}
        BY <2>3, <3>2 DEF Success, Answered
      <4>3. k \in Parts /\ k > i
        BY <2>1, <4>2 DEF Typed
      <4>4. Covered(x)
        BY <4>1, <4>2, <4>3 DEF Covered
      <4>. QED  BY <2>1, <3>2, <4>4 DEF Split
    <3>. QED  BY <3>1, <3>2
  <2>4. ASSUME cs = "freed", signals = 0, NEW k \in Parts
        PROVE  part[k] # "sent"
    <3>1. pc = "returned" /\ i \in Int
      BY <2>1, <2>4 DEF Split, Typed
    <3>2. i < 0 /\ \A j \in Parts : j > i => part[j] \in {"none", "done"}
      BY <2>4, <3>1 DEF Answered
    <3>. QED  BY <2>1, <3>1, <3>2
  <2>. QED  BY <2>2, <2>3, <2>4 DEF WholeData
<1>. QED  BY <1>1, IInvAlways, PTL

-----------------------------------------------------------------------------
(* ecryptfs_write2 and ecryptfs_read2.                                     *)
AByte == [value : Procs \cup {"zero", "junk"}, offset : Nat, layers : Int]
APage == [InPage -> AByte]
FileCall == [pc : {"idle", "fill", "store", "grab", "load", "copy", "read", "killed"}, off : Nat, n : Nat,
             fsz : Nat, pos : Nat, at : Nat, pgs : Seq(Pages), enc : Seq(APage), got : Seq(AByte)]

FileTyped ==
  /\ cache \in [Pages -> APage \cup {NoPage}] /\ lower \in [Pages -> APage \cup {NoPage}]
  /\ call \in [Procs -> FileCall] /\ size \in 0 .. NPages * PageBytes
  /\ file \in [Bytes -> Procs \cup {"zero", "none"}]
  /\ shared \subseteq Pages /\ spoiled \subseteq Pages /\ locked \subseteq Pages

(* A write begins at the end of the file, if that comes first; the pages   *)
(* in its array are those of the bytes it has filled, some of them twice.  *)
From(c) == Least(c.fsz, c.off)
WriteShape(c) ==
  /\ c.n > 0 /\ End(c) <= NPages * PageBytes
  /\ From(c) <= c.pos /\ c.pos <= End(c) /\ c.pos - From(c) <= Len(c.pgs) * PageBytes
  /\ \A k \in 1 .. Len(c.pgs) : c.pgs[k] \in Touched(c)
  /\ \A o \in From(c) .. c.pos - 1 : PageOf(o) \in Pgs(c, 1, Len(c.pgs))
  /\ c.pc = "fill" => c.at = 0
  /\ c.pc = "store" => /\ c.pos = End(c) /\ Len(c.enc) = nrpgs(c.n) /\ c.at <= Len(c.enc)
                       /\ Len(c.enc) <= Len(c.pgs)

(* The pages of a read: from the first on.                                 *)
Reads(c) == c.pc \in {"grab", "load", "copy", "read"}
ReadShape(c) ==
  /\ c.n <= c.fsz
  /\ Len(c.pgs) = IF c.pc = "grab" THEN c.at ELSE nr_pages(c.n)
  /\ \A k \in 1 .. Len(c.pgs) : c.pgs[k] = k - 1
  /\ c.at <= nr_pages(c.n)
  /\ c.pc \in {"grab", "load"} => c.pos = c.off /\ c.got = << >>

Shapes == \A p \in Procs : /\ call[p].fsz \in 0 .. NPages * PageBytes
                           /\ Writes(call[p]) => WriteShape(call[p])
                           /\ Reads(call[p]) => ReadShape(call[p])
                           /\ call[p].pc = "killed" => call[p].n = 0

(* Two calls that run have the pages in common that are noted.             *)
Notes == \A p, q \in Procs :
           p # q /\ Writes(call[p]) => Touched(call[p]) \cap Touched(call[q]) \subseteq shared

(* What is up to the size was written.                                     *)
Written == /\ \A o \in 0 .. size - 1 : file[o] # "none"
           /\ \A p \in Procs : \A o \in 0 .. call[p].fsz - 1 : file[o] # "none"

(* A page that no write works on is stored.                                *)
StoredPage(g) ==
  \A b \in InPage : file[At(g, b)] # "none" =>
    lower[g] # NoPage /\ lower[g][b] = [Wrote(At(g, b)) EXCEPT !.layers = 1]
Writing(g) == \E p \in Procs : Writes(call[p]) /\ g \in Touched(call[p])
Stored == \A g \in Pages \ (shared \cup spoiled) : ~Writing(g) => StoredPage(g)

(* The pages in the cache that are halfway through a write or a read.  Any *)
(* other has the bytes of the file.                                        *)
Halfway(c) == IF Writes(c) \/ c.pc \in {"grab", "load"} THEN Pgs(c, 1, Len(c.pgs)) ELSE {}
Holds(g, m) == \A b \in InPage : file[At(g, b)] # "none" => cache[g][b] = [Wrote(At(g, b)) EXCEPT !.layers = m]
CacheHolds == \A g \in Pages \ (shared \cup spoiled) :
                (\A p \in Procs : g \notin Halfway(call[p])) /\ cache[g] # NoPage => Holds(g, 0)

(* A page that a write has filled: the bytes it fills, and the bytes of    *)
(* the file around them.                                                   *)
Puts(p, o) == IF o < call[p].off THEN Zero ELSE Byte(p, o, 0)
Around(c, o) == o < From(c) \/ o >= End(c)
Right(p, g, page, m) ==
  LET c == call[p]
  IN /\ page # NoPage
     /\ \A b \in InPage :
          /\ At(g, b) \in From(c) .. c.pos - 1 => page[b] = [Puts(p, At(g, b)) EXCEPT !.layers = m]
          /\ Around(c, At(g, b)) /\ g \notin spoiled /\ file[At(g, b)] # "none"
               => page[b] = [Wrote(At(g, b)) EXCEPT !.layers = m]

(* What a write has filled, encrypted and stored.                          *)
WriteKnown(p) ==
  LET c == call[p]
  IN /\ \A g \in Pgs(c, 1, Len(c.pgs)) \ shared : Right(p, g, cache[g], 0)
     /\ c.pc = "store" =>
          /\ \A k \in 1 .. Len(c.enc) : c.pgs[k] \notin shared => Right(p, c.pgs[k], c.enc[k], 1)
          /\ \A k \in 1 .. c.at : c.pgs[k] \notin shared => Right(p, c.pgs[k], lower[c.pgs[k]], 1)

(* The pages that a read has locked.                                       *)
Holding(c) == CASE c.pc \in {"grab", "load"} -> Pgs(c, 1, Len(c.pgs))
                [] c.pc = "copy" -> Pgs(c, c.at + 1, Len(c.pgs))
                [] OTHER -> {}
Keeping(c) == IF Writes(c) THEN Pgs(c, 1, Len(c.pgs)) ELSE Holding(c)
Locks == /\ \A p \in Procs : Holding(call[p]) \subseteq locked
         /\ \A p, q \in Procs : p # q => Holding(call[p]) \cap Holding(call[q]) = {}
         /\ \A p \in Procs : \A g \in Keeping(call[p]) : cache[g] # NoPage

(* What a read has loaded, decrypted and copied.                           *)
Known(c) == Touched(c) \ (shared \cup spoiled)
Good(c) == /\ Touched(c) \cap (shared \cup spoiled) = {}
           /\ c.off < PageBytes /\ PageOf(End(c) - 1) < nr_pages(c.n) /\ End(c) <= c.fsz
ReadKnown(p) ==
  LET c == call[p]
  IN /\ c.pc = "load" => \A k \in 1 .. c.at : c.pgs[k] \in Known(c) => Holds(c.pgs[k], 1)
     /\ c.pc = "copy" => \A k \in c.at + 1 .. Len(c.pgs) : c.pgs[k] \in Known(c) => Holds(c.pgs[k], 0)
     /\ c.pc \in {"copy", "read"} /\ Good(c) =>
          /\ c.off <= c.pos /\ c.pos <= End(c) /\ Len(c.got) = c.pos - c.off
          /\ \A k \in 1 .. Len(c.got) : c.got[k] = Wrote(c.off + k - 1)
          /\ c.pc = "copy" /\ c.pos < End(c) => (c.pos = c.off /\ c.at = 0) \/ c.pos = c.at * PageBytes
          /\ c.pc = "read" => c.pos = End(c)

FileKnown == /\ FileTyped /\ Shapes /\ Notes /\ Written /\ Stored /\ CacheHolds /\ Locks
             /\ \A p \in Procs : (Writes(call[p]) => WriteKnown(p)) /\ (Reads(call[p]) => ReadKnown(p))
FileIInv == failed \/ FileKnown

-----------------------------------------------------------------------------
(* Pages and their bytes.                                                  *)
LEMMA PageBytesNat == PageBytes \in Nat \ {0} /\ NPages \in Nat
  BY FileAssumption

LEMMA PageMultiple ==
    ASSUME NEW k \in Nat
    PROVE  /\ k * PageBytes \in Nat /\ PageOf(k * PageBytes) = k /\ (k * PageBytes) % PageBytes = 0
           /\ k > 0 => k * PageBytes >= PageBytes /\ PageOf(k * PageBytes - 1) = k - 1
<1>1. k * PageBytes = PageBytes * k /\ k * PageBytes \in Nat
  BY PageBytesNat
<1>2. PageOf(k * PageBytes) = k /\ (k * PageBytes) % PageBytes = 0
  BY <1>1, PageBytesNat, Multiple DEF PageOf
<1>3. ASSUME k > 0 PROVE k * PageBytes >= PageBytes /\ PageOf(k * PageBytes - 1) = k - 1
  <2>1. k - 1 \in Nat /\ k * PageBytes = PageBytes * (k - 1) + PageBytes /\ PageBytes * (k - 1) \in Nat
    BY <1>3, PageBytesNat
  <2>2. k * PageBytes - 1 \in Nat /\ PageBytes * (k - 1) <= k * PageBytes - 1
        /\ k * PageBytes - 1 < PageBytes * (k - 1) + PageBytes
    BY <2>1, PageBytesNat
  <2>3. (k * PageBytes - 1) \div PageBytes = k - 1
    BY <2>1, <2>2, PageBytesNat, Quotient
  <2>. QED  BY <2>1, <2>2, <2>3, PageBytesNat DEF PageOf
<1>. QED  BY <1>1, <1>2, <1>3

LEMMA PagePlace ==
    ASSUME NEW g \in Nat, NEW b \in InPage
    PROVE  /\ At(g, b) \in Nat /\ PageOf(At(g, b)) = g
           /\ g * PageBytes \in Nat /\ At(g, b) = g * PageBytes + b
           /\ \A k \in Nat : At(g, b) < k * PageBytes <=> g < k
<1>1. b \in Nat /\ b < PageBytes
  BY PageBytesNat DEF InPage
<1>2. g * PageBytes \in Nat /\ g * PageBytes = PageBytes * g
  BY PageBytesNat
<1>3. At(g, b) \in Nat /\ PageOf(At(g, b)) = g
  <2>1. PageBytes * g <= g * PageBytes + b /\ g * PageBytes + b < PageBytes * g + PageBytes /\ g * PageBytes + b \in Nat
    BY <1>1, <1>2, PageBytesNat
  <2>2. (g * PageBytes + b) \div PageBytes = g
    BY <2>1, PageBytesNat, Quotient
  <2>. QED  BY <2>1, <2>2 DEF At, PageOf
<1>4. ASSUME NEW k \in Nat PROVE At(g, b) < k * PageBytes <=> g < k
  <2>1. CASE g < k
    <3>1. g * PageBytes + PageBytes <= k * PageBytes /\ k * PageBytes \in Nat
      BY <2>1, PageBytesNat, MonotoneStrict
    <3>. QED  BY <2>1, <3>1, <1>1, <1>2, PageBytesNat DEF At
  <2>2. CASE ~(g < k)
    <3>1. k * PageBytes <= g * PageBytes /\ k * PageBytes \in Nat
      BY <2>2, PageBytesNat, Monotone
    <3>. QED  BY <2>2, <3>1, <1>1, <1>2, PageBytesNat DEF At
  <2>. QED  BY <2>1, <2>2
<1>. QED  BY <1>2, <1>3, <1>4 DEF At

LEMMA PlaceOf ==
    ASSUME NEW o \in Nat
    PROVE  /\ PageOf(o) \in Nat /\ o % PageBytes \in InPage /\ At(PageOf(o), o % PageBytes) = o
           /\ \A k \in Nat : o < k * PageBytes <=> PageOf(o) < k
<1>1. PageOf(o) \in Nat /\ o % PageBytes \in InPage /\ o % PageBytes = o - PageBytes * PageOf(o)
  BY PageBytesNat, Division DEF PageOf, InPage
<1>2. PageBytes * PageOf(o) = PageOf(o) * PageBytes /\ PageBytes * PageOf(o) \in Nat
  BY <1>1, PageBytesNat
<1>3. At(PageOf(o), o % PageBytes) = o
  BY <1>1, <1>2 DEF At
<1>. QED  BY <1>1, <1>3, PagePlace

LEMMA PageOrder ==
    ASSUME NEW o \in Nat, NEW u \in Nat, o <= u
    PROVE  PageOf(o) <= PageOf(u)
<1>1. PageOf(o) \in Nat /\ PageOf(u) \in Nat /\ PageOf(u) + 1 \in Nat
  BY PlaceOf
<1>2. PICK k \in Nat : k = PageOf(u) + 1
  BY <1>1
<1>3. u < k * PageBytes /\ k * PageBytes \in Nat
  <2>1. PageOf(u) < k /\ k * PageBytes \in Nat
    BY <1>1, <1>2, PageBytesNat
  <2>. QED  BY <2>1, PlaceOf
<1>4. o < k * PageBytes
  BY <1>3
<1>5. PageOf(o) < k
  BY <1>4, PlaceOf
<1>. QED  BY <1>1, <1>2, <1>5

LEMMA InBytes ==
    ASSUME NEW g \in Pages, NEW b \in InPage
    PROVE  At(g, b) \in Bytes
<1>1. g \in Nat /\ g < NPages /\ NPages * PageBytes \in Nat
  BY PageBytesNat DEF Pages
<1>2. At(g, b) \in Nat /\ At(g, b) < NPages * PageBytes
  BY <1>1, PageBytesNat, PagePlace
<1>. QED  BY <1>1, <1>2 DEF Bytes

LEMMA ReadPagesCount ==
    ASSUME NEW u \in Nat
    PROVE  /\ nr_pages(u) \in Nat /\ (u = 0 => nr_pages(u) = 0)
           /\ \A f \in Nat : u <= f * PageBytes => nr_pages(u) <= f
           /\ \A g \in Nat : g < nr_pages(u) => g * PageBytes < u
<1>1. u + PageBytes - 1 \in Nat /\ nr_pages(u) = PageOf(u + PageBytes - 1)
  BY PageBytesNat DEF nr_pages, PageOf
<1>2. nr_pages(u) \in Nat
  BY <1>1, PlaceOf
<1>3. ASSUME NEW f \in Nat, u <= f * PageBytes PROVE nr_pages(u) <= f
  <2>1. f + 1 \in Nat /\ (f + 1) * PageBytes = f * PageBytes + PageBytes /\ f * PageBytes \in Nat
    BY PageBytesNat
  <2>2. u + PageBytes - 1 < (f + 1) * PageBytes
    BY <1>3, <2>1, PageBytesNat
  <2>3. nr_pages(u) < f + 1
    BY <1>1, <2>1, <2>2, PlaceOf
  <2>. QED  BY <2>3, <1>2
<1>4. ASSUME NEW g \in Nat, g < nr_pages(u) PROVE g * PageBytes < u
  <2>1. g + 1 \in Nat /\ (g + 1) * PageBytes = g * PageBytes + PageBytes /\ g * PageBytes \in Nat
    BY PageBytesNat
  <2>2. ~(u + PageBytes - 1 < (g + 1) * PageBytes)
    <3>1. ~(PageOf(u + PageBytes - 1) < g + 1)
      BY <1>1, <1>2, <1>4
    <3>. QED  BY <1>1, <2>1, <3>1, PlaceOf
  <2>. QED  BY <2>1, <2>2, PageBytesNat
<1>5. u = 0 => nr_pages(u) = 0
  <2>1. 0 \in Nat /\ 0 * PageBytes = 0
    BY PageBytesNat
  <2>. QED  BY <2>1, <1>2, <1>3
<1>. QED  BY <1>2, <1>3, <1>4, <1>5

-----------------------------------------------------------------------------
(* The fields of a call.                                                   *)
LEMMA CallFields ==
    ASSUME NEW c \in FileCall
    PROVE  /\ c.off \in Nat /\ c.n \in Nat /\ c.fsz \in Nat /\ c.pos \in Nat /\ c.at \in Nat
           /\ c.pgs \in Seq(Pages) /\ c.enc \in Seq(APage) /\ c.got \in Seq(AByte)
           /\ Len(c.pgs) \in Nat /\ Len(c.enc) \in Nat /\ Len(c.got) \in Nat
<1>1. /\ c.off \in Nat /\ c.n \in Nat /\ c.fsz \in Nat /\ c.pos \in Nat /\ c.at \in Nat
      /\ c.pgs \in Seq(Pages) /\ c.enc \in Seq(APage) /\ c.got \in Seq(AByte)
  BY DEF FileCall
<1>. QED  BY <1>1


(* The pages of the array are enough for its pages to be encrypted.        *)
LEMMA CountWithin ==
    ASSUME NEW u \in Nat, NEW l \in Nat, u <= l * PageBytes
    PROVE  nrpgs(u) \in Nat /\ nrpgs(u) <= l
<1>1. PICK k \in Nat, b \in InPage : k = PageOf(u) /\ b = u % PageBytes /\ u = k * PageBytes + b
  <2>1. PageOf(u) \in Nat /\ u % PageBytes \in InPage /\ At(PageOf(u), u % PageBytes) = u
    BY PlaceOf
  <2>. QED  BY <2>1 DEF At
<1>2. nrpgs(u) = k + (IF b # 0 THEN 1 ELSE 0) /\ b \in Nat /\ k * PageBytes \in Nat /\ l * PageBytes \in Nat
  BY <1>1, PageBytesNat DEF nrpgs, PageOf, InPage
<1>3. ~(l < k)
  <2>1. SUFFICES ASSUME l < k PROVE FALSE
    OBVIOUS
  <2>2. l * PageBytes + PageBytes <= k * PageBytes
    BY <2>1, PageBytesNat, MonotoneStrict
  <2>. QED  BY <2>2, <1>1, <1>2, PageBytesNat
<1>4. b # 0 => l # k
  BY <1>1, <1>2
<1>. QED  BY <1>2, <1>3, <1>4

(* Both ways to count the pages for a number of bytes agree.               *)
LEMMA CountsAgree ==
    ASSUME NEW u \in Nat
    PROVE  nrpgs(u) = nr_pages(u)
<1>a. u \div PageBytes \in Nat /\ u % PageBytes \in 0 .. (PageBytes - 1) /\ u % PageBytes = u - PageBytes * (u \div PageBytes)
  BY PageBytesNat, Division
<1>b. PICK k \in Nat, b \in Nat : k = u \div PageBytes /\ b = u % PageBytes /\ b < PageBytes /\ b = u - PageBytes * k
  BY <1>a, PageBytesNat
<1>1. k = u \div PageBytes /\ b = u % PageBytes /\ u = PageBytes * k + b /\ b < PageBytes
  <2>1. PICK t \in Nat : t = PageBytes * k
    BY PageBytesNat
  <2>2. u = PageBytes * k + b
    BY <1>b, <2>1
  <2>. QED  BY <1>b, <2>2
<1>2. PICK w \in Nat : w = u + PageBytes - 1 /\ nr_pages(u) = w \div PageBytes
  BY PageBytesNat DEF nr_pages
<1>3. PageBytes * k \in Nat /\ PageBytes * (k + 1) = PageBytes * k + PageBytes /\ k + 1 \in Nat
  BY PageBytesNat
<1>4. CASE b = 0
  <2>1. PageBytes * k <= w /\ w < PageBytes * k + PageBytes
    BY <1>1, <1>2, <1>3, <1>4, PageBytesNat
  <2>2. w \div PageBytes = k
    BY <1>2, <2>1, PageBytesNat, Quotient
  <2>. QED  BY <2>2, <1>1, <1>2, <1>4 DEF nrpgs
<1>5. CASE b # 0
  <2>1. PageBytes * (k + 1) <= w /\ w < PageBytes * (k + 1) + PageBytes
    BY <1>1, <1>2, <1>3, <1>5, PageBytesNat
  <2>2. w \div PageBytes = k + 1
    BY <1>2, <1>3, <2>1, PageBytesNat, Quotient
  <2>. QED  BY <2>2, <1>1, <1>2, <1>5 DEF nrpgs
<1>. QED  BY <1>4, <1>5

(* The bytes of a turn of the loop that fills, or copies.                  *)
LEMMA TurnBytes ==
    ASSUME NEW c \in FileCall, c.pos < End(c)
    PROVE  /\ NumBytes(c) \in Nat \ {0} /\ First(c) \in InPage /\ First(c) + NumBytes(c) <= PageBytes
           /\ c.off <= c.pos => /\ c.pos + NumBytes(c) <= End(c)
                                /\ c.pos + NumBytes(c) < End(c) => NumBytes(c) = PageBytes - First(c)
           /\ c.pos < c.off => c.pos + NumBytes(c) <= c.off /\ c.off <= End(c)
<1>1. /\ c.pos \in Nat /\ c.off \in Nat /\ c.n \in Nat /\ End(c) \in Nat /\ c.off <= End(c)
  BY DEF FileCall, End
<1>2. First(c) \in InPage /\ First(c) \in Nat /\ First(c) < PageBytes
  <2>1. First(c) \in InPage
    BY <1>1, PlaceOf DEF First
  <2>. QED  BY <2>1, PageBytesNat DEF InPage
<1>3. PICK x \in Nat, y \in Nat, z \in Int, s \in Nat : x = PageBytes - First(c) /\ y = End(c) - c.pos /\ z = c.off - c.pos /\ s = Least(x, y)
  BY <1>1, <1>2, PageBytesNat DEF Least
<1>4. x > 0 /\ y > 0 /\ s > 0 /\ s <= x /\ s <= y /\ (s = x \/ s = y)
  BY <1>1, <1>2, <1>3, PageBytesNat DEF Least
<1>5. NumBytes(c) = IF c.pos < c.off THEN Least(s, z) ELSE s
  BY <1>3 DEF NumBytes
<1>6. CASE c.pos < c.off
  <2>1. z > 0
    BY <1>1, <1>3, <1>6
  <2>2. NumBytes(c) \in Nat \ {0} /\ NumBytes(c) <= x /\ NumBytes(c) <= z
    BY <2>1, <1>4, <1>5, <1>6 DEF Least
  <2>3. c.pos + NumBytes(c) <= c.off
    BY <2>2, <1>1, <1>3
  <2>4. First(c) + NumBytes(c) <= PageBytes
    BY <2>2, <1>2, <1>3, PageBytesNat
  <2>. QED  BY <2>2, <2>3, <2>4, <1>1, <1>2, <1>6
<1>7. CASE ~(c.pos < c.off)
  <2>1. NumBytes(c) = s
    BY <1>5, <1>7
  <2>2. NumBytes(c) \in Nat \ {0} /\ First(c) + NumBytes(c) <= PageBytes
    BY <2>1, <1>2, <1>3, <1>4, PageBytesNat
  <2>3. c.pos + NumBytes(c) <= End(c)
    BY <2>1, <1>1, <1>3, <1>4
  <2>4. c.pos + NumBytes(c) < End(c) => NumBytes(c) = PageBytes - First(c)
    BY <2>1, <1>1, <1>3, <1>4
  <2>. QED  BY <2>2, <2>3, <2>4, <1>2, <1>7
<1>. QED  BY <1>6, <1>7

(* The pages of a call.                                                    *)
LEMMA WriteTouches ==
    ASSUME NEW c \in FileCall, Writes(c), WriteShape(c)
    PROVE  /\ From(c) \in Nat /\ From(c) <= c.off /\ From(c) <= c.fsz /\ (From(c) = c.off \/ From(c) = c.fsz)
           /\ End(c) \in Nat /\ c.off < End(c)
           /\ Touched(c) = PageOf(From(c)) .. PageOf(End(c) - 1) /\ Touched(c) \subseteq Pages
           /\ \A o \in From(c) .. End(c) - 1 : PageOf(o) \in Touched(c)
           /\ \A k \in 1 .. Len(c.pgs) : c.pgs[k] \in Touched(c)
<1>1. c.off \in Nat /\ c.fsz \in Nat /\ c.n \in Nat /\ c.n > 0 /\ End(c) <= NPages * PageBytes
  BY DEF FileCall, WriteShape
<1>2. From(c) \in Nat /\ From(c) <= c.off /\ From(c) <= c.fsz /\ (From(c) = c.off \/ From(c) = c.fsz)
  BY <1>1 DEF From, Least
<1>3. End(c) \in Nat /\ c.off < End(c) /\ End(c) - 1 \in Nat /\ From(c) <= End(c) - 1
  BY <1>1, <1>2 DEF End
<1>4. Touched(c) = PageOf(From(c)) .. PageOf(End(c) - 1)
  <2>1. c.pc # "idle"
    BY DEF Writes
  <2>. QED  BY <2>1 DEF Touched, From
<1>5. PICK u \in Nat : u = End(c) - 1 /\ u < NPages * PageBytes
  BY <1>1, <1>3, PageBytesNat
<1>6. PageOf(From(c)) \in Nat /\ PageOf(u) \in Nat /\ PageOf(u) < NPages
  BY <1>2, <1>5, PageBytesNat, PlaceOf
<1>7. Touched(c) \subseteq Pages
  BY <1>4, <1>5, <1>6, PageBytesNat DEF Pages
<1>8. ASSUME NEW o \in From(c) .. End(c) - 1 PROVE PageOf(o) \in Touched(c)
  <2>1. o \in Nat /\ From(c) <= o /\ o <= u
    BY <1>2, <1>3, <1>5
  <2>2. PageOf(o) \in Nat /\ PageOf(From(c)) <= PageOf(o) /\ PageOf(o) <= PageOf(u)
    BY <2>1, <1>2, PageOrder, PlaceOf
  <2>. QED  BY <2>2, <1>4, <1>5, <1>6
<1>. QED  BY <1>2, <1>3, <1>4, <1>7, <1>8 DEF WriteShape

(* A byte of a page that a write does not work on is not in its range.     *)
LEMMA NotInRange ==
    ASSUME NEW c \in FileCall, Writes(c), WriteShape(c), NEW g \in Pages \ Touched(c), NEW b \in InPage
    PROVE  At(g, b) \notin From(c) .. End(c) - 1
<1>1. PageOf(At(g, b)) = g
  BY PageBytesNat, PagePlace DEF Pages
<1>. QED  BY <1>1, WriteTouches

LEMMA ReadTouches ==
    ASSUME NEW c \in FileCall, Reads(c), ReadShape(c), c.fsz \in 0 .. NPages * PageBytes
    PROVE  /\ nr_pages(c.n) \in Nat /\ nr_pages(c.n) <= NPages /\ Len(c.pgs) \in Nat /\ Len(c.pgs) <= nr_pages(c.n)
           /\ Touched(c) = 0 .. nr_pages(c.n) - 1 /\ Touched(c) \subseteq Pages
           /\ \A k \in 1 .. Len(c.pgs) : c.pgs[k] \in Touched(c)
           /\ Holding(c) \subseteq Touched(c)
<1>1. /\ c.n \in Nat /\ c.at \in Nat /\ Len(c.pgs) \in Nat /\ NPages \in Nat /\ c.n <= NPages * PageBytes
  BY PageBytesNat DEF FileCall, ReadShape
<1>2. nr_pages(c.n) \in Nat /\ nr_pages(c.n) <= NPages
  BY <1>1, ReadPagesCount
<1>3. Touched(c) = 0 .. nr_pages(c.n) - 1
  BY DEF Touched, Reads, Writes
<1>4. Touched(c) \subseteq Pages
  BY <1>1, <1>2, <1>3, PageBytesNat DEF Pages
<1>5. Len(c.pgs) <= nr_pages(c.n)
  BY <1>1, <1>2 DEF ReadShape
<1>6. \A k \in 1 .. Len(c.pgs) : c.pgs[k] \in Touched(c)
  BY <1>1, <1>2, <1>3, <1>5 DEF ReadShape
<1>7. Holding(c) \subseteq Touched(c)
  BY <1>1, <1>6 DEF Holding, Pgs
<1>. QED  BY <1>1, <1>2, <1>3, <1>4, <1>5, <1>6, <1>7

(* Of any call: its pages are pages of the file.                           *)
LEMMA CallTouches ==
    ASSUME FileTyped, Shapes, NEW p \in Procs
    PROVE  /\ call[p] \in FileCall /\ Touched(call[p]) \subseteq Pages
           /\ Pgs(call[p], 1, Len(call[p].pgs)) \subseteq Pages
           /\ Holding(call[p]) \subseteq Touched(call[p]) /\ Keeping(call[p]) \subseteq Pages
           /\ Writes(call[p]) \/ Reads(call[p]) => Pgs(call[p], 1, Len(call[p].pgs)) \subseteq Touched(call[p])
<1>1. call[p] \in FileCall
  BY DEF FileTyped
<1>2. Pgs(call[p], 1, Len(call[p].pgs)) \subseteq Pages
  BY <1>1 DEF FileCall, Pgs
<1>3. ASSUME Writes(call[p])
      PROVE  /\ Touched(call[p]) \subseteq Pages /\ Holding(call[p]) \subseteq Touched(call[p])
             /\ Pgs(call[p], 1, Len(call[p].pgs)) \subseteq Touched(call[p])
  <2>1. Touched(call[p]) \subseteq Pages /\ \A k \in 1 .. Len(call[p].pgs) : call[p].pgs[k] \in Touched(call[p])
    BY <1>1, <1>3, WriteTouches DEF Shapes
  <2>2. Holding(call[p]) = {}
    BY <1>3 DEF Holding, Writes
  <2>. QED  BY <2>1, <2>2 DEF Pgs
<1>4. ASSUME Reads(call[p])
      PROVE  /\ Touched(call[p]) \subseteq Pages /\ Holding(call[p]) \subseteq Touched(call[p])
             /\ Pgs(call[p], 1, Len(call[p].pgs)) \subseteq Touched(call[p])
  <2>1. /\ Touched(call[p]) \subseteq Pages /\ Holding(call[p]) \subseteq Touched(call[p])
        /\ \A k \in 1 .. Len(call[p].pgs) : call[p].pgs[k] \in Touched(call[p])
    BY <1>1, <1>4, ReadTouches DEF Shapes
  <2>. QED  BY <2>1 DEF Pgs
<1>5. ASSUME ~Writes(call[p]) /\ ~Reads(call[p])
      PROVE  Touched(call[p]) \subseteq Pages /\ Holding(call[p]) \subseteq Touched(call[p])
  <2>1. call[p].pc \in {"idle", "killed"}
    BY <1>1, <1>5 DEF FileCall, Writes, Reads
  <2>2. nr_pages(0) = 0 /\ (call[p].pc = "killed" => call[p].n = 0)
    BY ReadPagesCount DEF Shapes
  <2>3. Touched(call[p]) = {} /\ Holding(call[p]) = {}
    BY <2>1, <2>2, <1>5 DEF Touched, Holding
  <2>. QED  BY <2>3
<1>6. /\ Touched(call[p]) \subseteq Pages /\ Holding(call[p]) \subseteq Touched(call[p])
      /\ Writes(call[p]) \/ Reads(call[p]) => Pgs(call[p], 1, Len(call[p].pgs)) \subseteq Touched(call[p])
  BY <1>3, <1>4, <1>5
<1>7. Keeping(call[p]) \subseteq Pages
  BY <1>2, <1>6 DEF Keeping
<1>. QED  BY <1>1, <1>2, <1>6, <1>7

-----------------------------------------------------------------------------
(* What a finished or running call wrote at a page's bytes is untouched.   *)
SameFile(g) == \A b \in InPage : file'[At(g, b)] = file[At(g, b)]

LEMMA HoldsApart ==
    ASSUME NEW g, NEW m, SameFile(g), cache'[g] = cache[g], Holds(g, m)
    PROVE  Holds(g, m)'
  BY DEF Holds, SameFile, Wrote

(* A page stays right while its write does not move on.                    *)
LEMMA RightApart ==
    ASSUME NEW p, NEW g, NEW page, NEW m, Right(p, g, page, m),
           call'[p].off = call[p].off, call'[p].n = call[p].n, call'[p].fsz = call[p].fsz, call'[p].pos = call[p].pos,
           SameFile(g), g \in spoiled => g \in spoiled'
    PROVE  Right(p, g, page, m)'
<1>1. From(call'[p]) = From(call[p]) /\ End(call'[p]) = End(call[p])
  BY DEF From, End
<1>2. ASSUME NEW b \in InPage, At(g, b) \in From(call[p]) .. call[p].pos - 1
      PROVE  page[b] = [Puts(p, At(g, b))' EXCEPT !.layers = m]
  <2>1. Puts(p, At(g, b))' = Puts(p, At(g, b))
    BY DEF Puts
  <2>. QED  BY <2>1, <1>2 DEF Right
<1>3. ASSUME NEW b \in InPage, Around(call'[p], At(g, b)), g \notin spoiled', file'[At(g, b)] # "none"
      PROVE  page[b] = [Wrote(At(g, b))' EXCEPT !.layers = m]
  <2>1. Wrote(At(g, b))' = Wrote(At(g, b)) /\ file[At(g, b)] # "none"
    BY <1>3 DEF Wrote, SameFile
  <2>2. Around(call[p], At(g, b)) /\ g \notin spoiled
    BY <1>1, <1>3 DEF Around
  <2>. QED  BY <2>1, <2>2 DEF Right
<1>4. page # NoPage
  BY DEF Right
<1>. QED  BY <1>1, <1>2, <1>3, <1>4 DEF Right

(* A call whose pages are left alone is left alone.                        *)
LEMMA WriteApart ==
    ASSUME FileTyped, Shapes, NEW q \in Procs, call'[q] = call[q], shared \subseteq shared', Writes(call[q]), WriteKnown(q),
           \A g \in Pgs(call[q], 1, Len(call[q].pgs)) \ shared' :
             lower'[g] = lower[g] /\ cache'[g] = cache[g] /\ SameFile(g) /\ (g \in spoiled => g \in spoiled')
    PROVE  WriteKnown(q)'
<1>1. PICK c \in FileCall : c = call[q] /\ c = call'[q]
  BY DEF FileTyped
<1>2. ASSUME NEW g \in Pgs(c, 1, Len(c.pgs)) \ shared', NEW page, NEW m, Right(q, g, page, m)
      PROVE  Right(q, g, page, m)'
  BY <1>1, <1>2, RightApart
<1>3. ASSUME NEW g \in Pgs(c, 1, Len(c.pgs)) \ shared' PROVE Right(q, g, cache[g], 0)'
  <2>1. PICK page : page = cache[g] /\ page = cache'[g]
    BY <1>1, <1>3
  <2>2. Right(q, g, page, 0)
    BY <2>1, <1>1, <1>3 DEF WriteKnown
  <2>3. Right(q, g, page, 0)'
    BY <2>2, <1>2, <1>3
  <2>. QED  BY <2>1, <2>3 DEF Right
<1>4. ASSUME c.pc = "store" PROVE Len(c.enc) \in Nat /\ Len(c.enc) <= Len(c.pgs) /\ Len(c.pgs) \in Nat /\ c.at \in Nat /\ c.at <= Len(c.enc)
  BY <1>1, <1>4, CallFields DEF Shapes, WriteShape
<1>5. ASSUME c.pc = "store", NEW k \in 1 .. Len(c.enc), c.pgs[k] \notin shared'
      PROVE  Right(q, c.pgs[k], c.enc[k], 1)'
  <2>1. k \in 1 .. Len(c.pgs)
    BY <1>4, <1>5
  <2>2. c.pgs[k] \in Pgs(c, 1, Len(c.pgs)) \ shared'
    BY <2>1, <1>5 DEF Pgs
  <2>3. Right(q, c.pgs[k], c.enc[k], 1)
    BY <2>2, <1>1, <1>5 DEF WriteKnown
  <2>. QED  BY <2>2, <2>3, <1>2
<1>6. ASSUME c.pc = "store", NEW k \in 1 .. c.at, c.pgs[k] \notin shared'
      PROVE  Right(q, c.pgs[k], lower[c.pgs[k]], 1)'
  <2>1. k \in 1 .. Len(c.pgs)
    BY <1>4, <1>6
  <2>2. PICK g \in Pgs(c, 1, Len(c.pgs)) \ shared' : g = c.pgs[k]
    BY <2>1, <1>6 DEF Pgs
  <2>3. PICK page : page = lower[g] /\ page = lower'[g]
    BY <2>2, <1>1
  <2>4. Right(q, g, page, 1)
    BY <2>2, <2>3, <1>1, <1>6 DEF WriteKnown
  <2>5. Right(q, g, page, 1)'
    BY <2>2, <2>4, <1>2
  <2>. QED  BY <2>2, <2>3, <2>5 DEF Right
<1>. QED  BY <1>1, <1>3, <1>5, <1>6 DEF WriteKnown

LEMMA ReadApart ==
    ASSUME FileTyped, Shapes, NEW q \in Procs, call'[q] = call[q], shared \subseteq shared', Reads(call[q]), ReadKnown(q),
           \A g \in Touched(call[q]) \ shared' : SameFile(g) /\ (g \in spoiled => g \in spoiled'),
           \A g \in Holding(call[q]) : cache'[g] = cache[g]
    PROVE  ReadKnown(q)'
<1>1. PICK c : c = call[q]
  OBVIOUS
<1>2. c.fsz \in 0 .. NPages * PageBytes
  BY <1>1 DEF Shapes
<1>3. c \in FileCall /\ Reads(c) /\ ReadShape(c)
  BY <1>1 DEF FileTyped, Shapes
<1>4. /\ nr_pages(c.n) \in Nat /\ Len(c.pgs) \in Nat /\ Len(c.pgs) <= nr_pages(c.n)
      /\ Touched(c) = 0 .. nr_pages(c.n) - 1
      /\ \A k \in 1 .. Len(c.pgs) : c.pgs[k] \in Touched(c)
      /\ c.at \in Nat /\ c.off \in Nat /\ c.pos \in Nat /\ c.n \in Nat /\ Len(c.got) \in Nat
  BY <1>2, <1>3, ReadTouches, CallFields
<1>5. \A g \in Known(c)' : g \in Known(c) /\ SameFile(g)
  BY <1>1 DEF Known
<1>6. ASSUME c.pc = "load", NEW k \in 1 .. c.at, c.pgs[k] \in Known(c)' PROVE Holds(c.pgs[k], 1)'
  <2>1. k \in 1 .. Len(c.pgs) /\ c.pgs[k] \in Holding(c)
    BY <1>3, <1>4, <1>6 DEF ReadShape, Holding, Pgs
  <2>2. Holds(c.pgs[k], 1) /\ SameFile(c.pgs[k]) /\ cache'[c.pgs[k]] = cache[c.pgs[k]]
    BY <2>1, <1>1, <1>5, <1>6 DEF ReadKnown
  <2>. QED  BY <2>2, HoldsApart
<1>7. ASSUME c.pc = "copy", NEW k \in c.at + 1 .. Len(c.pgs), c.pgs[k] \in Known(c)' PROVE Holds(c.pgs[k], 0)'
  <2>1. c.pgs[k] \in Holding(c)
    BY <1>7 DEF Holding, Pgs
  <2>2. Holds(c.pgs[k], 0) /\ SameFile(c.pgs[k]) /\ cache'[c.pgs[k]] = cache[c.pgs[k]]
    BY <2>1, <1>1, <1>5, <1>7 DEF ReadKnown
  <2>. QED  BY <2>2, HoldsApart
<1>8. ASSUME c.pc \in {"copy", "read"}, Good(c)'
      PROVE  /\ c.off <= c.pos /\ c.pos <= End(c) /\ Len(c.got) = c.pos - c.off
             /\ \A k \in 1 .. Len(c.got) : c.got[k] = Wrote(c.off + k - 1)'
             /\ c.pc = "copy" /\ c.pos < End(c) => (c.pos = c.off /\ c.at = 0) \/ c.pos = c.at * PageBytes
             /\ c.pc = "read" => c.pos = End(c)
  <2>1. Good(c)
    BY <1>1, <1>8 DEF Good
  <2>2. /\ c.off <= c.pos /\ c.pos <= End(c) /\ Len(c.got) = c.pos - c.off
        /\ \A k \in 1 .. Len(c.got) : c.got[k] = Wrote(c.off + k - 1)
        /\ c.pc = "copy" /\ c.pos < End(c) => (c.pos = c.off /\ c.at = 0) \/ c.pos = c.at * PageBytes
        /\ c.pc = "read" => c.pos = End(c)
    BY <2>1, <1>1, <1>8 DEF ReadKnown
  <2>3. ASSUME NEW k \in 1 .. Len(c.got) PROVE Wrote(c.off + k - 1)' = Wrote(c.off + k - 1)
    <3>0. PICK x \in Nat, u \in Nat, e \in Nat : x = c.off /\ u = c.pos /\ e = End(c)
      BY <1>4 DEF End
    <3>a. x <= u /\ u <= e /\ Len(c.got) = u - x
      BY <2>2, <3>0
    <3>b. k \in Nat /\ k >= 1 /\ k <= u - x
      BY <3>a, <1>4
    <3>c. x + k - 1 \in Nat /\ x + k - 1 <= e - 1 /\ e - 1 \in Nat
      BY <3>a, <3>b
    <3>1. PICK o \in Nat : o = c.off + k - 1 /\ o <= End(c) - 1 /\ End(c) - 1 \in Nat
      BY <3>0, <3>c
    <3>2. PageOf(o) \in Nat /\ o % PageBytes \in InPage /\ At(PageOf(o), o % PageBytes) = o /\ PageOf(o) <= PageOf(End(c) - 1)
          /\ PageOf(End(c) - 1) \in Nat
      BY <3>1, PlaceOf, PageOrder
    <3>3. PageOf(o) \in Touched(c)
      BY <3>2, <1>4, <2>1 DEF Good
    <3>4. SameFile(PageOf(o))
      BY <3>3, <1>1, <1>8 DEF Good
    <3>5. file'[o] = file[o]
      BY <3>2, <3>4 DEF SameFile
    <3>. QED  BY <3>1, <3>5 DEF Wrote
  <2>. QED  BY <2>2, <2>3
<1>. QED  BY <1>1, <1>6, <1>7, <1>8 DEF ReadKnown


(* A call that changes only pages it works on leaves the others alone.     *)
LEMMA OthersKnown ==
    ASSUME FileKnown, NEW p \in Procs, \A q \in Procs \ {p} : call'[q] = call[q], shared \subseteq shared',
           \A g \in Pages : (lower'[g] = lower[g] /\ SameFile(g) /\ (g \in spoiled => g \in spoiled'))
                            \/ (Writes(call[p]) /\ g \in Touched(call[p])),
           \A g \in Pages : cache'[g] = cache[g]
                            \/ (g \in Touched(call[p]) /\ \A q \in Procs \ {p} : g \notin Holding(call[q]))
    PROVE  \A q \in Procs \ {p} : /\ (Writes(call[q]) => WriteKnown(q))'
                                  /\ (Reads(call[q]) => ReadKnown(q))'
<1>. SUFFICES ASSUME NEW q \in Procs \ {p}
              PROVE  (Writes(call'[q]) => WriteKnown(q)') /\ (Reads(call'[q]) => ReadKnown(q)')
  OBVIOUS
<1>1. /\ FileTyped /\ Shapes /\ Notes /\ q \in Procs /\ call'[q] = call[q]
      /\ Writes(call[q]) => WriteKnown(q)
      /\ Reads(call[q]) => ReadKnown(q)
  BY DEF FileKnown
<1>2. /\ Touched(call[q]) \subseteq Pages /\ Holding(call[q]) \subseteq Touched(call[q])
      /\ Writes(call[q]) => Pgs(call[q], 1, Len(call[q].pgs)) \subseteq Touched(call[q])
  BY <1>1, CallTouches
<1>3. ASSUME Writes(call[q]) PROVE WriteKnown(q)'
  <2>1. ASSUME NEW g \in Pgs(call[q], 1, Len(call[q].pgs)) \ shared'
        PROVE  lower'[g] = lower[g] /\ cache'[g] = cache[g] /\ SameFile(g) /\ (g \in spoiled => g \in spoiled')
    <3>1. g \in Touched(call[q]) /\ g \in Pages
      BY <1>2, <1>3
    <3>2. g \notin Touched(call[p])
      BY <3>1, <1>1, <1>3, <2>1 DEF Notes
    <3>. QED  BY <3>1, <3>2
  <2>. QED  BY <2>1, <1>1, <1>3, WriteApart
<1>4. ASSUME Reads(call[q]) PROVE ReadKnown(q)'
  <2>1. \A g \in Touched(call[q]) \ shared' : SameFile(g) /\ (g \in spoiled => g \in spoiled')
    BY <1>1, <1>2 DEF Notes
  <2>2. \A g \in Holding(call[q]) : cache'[g] = cache[g]
    BY <1>2
  <2>. QED  BY <2>1, <2>2, <1>1, <1>4, ReadApart
<1>. QED  BY <1>1, <1>3, <1>4

(* The cache holds the file, if the call that moves leaves the pages that  *)
(* it works on right, or is halfway through them.                          *)
LEMMA CacheApart ==
    ASSUME CacheHolds, NEW p \in Procs, \A q \in Procs \ {p} : Halfway(call'[q]) = Halfway(call[q]),
           shared \subseteq shared',
           \A g \in Pages \ (shared' \cup spoiled') :
              \/ SameFile(g) /\ cache'[g] = cache[g] /\ g \notin Halfway(call[p]) /\ g \notin spoiled
              \/ g \in Halfway(call'[p]) \/ Holds(g, 0)'
    PROVE  CacheHolds'
<1>. SUFFICES ASSUME NEW g \in Pages \ (shared' \cup spoiled'), \A q \in Procs : g \notin Halfway(call'[q]),
                     cache'[g] # NoPage
              PROVE  Holds(g, 0)'
  BY DEF CacheHolds
<1>1. CASE SameFile(g) /\ cache'[g] = cache[g] /\ g \notin Halfway(call[p]) /\ g \notin spoiled
  <2>1. \A q \in Procs : g \notin Halfway(call[q])
    BY <1>1
  <2>2. Holds(g, 0)
    BY <2>1, <1>1 DEF CacheHolds
  <2>. QED  BY <2>2, <1>1, HoldsApart
<1>. QED  BY <1>1

(* A step within a call.                                                   *)
LEMMA InnerStep ==
    ASSUME FileKnown, NEW p \in Procs, \A q \in Procs \ {p} : call'[q] = call[q],
           UNCHANGED <<size, file, shared>>, spoiled \subseteq spoiled', spoiled' \subseteq Pages,
           call' \in [Procs -> FileCall], locked' \subseteq Pages,
           cache' \in [Pages -> APage \cup {NoPage}], lower' \in [Pages -> APage \cup {NoPage}],
           Writes(call'[p]) <=> Writes(call[p]),
           Touched(call'[p]) \subseteq Touched(call[p]),
           Writes(call[p]) => Touched(call'[p]) = Touched(call[p]),
           call'[p].fsz \in {0, call[p].fsz},
           Writes(call'[p]) => WriteShape(call'[p]) /\ WriteKnown(p)',
           Reads(call'[p]) => ReadShape(call'[p]) /\ ReadKnown(p)',
           call'[p].pc = "killed" => call'[p].n = 0,
           \A g \in Pages : lower'[g] = lower[g] \/ (Writes(call[p]) /\ g \in Touched(call[p])),
           \A g \in Pages : cache'[g] = cache[g]
                            \/ (g \in Touched(call[p]) /\ \A q \in Procs \ {p} : g \notin Holding(call[q])),
           \A g \in Pages \ (shared \cup spoiled') :
              \/ cache'[g] = cache[g] /\ g \notin Halfway(call[p])
              \/ g \in Halfway(call'[p]) \/ Holds(g, 0)',
           Holding(call'[p]) \cap locked \subseteq Holding(call[p]), Holding(call'[p]) \subseteq locked',
           \A g \in locked \ locked' : g \in Holding(call[p]),
           \A g \in Pages : cache[g] # NoPage => cache'[g] # NoPage,
           \A g \in Keeping(call'[p]) : cache'[g] # NoPage
    PROVE  FileKnown'
<1>0. \A g \in Pages : SameFile(g)
  BY DEF SameFile
<1>1. \A q \in Procs \ {p} : (Writes(call[q]) => WriteKnown(q))' /\ (Reads(call[q]) => ReadKnown(q))'
  BY <1>0, OthersKnown
<1>2. (Writes(call[p]) => WriteKnown(p))' /\ (Reads(call[p]) => ReadKnown(p))'
  OBVIOUS
<1>3. FileTyped'
  BY DEF FileKnown, FileTyped
<1>4. Shapes'
  <2>1. 0 \in 0 .. NPages * PageBytes
    BY PageBytesNat
  <2>. QED  BY <2>1 DEF FileKnown, Shapes
<1>5. Notes'
  BY DEF FileKnown, Notes
<1>6. Written'
  <2>1. \A o \in 0 .. call'[p].fsz - 1 : file[o] # "none"
    BY DEF FileKnown, Written
  <2>. QED  BY <2>1 DEF FileKnown, Written
<1>7. Stored'
  <2>1. ASSUME NEW g \in Pages \ (shared \cup spoiled'), ~Writing(g)' PROVE StoredPage(g)'
    <3>1. ~Writing(g) /\ g \notin spoiled
      BY <2>1 DEF Writing
    <3>2. StoredPage(g) /\ lower'[g] = lower[g]
      BY <3>1 DEF FileKnown, Stored, Writing
    <3>. QED  BY <3>2 DEF StoredPage, Wrote
  <2>. QED  BY <2>1 DEF Stored
<1>8. Locks'
  <2>1. Locks /\ FileTyped /\ Shapes
    BY DEF FileKnown
  <2>2. \A q \in Procs \ {p} : Holding(call'[q]) = Holding(call[q]) /\ Holding(call[q]) \cap Holding(call'[p]) = {}
    BY <2>1 DEF Locks
  <2>3. \A q \in Procs : Holding(call'[q]) \subseteq locked'
    BY <2>1, <2>2 DEF Locks
  <2>4. \A q, u \in Procs : q # u => Holding(call'[q]) \cap Holding(call'[u]) = {}
    BY <2>1, <2>2 DEF Locks
  <2>5. ASSUME NEW q \in Procs \ {p}, NEW g \in Keeping(call'[q]) PROVE cache'[g] # NoPage
    <3>1. g \in Pages /\ g \in Keeping(call[q])
      BY <2>1, <2>5, CallTouches
    <3>. QED  BY <3>1, <2>1 DEF Locks
  <2>. QED  BY <2>3, <2>4, <2>5 DEF Locks
<1>9. CacheHolds'
  <2>1. CacheHolds /\ \A q \in Procs \ {p} : Halfway(call'[q]) = Halfway(call[q])
    BY DEF FileKnown
  <2>. QED  BY <2>1, <1>0, CacheApart
<1>. QED  BY <1>1, <1>2, <1>3, <1>4, <1>5, <1>6, <1>7, <1>8, <1>9 DEF FileKnown

-----------------------------------------------------------------------------
(* Writes.                                                                 *)
LEMMA APageIsPage == \A page \in APage : page # NoPage
<1>1. 0 \in InPage /\ InPage # {}
  BY PageBytesNat DEF InPage
<1>2. \A page \in APage : DOMAIN page = InPage
  BY DEF APage
<1>3. DOMAIN NoPage = {}
  BY DEF NoPage
<1>. QED  BY <1>1, <1>2, <1>3

LEMMA LayerTyped ==
    ASSUME NEW page \in APage, NEW m \in Int
    PROVE  /\ Layer(page, m) \in APage
           /\ \A b \in InPage : Layer(page, m)[b] = [page[b] EXCEPT !.layers = page[b].layers + m]
<1>1. \A b \in InPage : page[b] \in AByte
  BY DEF APage
<1>2. \A b \in InPage : [page[b] EXCEPT !.layers = page[b].layers + m] \in AByte
  BY <1>1 DEF AByte
<1>3. Layer(page, m) = [b \in InPage |-> [page[b] EXCEPT !.layers = page[b].layers + m]]
  BY DEF Layer
<1>. QED  BY <1>2, <1>3 DEF APage

(* Encryption adds a layer to a page that is right.                        *)
LEMMA ByteLayers ==
    ASSUME NEW v, NEW o, NEW y, NEW m, NEW w, w = Byte(v, o, y)
    PROVE  [w EXCEPT !.layers = m] = Byte(v, o, m)
  BY DEF Byte

LEMMA RightEncrypted ==
    ASSUME NEW p, NEW g, NEW page \in APage, Right(p, g, page, 0)
    PROVE  Right(p, g, Layer(page, 1), 1)
<1>1. ASSUME NEW b \in InPage, NEW w, NEW v, NEW o, w = Byte(v, o, 0), page[b] = [w EXCEPT !.layers = 0]
      PROVE  Layer(page, 1)[b] = [w EXCEPT !.layers = 1]
  <2>1. page[b] = Byte(v, o, 0) /\ [w EXCEPT !.layers = 1] = Byte(v, o, 1)
    BY <1>1, ByteLayers
  <2>2. Layer(page, 1)[b] = [page[b] EXCEPT !.layers = page[b].layers + 1]
    BY LayerTyped
  <2>3. page[b].layers + 1 = 1
    BY <2>1 DEF Byte
  <2>4. Layer(page, 1)[b] = Byte(v, o, 1)
    BY <2>1, <2>2, <2>3, ByteLayers
  <2>. QED  BY <2>1, <2>4
<1>2. ASSUME NEW b \in InPage, At(g, b) \in From(call[p]) .. call[p].pos - 1
      PROVE  Layer(page, 1)[b] = [Puts(p, At(g, b)) EXCEPT !.layers = 1]
  <2>1. PICK v, o, w : w = Byte(v, o, 0) /\ w = Puts(p, At(g, b))
    BY DEF Puts, Zero
  <2>2. page[b] = [w EXCEPT !.layers = 0]
    BY <2>1, <1>2 DEF Right
  <2>3. Layer(page, 1)[b] = [w EXCEPT !.layers = 1]
    BY <2>1, <2>2, <1>1
  <2>. QED  BY <2>1, <2>3
<1>3. ASSUME NEW b \in InPage, Around(call[p], At(g, b)), g \notin spoiled, file[At(g, b)] # "none"
      PROVE  Layer(page, 1)[b] = [Wrote(At(g, b)) EXCEPT !.layers = 1]
  <2>1. PICK v, o, w : w = Byte(v, o, 0) /\ w = Wrote(At(g, b))
    BY DEF Wrote, Zero
  <2>2. page[b] = [w EXCEPT !.layers = 0]
    BY <2>1, <1>3 DEF Right
  <2>3. Layer(page, 1)[b] = [w EXCEPT !.layers = 1]
    BY <2>1, <2>2, <1>1
  <2>. QED  BY <2>1, <2>3
<1>4. Layer(page, 1) # NoPage
  BY LayerTyped, APageIsPage
<1>. QED  BY <1>2, <1>3, <1>4 DEF Right

(* The page that a turn of the loop fills, and what the turn makes of it.  *)
LEMMA TurnPage ==
    ASSUME NEW c \in FileCall, c.pos < End(c)
    PROVE  /\ PageOf(c.pos) \in Nat /\ At(PageOf(c.pos), First(c)) = c.pos
           /\ \A b \in InPage : At(PageOf(c.pos), b) - c.pos = b - First(c) /\ At(PageOf(c.pos), b) \in Nat
           /\ \A o \in c.pos .. c.pos + NumBytes(c) - 1 : PageOf(o) = PageOf(c.pos)
<1>1. c.pos \in Nat /\ NumBytes(c) \in Nat \ {0} /\ First(c) \in InPage /\ First(c) + NumBytes(c) <= PageBytes
  BY CallFields, TurnBytes
<1>2. PICK g \in Nat : g = PageOf(c.pos) /\ At(g, First(c)) = c.pos /\ g * PageBytes \in Nat
  BY <1>1, PlaceOf, PageBytesNat DEF First
<1>3. First(c) \in Nat /\ c.pos = g * PageBytes + First(c)
  BY <1>1, <1>2, PageBytesNat DEF InPage, At
<1>4. ASSUME NEW b \in InPage PROVE At(g, b) - c.pos = b - First(c) /\ At(g, b) \in Nat
  <2>1. b \in Nat
    BY PageBytesNat DEF InPage
  <2>. QED  BY <2>1, <1>2, <1>3 DEF At
<1>5. ASSUME NEW o \in c.pos .. c.pos + NumBytes(c) - 1 PROVE PageOf(o) = g
  <2>1. PICK b \in Int : b = First(c) + (o - c.pos)
    BY <1>1, <1>3
  <2>2. b \in InPage /\ At(g, b) = o
    BY <2>1, <1>1, <1>2, <1>3, <1>5, PageBytesNat DEF InPage, At
  <2>. QED  BY <2>2, PagePlace
<1>. QED  BY <1>2, <1>4, <1>5

LEMMA FilledTyped ==
    ASSUME FileTyped, NEW p \in Procs, NEW c \in FileCall, c.pos < End(c), NEW g \in Pages
    PROVE  Filled(p, c, Cached(g)) \in APage
<1>1. Junk \in APage /\ Zero \in AByte
  BY DEF Junk, Zero, APage, AByte, Byte
<1>2. Cached(g) \in APage
  BY <1>1 DEF Cached, FileTyped
<1>3. ASSUME NEW b \in InPage, b \in First(c) .. First(c) + NumBytes(c) - 1 PROVE Byte(p, c.pos + b - First(c), 0) \in AByte
  <2>1. c.pos \in Nat /\ First(c) \in Nat /\ b \in Nat
    BY CallFields, TurnBytes, PageBytesNat DEF InPage
  <2>2. c.pos + b - First(c) \in Nat
    BY <2>1, <1>3, CallFields, TurnBytes, PageBytesNat
  <2>. QED  BY <2>2 DEF Byte, AByte
<1>. QED  BY <1>1, <1>2, <1>3 DEF Filled, APage

(* A turn of the loop of ecryptfs_write2 leaves its page right.            *)
LEMMA TurnIsRight ==
    ASSUME FileKnown, NEW p \in Procs, write2_page(p), NEW c \in FileCall, c = call[p],
           NEW g \in Pages, g = PageOf(c.pos), g \notin shared, NEW page, page = Filled(p, c, Cached(g)),
           call'[p].off = c.off, call'[p].n = c.n, call'[p].fsz = c.fsz, call'[p].pos = c.pos + NumBytes(c)
    PROVE  Right(p, g, page, 0)'
<1>1. /\ FileTyped /\ Shapes /\ Notes /\ Locks /\ CacheHolds /\ Writes(c) /\ WriteShape(c) /\ WriteKnown(p)
      /\ c.pc = "fill" /\ c.pos < End(c) /\ g \notin locked
      /\ spoiled' = (IF Spoils(c) THEN spoiled \cup {g} ELSE spoiled) /\ file' = file
  BY DEF FileKnown, Shapes, write2_page, Writes
<1>2. /\ From(c) \in Nat /\ From(c) <= c.off /\ From(c) <= c.pos /\ c.pos \in Nat /\ c.off \in Nat /\ End(c) \in Nat
      /\ c.off < End(c)
      /\ From(call'[p]) = From(c) /\ End(call'[p]) = End(c)
  BY <1>1, WriteTouches, CallFields DEF From, End, WriteShape
<1>3. PICK x \in Nat \ {0}, j \in Nat : /\ x = NumBytes(c) /\ j = First(c) /\ j \in InPage /\ j + x <= PageBytes
                                        /\ c.off <= c.pos => c.pos + x <= End(c)
                                        /\ c.pos < c.off => c.pos + x <= c.off
  BY <1>1, TurnBytes, PageBytesNat DEF InPage
<1>4. page \in APage /\ page # NoPage
  BY <1>1, FilledTyped, APageIsPage
<1>5. ASSUME NEW b \in InPage
      PROVE  /\ At(g, b) \in Nat /\ At(g, b) - c.pos = b - j /\ b \in Nat /\ PageOf(At(g, b)) = g
             /\ page[b] = IF c.pos >= c.off /\ b \in j .. j + x - 1 THEN Byte(p, At(g, b), 0)
                          ELSE IF Zeroes(c) /\ b >= j THEN Zero ELSE Cached(g)[b]
  <2>1. At(g, b) \in Nat /\ At(g, b) - c.pos = b - j /\ PageOf(At(g, b)) = g
    BY <1>1, <1>3, TurnPage, PagePlace
  <2>2. b \in Nat /\ c.pos + b - j = At(g, b)
    BY <2>1, <1>2, PageBytesNat DEF InPage
  <2>3. page[b] = IF c.pos >= c.off /\ b \in j .. j + x - 1 THEN Byte(p, c.pos + b - j, 0)
                  ELSE IF Zeroes(c) /\ b >= j THEN Zero ELSE Cached(g)[b]
    BY <1>3 DEF Filled
  <2>. QED  BY <2>1, <2>2, <2>3
<1>6. g \in Touched(c)
  <2>1. c.pos \in From(c) .. End(c) - 1
    BY <1>1, <1>2
  <2>. QED  BY <2>1, <1>1, WriteTouches
<1>7. ASSUME g \in Pgs(c, 1, Len(c.pgs)) PROVE Right(p, g, cache[g], 0) /\ Cached(g) = cache[g]
  <2>1. Right(p, g, cache[g], 0)
    BY <1>1, <1>7 DEF WriteKnown
  <2>. QED  BY <2>1 DEF Right, Cached
<1>8. ASSUME NEW b \in InPage, At(g, b) \in From(c) .. c.pos + x - 1 PROVE page[b] = [Puts(p, At(g, b)) EXCEPT !.layers = 0]
  <2>1. CASE At(g, b) < c.pos
    <3>1. At(g, b) \in From(c) .. c.pos - 1 /\ b < j
      BY <2>1, <1>2, <1>3, <1>5, <1>8
    <3>2. g \in Pgs(c, 1, Len(c.pgs))
      BY <3>1, <1>1, <1>5 DEF WriteShape
    <3>3. cache[g][b] = [Puts(p, At(g, b)) EXCEPT !.layers = 0]
      BY <3>1, <3>2, <1>7 DEF Right
    <3>4. page[b] = Cached(g)[b]
      <4>1. ~(b >= j) /\ b \notin j .. j + x - 1
        BY <3>1, <1>5
      <4>. QED  BY <4>1, <1>5
    <3>. QED  BY <3>2, <3>3, <3>4, <1>7
  <2>2. CASE ~(At(g, b) < c.pos)
    <3>1. b >= j /\ b \in j .. j + x - 1 /\ At(g, b) < c.pos + x
      BY <2>2, <1>2, <1>3, <1>5, <1>8
    <3>2. CASE c.pos >= c.off
      <4>1. page[b] = Byte(p, At(g, b), 0) /\ Puts(p, At(g, b)) = Byte(p, At(g, b), 0)
        BY <2>2, <3>1, <3>2, <1>2, <1>5 DEF Puts
      <4>. QED  BY <4>1 DEF Byte
    <3>3. CASE ~(c.pos >= c.off)
      <4>1. Zeroes(c) /\ At(g, b) < c.off
        BY <3>1, <3>3, <1>2, <1>3, <1>5 DEF Zeroes
      <4>2. page[b] = Zero /\ Puts(p, At(g, b)) = Zero
        BY <4>1, <3>1, <3>3, <1>1, <1>5 DEF Puts
      <4>. QED  BY <4>2 DEF Zero, Byte
    <3>. QED  BY <3>2, <3>3
  <2>. QED  BY <2>1, <2>2
<1>9. ASSUME NEW b \in InPage, Around(c, At(g, b)), g \notin spoiled', file[At(g, b)] # "none"
      PROVE  page[b] = [Wrote(At(g, b)) EXCEPT !.layers = 0]
  <2>1. g \notin spoiled /\ ~Spoils(c)
    BY <1>1, <1>9
  <2>2. cache[g] # NoPage /\ page[b] = Cached(g)[b]
    <3>1. CASE At(g, b) < From(c)
      <4>1. b < j /\ b \notin j .. j + x - 1 /\ ~(b >= j) /\ j # 0
        BY <3>1, <1>2, <1>3, <1>5
      <4>. QED  BY <4>1, <2>1, <1>3, <1>5 DEF Spoils
    <3>2. CASE At(g, b) >= End(c)
      <4>1. ~Zeroes(c)
        BY <3>2, <2>1, <1>9 DEF Spoils
      <4>2. j # 0 /\ c.pos >= c.off
        BY <4>1, <1>2, <1>3 DEF Zeroes
      <4>3. b \notin j .. j + x - 1
        BY <4>2, <3>2, <1>2, <1>3, <1>5
      <4>. QED  BY <4>1, <4>2, <4>3, <2>1, <1>3, <1>5 DEF Spoils
    <3>. QED  BY <3>1, <3>2, <1>9 DEF Around
  <2>3. cache[g][b] = [Wrote(At(g, b)) EXCEPT !.layers = 0]
    <3>1. CASE g \in Pgs(c, 1, Len(c.pgs))
      BY <3>1, <2>1, <1>1, <1>7, <1>9 DEF Right
    <3>2. CASE g \notin Pgs(c, 1, Len(c.pgs))
      <4>1. ASSUME NEW q \in Procs PROVE g \notin Halfway(call[q])
        <5>1. CASE q = p
          BY <5>1, <3>2 DEF Halfway
        <5>2. CASE q # p /\ Writes(call[q])
          <6>1. Pgs(call[q], 1, Len(call[q].pgs)) \subseteq Touched(call[q])
            BY <5>2, <1>1, CallTouches
          <6>2. g \notin Touched(call[q])
            BY <5>2, <1>1, <1>6 DEF Notes
          <6>. QED  BY <6>1, <6>2 DEF Halfway
        <5>3. CASE ~Writes(call[q])
          <6>1. Halfway(call[q]) \subseteq Holding(call[q])
            BY <5>3 DEF Halfway, Holding
          <6>. QED  BY <6>1, <1>1 DEF Locks
        <5>. QED  BY <5>1, <5>2, <5>3
      <4>2. Holds(g, 0)
        BY <4>1, <2>1, <2>2, <1>1 DEF CacheHolds
      <4>. QED  BY <4>2, <1>9 DEF Holds
    <3>. QED  BY <3>1, <3>2
  <2>. QED  BY <2>2, <2>3 DEF Cached
<1>10. \A o : Puts(p, o)' = Puts(p, o) /\ Wrote(o)' = Wrote(o)
  BY <1>1 DEF Puts, Wrote
<1>11. call'[p].pos = c.pos + x
  BY <1>3
<1>12. \A o : Around(call'[p], o) <=> Around(c, o)
  BY <1>2 DEF Around
<1>. QED  BY <1>1, <1>2, <1>4, <1>8, <1>9, <1>10, <1>11, <1>12 DEF Right


(* It leaves the other pages of the write right.                           *)
LEMMA TurnLeavesRight ==
    ASSUME NEW p \in Procs, write2_page(p), NEW c \in FileCall, c = call[p],
           NEW h \in Pages, h # PageOf(c.pos), NEW page, Right(p, h, page, 0),
           call'[p].off = c.off, call'[p].n = c.n, call'[p].fsz = c.fsz, call'[p].pos = c.pos + NumBytes(c)
    PROVE  Right(p, h, page, 0)'
<1>1. /\ c.pos < End(c) /\ spoiled \subseteq spoiled' /\ file' = file /\ c.pos \in Nat /\ NumBytes(c) \in Nat
  BY CallFields, TurnBytes DEF write2_page
<1>2. From(call'[p]) = From(c) /\ End(call'[p]) = End(c) /\ From(c) \in Nat
  BY CallFields DEF From, End, Least
<1>3. ASSUME NEW b \in InPage, At(h, b) \in From(c) .. c.pos + NumBytes(c) - 1
      PROVE  At(h, b) \in From(c) .. c.pos - 1
  <2>1. PageOf(At(h, b)) = h /\ At(h, b) \in Nat
    BY PagePlace, PageBytesNat DEF Pages
  <2>2. At(h, b) \notin c.pos .. c.pos + NumBytes(c) - 1
    BY <2>1, <1>1, TurnPage
  <2>. QED  BY <2>1, <2>2, <1>1, <1>2, <1>3
<1>4. \A o : Puts(p, o)' = Puts(p, o) /\ Wrote(o)' = Wrote(o) /\ (Around(call'[p], o) <=> Around(c, o))
  BY <1>1, <1>2 DEF Puts, Wrote, Around
<1>. QED  BY <1>1, <1>2, <1>3, <1>4 DEF Right

LEMMA write2_pageKeeps ==
    ASSUME FileKnown, NEW p \in Procs, write2_page(p)
    PROVE  FileKnown'
<1>1. FileTyped /\ Shapes /\ Locks /\ CacheHolds /\ call[p] \in FileCall /\ Writes(call[p]) /\ WriteKnown(p)
  BY DEF FileKnown, FileTyped, write2_page, Writes
<1>c. PICK c \in FileCall : c = call[p]
  BY <1>1
<1>2. PICK g, d, page : c = call[p] /\ g = PageOf(c.pos) /\ d = call'[p] /\ page = Filled(p, c, Cached(g))
  BY <1>c
<1>3. PICK x \in Nat \ {0} : x = NumBytes(c) /\ First(c) + x <= PageBytes /\ First(c) \in InPage
                             /\ (c.off <= c.pos => c.pos + x <= End(c)) /\ (c.pos < c.off => c.pos + x <= c.off)
  BY <1>2, TurnBytes DEF write2_page
<1>4. /\ c.pc = "fill" /\ c.pos < End(c) /\ g \notin locked /\ cache' = [cache EXCEPT ![g] = page]
      /\ call' = [call EXCEPT ![p].pos = c.pos + x, ![p].pgs = Append(c.pgs, g)]
      /\ spoiled' = (IF Spoils(c) THEN spoiled \cup {g} ELSE spoiled)
      /\ UNCHANGED <<size, lower, locked, leaked, calls, file, shared, overlapped, failed>>
  BY <1>2, <1>3 DEF write2_page
<1>5. /\ WriteShape(c) /\ c.pos \in Nat /\ c.off \in Nat /\ End(c) \in Nat /\ From(c) \in Nat /\ c.off < End(c)
      /\ Touched(c) \subseteq Pages /\ Len(c.pgs) \in Nat
      /\ \A k \in 1 .. Len(c.pgs) : c.pgs[k] \in Touched(c)
      /\ \A o \in From(c) .. End(c) - 1 : PageOf(o) \in Touched(c)
  BY <1>1, <1>2, WriteTouches, CallFields DEF Shapes
<1>6. g \in Touched(c) /\ g \in Pages
  <2>1. c.pos \in From(c) .. End(c) - 1
    BY <1>4, <1>5 DEF WriteShape
  <2>. QED  BY <2>1, <1>2, <1>5
<1>7. c.pos + x \in Nat /\ c.pos + x <= End(c) /\ From(c) <= c.pos + x
  <2>1. c.pos + x <= End(c)
    BY <1>3, <1>5
  <2>. QED  BY <2>1, <1>5 DEF WriteShape
<1>8. /\ d.pc = "fill" /\ d.off = c.off /\ d.n = c.n /\ d.fsz = c.fsz /\ d.pos = c.pos + x
      /\ d.at = c.at /\ d.pgs = Append(c.pgs, g) /\ d \in FileCall
      /\ call' \in [Procs -> FileCall] /\ \A q \in Procs \ {p} : call'[q] = call[q]
  <2>1. c.pgs \in Seq(Pages) /\ Append(c.pgs, g) \in Seq(Pages)
    BY <1>6 DEF FileCall
  <2>2. d = [c EXCEPT !.pos = c.pos + x, !.pgs = Append(c.pgs, g)]
    BY <1>1, <1>2, <1>4 DEF FileTyped
  <2>3. /\ d.pc = "fill" /\ d.off = c.off /\ d.n = c.n /\ d.fsz = c.fsz /\ d.pos = c.pos + x
        /\ d.at = c.at /\ d.pgs = Append(c.pgs, g) /\ d \in FileCall
    BY <2>1, <2>2, <1>4, <1>7 DEF FileCall
  <2>. QED  BY <2>3, <1>1, <1>2, <1>4 DEF FileTyped
<1>9. /\ Len(d.pgs) = Len(c.pgs) + 1 /\ d.pgs[Len(c.pgs) + 1] = g
      /\ \A k \in 1 .. Len(c.pgs) : d.pgs[k] = c.pgs[k]
      /\ \A k \in 1 .. Len(d.pgs) : k \in 1 .. Len(c.pgs) \/ k = Len(c.pgs) + 1
      /\ Pgs(d, 1, Len(d.pgs)) = Pgs(c, 1, Len(c.pgs)) \cup {g}
  <2>1. c.pgs \in Seq(Pages)
    BY DEF FileCall
  <2>2. /\ Len(d.pgs) = Len(c.pgs) + 1 /\ d.pgs[Len(c.pgs) + 1] = g
        /\ \A k \in 1 .. Len(c.pgs) : d.pgs[k] = c.pgs[k]
        /\ \A k \in 1 .. Len(d.pgs) : k \in 1 .. Len(c.pgs) \/ k = Len(c.pgs) + 1
    BY <2>1, <1>6, <1>8
  <2>3. 1 .. Len(c.pgs) \subseteq 1 .. Len(d.pgs) /\ Len(c.pgs) + 1 \in 1 .. Len(d.pgs)
    BY <2>2, <1>5
  <2>. QED  BY <2>2, <2>3 DEF Pgs
<1>10. From(d) = From(c) /\ End(d) = End(c)
  BY <1>8 DEF From, End
<1>11. Writes(d) /\ ~Reads(d) /\ Touched(d) = Touched(c) /\ Holding(d) = {}
  BY <1>4, <1>8, <1>10 DEF Writes, Reads, Touched, Holding, From
<1>12. WriteShape(d)
  <2>1. d.pos - From(d) <= Len(d.pgs) * PageBytes
    <3>1. x <= PageBytes
      BY <1>3, PageBytesNat DEF InPage
    <3>2. (Len(c.pgs) + 1) * PageBytes = Len(c.pgs) * PageBytes + PageBytes /\ Len(c.pgs) * PageBytes \in Nat
      BY <1>5, PageBytesNat
    <3>3. c.pos - From(c) <= Len(c.pgs) * PageBytes
      BY <1>5 DEF WriteShape
    <3>4. d.pos - From(d) = (c.pos - From(c)) + x
      BY <1>5, <1>8, <1>10
    <3>5. PICK u \in Int, v \in Nat, w \in Int : u = c.pos - From(c) /\ v = Len(c.pgs) * PageBytes /\ w = u + x
      BY <3>2, <1>5
    <3>6. w <= v + PageBytes
      BY <3>1, <3>3, <3>5, PageBytesNat
    <3>. QED  BY <3>2, <3>4, <3>5, <3>6, <1>9
  <2>2. \A k \in 1 .. Len(d.pgs) : d.pgs[k] \in Touched(d)
    BY <1>5, <1>6, <1>9, <1>11
  <2>3. ASSUME NEW o \in From(d) .. d.pos - 1 PROVE PageOf(o) \in Pgs(d, 1, Len(d.pgs))
    <3>0. From(d) = From(c) /\ d.pos = c.pos + x
      BY <1>8, <1>10
    <3>1. o \in From(c) .. c.pos - 1 \/ o \in c.pos .. c.pos + x - 1
      BY <3>0, <1>5
    <3>2. CASE o \in From(c) .. c.pos - 1
      BY <3>2, <1>5, <1>9 DEF WriteShape
    <3>3. CASE o \in c.pos .. c.pos + x - 1
      BY <3>3, <1>2, <1>3, <1>4, <1>9, TurnPage
    <3>. QED  BY <3>1, <3>2, <3>3
  <2>4. d.at = 0 /\ d.n > 0 /\ End(d) <= NPages * PageBytes
    BY <1>4, <1>5, <1>8, <1>10 DEF WriteShape
  <2>5. From(d) <= d.pos /\ d.pos <= End(d)
    BY <1>7, <1>8, <1>10
  <2>6. d.pc # "store"
    BY <1>8
  <2>. QED  BY <2>1, <2>2, <2>3, <2>4, <2>5, <2>6, Zenon DEF WriteShape
<1>13. page \in APage /\ cache'[g] = page /\ \A h \in Pages \ {g} : cache'[h] = cache[h]
  BY <1>1, <1>2, <1>4, <1>6, FilledTyped DEF FileTyped
<1>14. WriteKnown(p)'
  <2>1. ASSUME NEW h \in Pgs(d, 1, Len(d.pgs)) \ shared PROVE Right(p, h, cache[h], 0)'
    <3>1. CASE h = g
      <4>1. Right(p, g, page, 0)'
        BY <3>1, <2>1, <1>2, <1>3, <1>6, <1>8, TurnIsRight
      <4>. QED  BY <4>1, <3>1, <1>13 DEF Right
    <3>2. CASE h # g
      <4>1. h \in Pgs(c, 1, Len(c.pgs)) /\ h \in Pages
        BY <3>2, <2>1, <1>5, <1>9 DEF Pgs
      <4>2. PICK old : old = cache[h] /\ old = cache'[h]
        BY <4>1, <3>2, <1>13
      <4>3. Right(p, h, old, 0)
        BY <4>1, <4>2, <2>1, <1>1, <1>2 DEF WriteKnown
      <4>4. Right(p, h, old, 0)'
        BY <4>1, <4>3, <3>2, <1>2, <1>3, <1>8, TurnLeavesRight
      <4>. QED  BY <4>2, <4>4 DEF Right
    <3>. QED  BY <3>1, <3>2
  <2>. QED  BY <2>1, <1>2, <1>4, <1>8 DEF WriteKnown
<1>15. cache' \in [Pages -> APage \cup {NoPage}]
  BY <1>1, <1>4, <1>13 DEF FileTyped
<1>16. lower' \in [Pages -> APage \cup {NoPage}] /\ locked' \subseteq Pages /\ locked' = locked /\ lower' = lower
  BY <1>1, <1>4 DEF FileTyped
<1>17. UNCHANGED <<size, file, shared>> /\ spoiled \subseteq spoiled' /\ spoiled' \subseteq Pages
  BY <1>1, <1>4, <1>6 DEF FileTyped
<1>18. Writes(call'[p]) /\ Touched(call'[p]) = Touched(call[p]) /\ call'[p].fsz = call[p].fsz /\ ~Reads(call'[p])
       /\ call'[p].pc # "killed" /\ Holding(call'[p]) = {} /\ WriteShape(call'[p])
  BY <1>2, <1>8, <1>11, <1>12
<1>19. \A h \in Pages : cache'[h] = cache[h] \/ (h \in Touched(call[p]) /\ \A q \in Procs \ {p} : h \notin Holding(call[q]))
  BY <1>1, <1>2, <1>4, <1>6, <1>13 DEF Locks
<1>20. \A h \in Pages : (cache'[h] = cache[h] /\ h \notin Halfway(call[p])) \/ h \in Halfway(call'[p])
  <2>1. Halfway(c) = Pgs(c, 1, Len(c.pgs)) /\ Halfway(d) = Halfway(c) \cup {g}
    BY <1>9, <1>11, <1>4 DEF Halfway, Writes
  <2>. QED  BY <2>1, <1>2, <1>13
<1>21. /\ \A h \in Pages : cache[h] # NoPage => cache'[h] # NoPage
       /\ \A h \in Keeping(call'[p]) : cache'[h] # NoPage
  <2>1. cache'[g] # NoPage
    BY <1>13, APageIsPage
  <2>2. \A h \in Keeping(d) : h = g \/ h \in Keeping(c)
    BY <1>4, <1>9, <1>11 DEF Keeping, Writes
  <2>3. \A h \in Keeping(c) : h \in Pages /\ cache[h] # NoPage
    BY <1>1, <1>2, CallTouches DEF Locks
  <2>. QED  BY <2>1, <2>2, <2>3, <1>2, <1>13
<1>. QED  BY <1>1, <1>8, <1>14, <1>15, <1>16, <1>17, <1>18, <1>19, <1>20, <1>21, InnerStep

(* A write that moves on to another page, or to another loop.              *)
LEMMA WriteMovesOn ==
    ASSUME NEW c \in FileCall, NEW d \in FileCall, Writes(c), WriteShape(c), d.pc = "store",
           d.off = c.off, d.n = c.n, d.fsz = c.fsz, d.pos = c.pos, d.pgs = c.pgs,
           c.pos = End(c), Len(d.enc) = nrpgs(c.n), Len(d.enc) <= Len(d.pgs), d.at <= Len(d.enc)
    PROVE  /\ WriteShape(d) /\ Writes(d) /\ ~Reads(d) /\ Touched(d) = Touched(c) /\ Holding(d) = {}
           /\ Keeping(d) = Keeping(c) /\ Halfway(d) = Halfway(c) /\ Halfway(c) = Pgs(c, 1, Len(c.pgs))
<1>1. From(d) = From(c) /\ End(d) = End(c)
  BY DEF From, End
<1>2. Writes(d) /\ ~Reads(d) /\ Touched(d) = Touched(c) /\ Holding(d) = {}
  BY <1>1 DEF Writes, Reads, Touched, Holding, From
<1>3. Keeping(d) = Keeping(c) /\ Halfway(d) = Halfway(c) /\ Halfway(c) = Pgs(c, 1, Len(c.pgs))
  BY <1>2 DEF Keeping, Halfway, Pgs
<1>4. \A k \in 1 .. Len(d.pgs) : d.pgs[k] \in Touched(d)
  BY <1>2 DEF WriteShape
<1>5. \A o \in From(d) .. d.pos - 1 : PageOf(o) \in Pgs(d, 1, Len(d.pgs))
  <2>1. \A o \in From(c) .. c.pos - 1 : PageOf(o) \in Pgs(c, 1, Len(c.pgs))
    BY DEF WriteShape
  <2>2. Pgs(d, 1, Len(d.pgs)) = Pgs(c, 1, Len(c.pgs))
    BY DEF Pgs
  <2>. QED  BY <2>1, <2>2, <1>1
<1>6. /\ d.n > 0 /\ End(d) <= NPages * PageBytes /\ From(d) <= d.pos /\ d.pos <= End(d)
      /\ d.pos - From(d) <= Len(d.pgs) * PageBytes /\ d.pc # "fill"
  BY <1>1 DEF WriteShape
<1>7. WriteShape(d)
  BY <1>1, <1>4, <1>5, <1>6 DEF WriteShape
<1>. QED  BY <1>2, <1>3, <1>7

LEMMA encrypt_pages2Keeps ==
    ASSUME FileKnown, NEW p \in Procs, encrypt_pages2(p)
    PROVE  FileKnown'
<1>1. FileTyped /\ Shapes /\ Locks /\ Writes(call[p]) /\ WriteKnown(p) /\ call[p] \in FileCall
  BY DEF FileKnown, FileTyped, encrypt_pages2, encrypted, Writes
<1>2. PICK c \in FileCall : c = call[p]
  BY <1>1
<1>a. PICK m \in Nat : m = nrpgs(c.n) /\ m <= Len(c.pgs)
  <2>1. c.n \in Nat /\ Len(c.pgs) \in Nat /\ From(c) \in Nat /\ From(c) <= c.off /\ c.off \in Nat
    BY <1>1, <1>2, WriteTouches, CallFields DEF Shapes
  <2>2. c.pos = c.off + c.n /\ c.pos - From(c) <= Len(c.pgs) * PageBytes
    BY <1>1, <1>2 DEF encrypt_pages2, encrypted, End, Shapes, WriteShape
  <2>3. Len(c.pgs) * PageBytes \in Nat
    BY <2>1, PageBytesNat
  <2>4. c.n <= Len(c.pgs) * PageBytes
    BY <2>1, <2>2, <2>3
  <2>. QED  BY <2>1, <2>4, CountWithin
<1>3. PICK d, sealed : d = call'[p] /\ sealed = [k \in 1 .. m |-> Layer(cache[c.pgs[k]], 1)]
  OBVIOUS
<1>4. /\ c.pc = "fill" /\ c.pos = End(c) /\ call' = [call EXCEPT ![p].pc = "store", ![p].enc = sealed]
      /\ UNCHANGED <<size, cache, lower, locked, leaked, calls, file, shared, spoiled, overlapped, failed>>
  BY <1>2, <1>3, <1>a DEF encrypt_pages2, encrypted, history
<1>5. \A k \in 1 .. m : k \in 1 .. Len(c.pgs) /\ c.pgs[k] \in Pgs(c, 1, Len(c.pgs)) /\ c.pgs[k] \in Pages /\ cache[c.pgs[k]] \in APage
  <2>1. \A k \in 1 .. m : k \in 1 .. Len(c.pgs)
    BY <1>a, CallFields
  <2>2. \A k \in 1 .. m : c.pgs[k] \in Pgs(c, 1, Len(c.pgs))
    BY <2>1 DEF Pgs
  <2>3. Pgs(c, 1, Len(c.pgs)) = Keeping(c) /\ Keeping(c) \subseteq Pages
    BY <1>1, <1>2, CallTouches DEF Keeping
  <2>. QED  BY <2>1, <2>2, <2>3, <1>1, <1>2 DEF Locks, FileTyped
<1>7. sealed \in Seq(APage) /\ Len(sealed) = m /\ \A k \in 1 .. m : sealed[k] = Layer(cache[c.pgs[k]], 1)
  <2>1. sealed \in [1 .. m -> APage]
    BY <1>3, <1>5, LayerTyped
  <2>. QED  BY <2>1, <1>3, <1>a
<1>8. /\ d.pc = "store" /\ d.off = c.off /\ d.n = c.n /\ d.fsz = c.fsz /\ d.pos = c.pos
      /\ d.at = c.at /\ d.pgs = c.pgs /\ d.enc = sealed /\ d \in FileCall
      /\ call' \in [Procs -> FileCall] /\ \A q \in Procs \ {p} : call'[q] = call[q]
  <2>1. d = [c EXCEPT !.pc = "store", !.enc = sealed]
    BY <1>1, <1>2, <1>3, <1>4 DEF FileTyped
  <2>2. /\ d.pc = "store" /\ d.off = c.off /\ d.n = c.n /\ d.fsz = c.fsz /\ d.pos = c.pos
        /\ d.at = c.at /\ d.pgs = c.pgs /\ d.enc = sealed /\ d \in FileCall
    BY <2>1, <1>7 DEF FileCall
  <2>. QED  BY <2>2, <1>1, <1>3, <1>4 DEF FileTyped
<1>9. d.at = 0 /\ Len(d.enc) = nrpgs(c.n) /\ Len(d.enc) <= Len(d.pgs) /\ d.at <= Len(d.enc)
  BY <1>1, <1>2, <1>4, <1>7, <1>8, <1>a DEF Shapes, WriteShape
<1>10. /\ WriteShape(d) /\ Writes(d) /\ ~Reads(d) /\ Touched(d) = Touched(c) /\ Holding(d) = {}
       /\ Keeping(d) = Keeping(c) /\ Halfway(d) = Halfway(c)
  <2>1. WriteShape(c) /\ Writes(c)
    BY <1>1, <1>2 DEF Shapes
  <2>. QED  BY <2>1, <1>4, <1>8, <1>9, WriteMovesOn
<1>11. WriteKnown(p)'
  <2>1. ASSUME NEW g, NEW page, NEW y, Right(p, g, page, y) PROVE Right(p, g, page, y)'
    BY <2>1, <1>2, <1>3, <1>4, <1>8, RightApart DEF SameFile
  <2>2. ASSUME NEW g \in Pgs(d, 1, Len(d.pgs)) \ shared PROVE Right(p, g, cache[g], 0)'
    <3>1. PICK page : page = cache[g] /\ page = cache'[g]
      BY <1>4
    <3>2. g \in Pgs(c, 1, Len(c.pgs)) \ shared
      BY <2>2, <1>8 DEF Pgs
    <3>3. Right(p, g, page, 0)
      BY <3>1, <3>2, <1>1, <1>2 DEF WriteKnown
    <3>4. Right(p, g, page, 0)'
      BY <3>3, <2>1
    <3>. QED  BY <3>1, <3>4 DEF Right
  <2>3. ASSUME NEW k \in 1 .. m, d.pgs[k] \notin shared PROVE Right(p, d.pgs[k], d.enc[k], 1)'
    <3>1. PICK g \in Pages : g = c.pgs[k] /\ g = d.pgs[k] /\ g \in Pgs(c, 1, Len(c.pgs)) \ shared /\ cache[g] \in APage
      BY <2>3, <1>5, <1>8
    <3>2. Right(p, g, cache[g], 0)
      BY <3>1, <1>1, <1>2 DEF WriteKnown
    <3>3. Right(p, g, Layer(cache[g], 1), 1)
      BY <3>1, <3>2, RightEncrypted
    <3>4. d.enc[k] = Layer(cache[g], 1)
      BY <3>1, <1>7, <1>8
    <3>5. Right(p, g, d.enc[k], 1)
      BY <3>3, <3>4
    <3>. QED  BY <3>1, <3>5, <2>1
  <2>4. \A k \in 1 .. d.at : FALSE
    BY <1>9
  <2>5. call'[p] = d /\ shared' = shared /\ Len(d.enc) = m
    BY <1>3, <1>4, <1>7, <1>8
  <2>6. \A g \in Pgs(d, 1, Len(d.pgs)) \ shared' : Right(p, g, cache[g], 0)'
    BY <2>2, <2>5
  <2>7. \A k \in 1 .. Len(d.enc) : d.pgs[k] \notin shared' => Right(p, d.pgs[k], d.enc[k], 1)'
    BY <2>3, <2>5
  <2>. QED  BY <2>4, <2>5, <2>6, <2>7 DEF WriteKnown
<1>12. Writes(call'[p]) /\ Touched(call'[p]) = Touched(call[p]) /\ call'[p].fsz = call[p].fsz /\ ~Reads(call'[p])
       /\ call'[p].pc # "killed" /\ Holding(call'[p]) = {} /\ WriteShape(call'[p]) /\ Keeping(call'[p]) = Keeping(call[p])
       /\ Halfway(call'[p]) = Halfway(call[p])
  BY <1>2, <1>3, <1>8, <1>10
<1>13. UNCHANGED <<size, file, shared, spoiled>> /\ lower' = lower /\ cache' = cache /\ locked' = locked
  BY <1>4
<1>14. cache' \in [Pages -> APage \cup {NoPage}] /\ lower' \in [Pages -> APage \cup {NoPage}] /\ locked' \subseteq Pages
       /\ spoiled' \subseteq Pages /\ \A g \in Keeping(call'[p]) : cache'[g] # NoPage
  BY <1>1, <1>12, <1>13 DEF FileTyped, Locks
<1>. QED  BY <1>1, <1>8, <1>11, <1>12, <1>13, <1>14, InnerStep

LEMMA encrypt_pages2_storeKeeps ==
    ASSUME FileKnown, NEW p \in Procs, encrypt_pages2_store(p)
    PROVE  FileKnown'
<1>1. FileTyped /\ Shapes /\ Locks /\ Writes(call[p]) /\ WriteKnown(p) /\ call[p] \in FileCall
  BY DEF FileKnown, FileTyped, encrypt_pages2_store, Writes
<1>2. PICK c \in FileCall : c = call[p]
  BY <1>1
<1>3. PICK d, j : d = call'[p] /\ j = c.at + 1
  OBVIOUS
<1>4. /\ c.pc = "store" /\ c.at < Len(c.enc) /\ call' = [call EXCEPT ![p].at = j]
      /\ lower' = [lower EXCEPT ![c.pgs[j]] = c.enc[j]]
      /\ UNCHANGED <<size, cache, locked, leaked, calls, file, shared, spoiled, overlapped, failed>>
  BY <1>2, <1>3 DEF encrypt_pages2_store, history
<1>5. /\ WriteShape(c) /\ Touched(c) \subseteq Pages /\ \A k \in 1 .. Len(c.pgs) : c.pgs[k] \in Touched(c)
      /\ c.at \in Nat /\ Len(c.enc) \in Nat /\ Len(c.pgs) \in Nat /\ Len(c.enc) <= Len(c.pgs)
      /\ j \in 1 .. Len(c.enc) /\ j \in 1 .. Len(c.pgs)
  <2>1. WriteShape(c) /\ Touched(c) \subseteq Pages /\ \A k \in 1 .. Len(c.pgs) : c.pgs[k] \in Touched(c)
    BY <1>1, <1>2, WriteTouches DEF Shapes
  <2>2. c.at \in Nat /\ Len(c.enc) \in Nat /\ Len(c.pgs) \in Nat
    BY CallFields DEF FileCall
  <2>3. Len(c.enc) <= Len(c.pgs)
    BY <2>1, <1>4 DEF WriteShape
  <2>. QED  BY <2>1, <2>2, <2>3, <1>3, <1>4
<1>6. PICK g, page : g = c.pgs[j] /\ page = c.enc[j] /\ page \in APage /\ g \in Pages /\ g \in Touched(c)
  <2>1. c.enc \in Seq(APage)
    BY DEF FileCall
  <2>. QED  BY <2>1, <1>5
<1>7. /\ d.pc = "store" /\ d.off = c.off /\ d.n = c.n /\ d.fsz = c.fsz /\ d.pos = c.pos
      /\ d.at = j /\ d.pgs = c.pgs /\ d.enc = c.enc /\ d \in FileCall
      /\ call' \in [Procs -> FileCall] /\ \A q \in Procs \ {p} : call'[q] = call[q]
  <2>1. d = [c EXCEPT !.at = j] /\ j \in Nat
    BY <1>1, <1>2, <1>3, <1>4, <1>5 DEF FileTyped
  <2>2. /\ d.pc = "store" /\ d.off = c.off /\ d.n = c.n /\ d.fsz = c.fsz /\ d.pos = c.pos
        /\ d.at = j /\ d.pgs = c.pgs /\ d.enc = c.enc /\ d \in FileCall
    BY <2>1, <1>4 DEF FileCall
  <2>. QED  BY <2>2, <1>1, <1>3, <1>4 DEF FileTyped
<1>8. /\ WriteShape(d) /\ Writes(d) /\ ~Reads(d) /\ Touched(d) = Touched(c) /\ Holding(d) = {}
      /\ Keeping(d) = Keeping(c) /\ Halfway(d) = Halfway(c)
  <2>1. Writes(c) /\ c.pos = End(c) /\ Len(d.enc) = nrpgs(c.n)
    BY <1>1, <1>2, <1>4, <1>5, <1>7 DEF WriteShape
  <2>2. d.at <= Len(d.enc) /\ Len(d.enc) <= Len(d.pgs)
    BY <1>5, <1>7
  <2>. QED  BY <2>1, <2>2, <1>5, <1>7, WriteMovesOn
<1>9. lower'[g] = page /\ \A h \in Pages : h # g => lower'[h] = lower[h]
  BY <1>1, <1>4, <1>6 DEF FileTyped
<1>11. WriteKnown(p)'
  <2>1. ASSUME NEW h, NEW old, NEW y, Right(p, h, old, y) PROVE Right(p, h, old, y)'
    BY <2>1, <1>2, <1>3, <1>4, <1>7, RightApart DEF SameFile
  <2>2. ASSUME NEW h \in Pgs(d, 1, Len(d.pgs)) \ shared PROVE Right(p, h, cache[h], 0)'
    <3>1. PICK old : old = cache[h] /\ old = cache'[h]
      BY <1>4
    <3>2. h \in Pgs(c, 1, Len(c.pgs)) \ shared
      BY <2>2, <1>7 DEF Pgs
    <3>3. Right(p, h, old, 0)
      BY <3>1, <3>2, <1>1, <1>2 DEF WriteKnown
    <3>4. Right(p, h, old, 0)'
      BY <3>3, <2>1
    <3>. QED  BY <3>1, <3>4 DEF Right
  <2>3. ASSUME NEW k \in 1 .. Len(c.enc), c.pgs[k] \notin shared PROVE Right(p, c.pgs[k], c.enc[k], 1) /\ Right(p, c.pgs[k], c.enc[k], 1)'
    <3>1. Right(p, c.pgs[k], c.enc[k], 1)
      BY <2>3, <1>1, <1>2, <1>4 DEF WriteKnown
    <3>. QED  BY <3>1, <2>1
  <2>4. ASSUME NEW k \in 1 .. j, c.pgs[k] \notin shared PROVE Right(p, c.pgs[k], lower[c.pgs[k]], 1)'
    <3>0. PICK h, old : h = c.pgs[k] /\ old = lower'[h]
      OBVIOUS
    <3>1. CASE h = g
      <4>1. Right(p, g, page, 1)'
        BY <3>0, <3>1, <2>3, <2>4, <1>5, <1>6
      <4>. QED  BY <4>1, <3>0, <3>1, <1>9 DEF Right
    <3>2. CASE h # g
      <4>1. k \in 1 .. c.at /\ k \in 1 .. Len(c.pgs)
        BY <3>0, <3>2, <1>3, <1>5, <1>6
      <4>2. h \in Pages /\ old = lower[h]
        BY <4>1, <3>0, <3>2, <1>5, <1>9
      <4>3. Right(p, h, old, 1)
        BY <4>1, <4>2, <3>0, <2>4, <1>1, <1>2, <1>4 DEF WriteKnown
      <4>4. Right(p, h, old, 1)'
        BY <4>3, <2>1
      <4>. QED  BY <4>4, <3>0 DEF Right
    <3>. QED  BY <3>1, <3>2
  <2>5. /\ call'[p].pc = "store" /\ call'[p].pgs = c.pgs /\ call'[p].enc = c.enc /\ call'[p].at = j
        /\ shared' = shared /\ d = call'[p]
    BY <1>3, <1>4, <1>7
  <2>. QED  BY <2>2, <2>3, <2>4, <2>5 DEF WriteKnown
<1>12. Writes(call'[p]) /\ Touched(call'[p]) = Touched(call[p]) /\ call'[p].fsz = call[p].fsz /\ ~Reads(call'[p])
       /\ call'[p].pc # "killed" /\ Holding(call'[p]) = {} /\ WriteShape(call'[p]) /\ Keeping(call'[p]) = Keeping(call[p])
       /\ Halfway(call'[p]) = Halfway(call[p])
  BY <1>2, <1>3, <1>7, <1>8
<1>13. UNCHANGED <<size, file, shared, spoiled>> /\ cache' = cache /\ locked' = locked
  BY <1>4
<1>14. cache' \in [Pages -> APage \cup {NoPage}] /\ lower' \in [Pages -> APage \cup {NoPage}] /\ locked' \subseteq Pages
       /\ spoiled' \subseteq Pages /\ \A h \in Keeping(call'[p]) : cache'[h] # NoPage
  BY <1>1, <1>4, <1>6, <1>12, <1>13 DEF FileTyped, Locks
<1>15. \A h \in Pages : lower'[h] = lower[h] \/ (Writes(call[p]) /\ h \in Touched(call[p]))
  BY <1>1, <1>2, <1>6, <1>9
<1>. QED  BY <1>1, <1>7, <1>11, <1>12, <1>13, <1>14, <1>15, InnerStep

LEMMA IdleCall == Idle \in FileCall /\ Touched(Idle) = {} /\ Holding(Idle) = {} /\ Keeping(Idle) = {} /\ Halfway(Idle) = {}
                  /\ ~Writes(Idle) /\ ~Reads(Idle) /\ Idle.fsz = 0 /\ Idle.pc = "idle"
<1>1. 0 \in Nat /\ << >> \in Seq(Pages) /\ << >> \in Seq(APage) /\ << >> \in Seq(AByte)
  OBVIOUS
<1>2. Idle \in FileCall
  BY <1>1 DEF Idle, FileCall
<1>. QED  BY <1>2 DEF Idle, Touched, Holding, Keeping, Halfway, Writes, Reads

(* A write that is done has filled all the pages it works on.              *)
LEMMA AllFilled ==
    ASSUME NEW c \in FileCall, Writes(c), WriteShape(c), c.pos = End(c)
    PROVE  Touched(c) = Pgs(c, 1, Len(c.pgs))
<1>1. /\ From(c) \in Nat /\ End(c) \in Nat /\ From(c) < End(c)
      /\ Touched(c) = PageOf(From(c)) .. PageOf(End(c) - 1) /\ \A k \in 1 .. Len(c.pgs) : c.pgs[k] \in Touched(c)
  <2>1. From(c) \in Nat /\ From(c) <= c.off /\ c.off < End(c) /\ End(c) \in Nat /\ c.off \in Nat
    BY WriteTouches, CallFields
  <2>. QED  BY <2>1, WriteTouches
<1>2. PICK u \in Nat, z \in Nat : u = From(c) /\ z = End(c) - 1 /\ u <= z
  BY <1>1
<1>3. PageOf(u) \in Nat /\ PageOf(z) \in Nat
  BY PlaceOf
<1>4. ASSUME NEW g \in Touched(c) PROVE \E o \in u .. z : PageOf(o) = g
  <2>1. g \in Nat /\ PageOf(u) <= g /\ g <= PageOf(z)
    BY <1>1, <1>2, <1>3
  <2>2. CASE g = PageOf(u)
    BY <2>2, <1>2
  <2>3. CASE g # PageOf(u)
    <3>1. 0 \in InPage /\ At(g, 0) \in Nat /\ PageOf(At(g, 0)) = g
      BY <2>1, PagePlace, PageBytesNat DEF InPage
    <3>2. u <= At(g, 0)
      <4>1. ~(At(g, 0) <= u)
        BY <2>1, <2>3, <3>1, <1>3, PageOrder
      <4>. QED  BY <4>1, <3>1
    <3>3. At(g, 0) <= z
      <4>1. PICK h \in Nat, b \in InPage : h = PageOf(z) /\ At(h, b) = z /\ g <= h
        BY <2>1, PlaceOf
      <4>2. g * PageBytes <= h * PageBytes /\ g * PageBytes \in Nat /\ h * PageBytes \in Nat /\ b \in Nat
        BY <2>1, <4>1, Monotone, PageBytesNat DEF InPage
      <4>. QED  BY <4>1, <4>2 DEF At
    <3>. QED  BY <3>1, <3>2, <3>3
  <2>. QED  BY <2>2, <2>3
<1>5. \A o \in u .. z : PageOf(o) \in Pgs(c, 1, Len(c.pgs))
  BY <1>2 DEF WriteShape
<1>. QED  BY <1>1, <1>4, <1>5 DEF Pgs

(* Who wrote the bytes of the file last, once a write is done.             *)
Finished(p, c) == \A x \in Bytes : file'[x] = IF x \in c.off .. End(c) - 1 THEN p
                                              ELSE IF x \in c.fsz .. c.off - 1 THEN "zero"
                                              ELSE file[x]

LEMMA FileOfByte ==
    ASSUME NEW p \in Procs, NEW c \in FileCall, c = call[p], Writes(c), WriteShape(c), Finished(p, c), NEW x \in Bytes
    PROVE  /\ x \in From(c) .. End(c) - 1 => Wrote(x)' = Puts(p, x)
           /\ x \notin From(c) .. End(c) - 1 => file'[x] = file[x] /\ Around(c, x)
<1>1. /\ From(c) \in Nat /\ From(c) <= c.off /\ (From(c) = c.off \/ From(c) = c.fsz) /\ End(c) \in Nat /\ c.off < End(c)
      /\ c.off \in Nat /\ c.fsz \in Nat /\ From(c) <= c.fsz /\ x \in Nat
  BY WriteTouches, CallFields, PageBytesNat DEF Bytes
<1>2. file'[x] = IF x \in c.off .. End(c) - 1 THEN p ELSE IF x \in c.fsz .. c.off - 1 THEN "zero" ELSE file[x]
  BY DEF Finished
<1>3. ASSUME x \in From(c) .. End(c) - 1 PROVE Wrote(x)' = Puts(p, x)
  <2>1. CASE x < c.off
    <3>1. x \in c.fsz .. c.off - 1 /\ x \notin c.off .. End(c) - 1
      BY <2>1, <1>1, <1>3
    <3>. QED  BY <3>1, <2>1, <1>2 DEF Wrote, Puts
  <2>2. CASE ~(x < c.off)
    <3>1. file'[x] = p /\ p # "zero"
      BY <2>2, <1>1, <1>2, <1>3, FileAssumption
    <3>. QED  BY <3>1, <2>2 DEF Wrote, Puts
  <2>. QED  BY <2>1, <2>2
<1>4. ASSUME x \notin From(c) .. End(c) - 1 PROVE file'[x] = file[x] /\ Around(c, x)
  <2>1. x \notin c.off .. End(c) - 1 /\ x \notin c.fsz .. c.off - 1 /\ (x < From(c) \/ x >= End(c))
    BY <1>1, <1>4
  <2>. QED  BY <2>1, <1>2 DEF Around
<1>. QED  BY <1>3, <1>4

(* A page that was right has the bytes of the file.                        *)
HasFile(g, page, m) == \A b \in InPage : file[At(g, b)] # "none" => page[b] = [Wrote(At(g, b)) EXCEPT !.layers = m]

LEMMA RightIsDone ==
    ASSUME NEW p \in Procs, NEW c \in FileCall, c = call[p], Writes(c), WriteShape(c), c.pos = End(c), Finished(p, c),
           NEW g \in Pages, NEW page, NEW m, Right(p, g, page, m),
           g \in spoiled => From(c) <= At(g, 0) /\ At(g, PageBytes) <= End(c)
    PROVE  HasFile(g, page, m)'
<1>. SUFFICES ASSUME NEW b \in InPage, file'[At(g, b)] # "none"
              PROVE  page[b] = [Wrote(At(g, b))' EXCEPT !.layers = m]
  BY DEF HasFile
<1>1. PICK x \in Bytes : x = At(g, b)
  BY InBytes
<1>2. CASE x \in From(c) .. End(c) - 1
  <2>1. page[b] = [Puts(p, x) EXCEPT !.layers = m]
    BY <1>1, <1>2 DEF Right
  <2>. QED  BY <2>1, <1>1, <1>2, FileOfByte
<1>3. CASE x \notin From(c) .. End(c) - 1
  <2>1. file'[x] = file[x] /\ Around(c, x)
    BY <1>3, FileOfByte
  <2>2. g \notin spoiled
    <3>1. SUFFICES ASSUME g \in spoiled PROVE FALSE
      OBVIOUS
    <3>2. From(c) \in Nat /\ End(c) \in Nat /\ g * PageBytes \in Nat /\ b \in Nat /\ b < PageBytes /\ PageBytes \in Nat
      BY WriteTouches, PageBytesNat DEF Pages, InPage
    <3>3. PICK s \in Nat : s = g * PageBytes /\ x = s + b /\ From(c) <= s + 0 /\ s + PageBytes <= End(c)
      BY <3>1, <3>2, <1>1 DEF At
    <3>. QED  BY <3>2, <3>3, <1>3
  <2>3. page[b] = [Wrote(x) EXCEPT !.layers = m]
    BY <2>1, <2>2, <1>1 DEF Right
  <2>4. Wrote(x)' = Wrote(x)
    BY <2>1 DEF Wrote
  <2>. QED  BY <2>3, <2>4, <1>1
<1>. QED  BY <1>2, <1>3

LEMMA write2_endKeeps ==
    ASSUME FileKnown, NEW p \in Procs, write2_end(p)
    PROVE  FileKnown'
<1>1. FileTyped /\ Shapes /\ Notes /\ Written /\ Stored /\ CacheHolds /\ Locks /\ Writes(call[p]) /\ WriteKnown(p)
      /\ call[p] \in FileCall
  BY DEF FileKnown, FileTyped, write2_end, Writes
<1>c. PICK c \in FileCall : c = call[p]
  BY <1>1
<1>2. /\ WriteShape(c) /\ Writes(c) /\ c.pc = "store" /\ c.pos = End(c) /\ Len(c.enc) = nrpgs(c.n) /\ c.at = Len(c.enc)
      /\ Len(c.enc) <= Len(c.pgs) /\ c.at \in Nat /\ Len(c.pgs) \in Nat
  BY <1>1, <1>c, CallFields DEF Shapes, WriteShape, write2_end
<1>m. PICK m \in Nat : m = nrpgs(c.n) /\ m = c.at /\ m <= Len(c.pgs)
  BY <1>2
<1>3. PICK filled, first, more :
        /\ m = nrpgs(c.n) /\ m = c.at /\ m <= Len(c.pgs)
        /\ filled = Pgs(c, 1, Len(c.pgs)) /\ first = Pgs(c, 1, m) /\ more = Pgs(c, m + 1, Len(c.pgs))
  BY <1>m
<1>4. /\ spoiled' = (spoiled \ Whole(c)) \cup (more \ first)
      /\ size' = NewSize(c) /\ call' = [call EXCEPT ![p] = Idle]
      /\ file' = [x \in Bytes |-> IF x \in c.off .. End(c) - 1 THEN p
                                    ELSE IF x \in c.fsz .. c.off - 1 THEN "zero"
                                    ELSE file[x]]
      /\ UNCHANGED <<cache, lower, locked, calls, shared, overlapped, failed>>
  <2>1. nr_pages(c.n) = m
    BY <1>3, CallFields, CountsAgree
  <2>2. Beyond(c) = more \ first
    BY <2>1, <1>3 DEF Beyond
  <2>. QED  BY <2>2, <1>c DEF write2_end
<1>5. Finished(p, c)
  BY <1>4 DEF Finished
<1>6. /\ From(c) \in Nat /\ From(c) <= c.off /\ From(c) <= c.fsz /\ End(c) \in Nat /\ c.off < End(c) /\ c.off \in Nat /\ c.fsz \in Nat
      /\ Touched(c) \subseteq Pages /\ Touched(c) = filled /\ filled = first \cup more
      /\ End(c) <= NPages * PageBytes /\ NPages * PageBytes \in Nat
  <2>1. Touched(c) = filled
    BY <1>2, <1>3, AllFilled
  <2>2. \A k \in 1 .. Len(c.pgs) : k \in 1 .. m \/ k \in m + 1 .. Len(c.pgs)
    BY <1>2, <1>3
  <2>3. 1 .. m \subseteq 1 .. Len(c.pgs) /\ m + 1 .. Len(c.pgs) \subseteq 1 .. Len(c.pgs)
    BY <1>2, <1>3
  <2>4. filled = first \cup more
    BY <2>2, <2>3, <1>3 DEF Pgs
  <2>5. /\ From(c) \in Nat /\ From(c) <= c.off /\ From(c) <= c.fsz /\ End(c) \in Nat /\ c.off < End(c)
        /\ Touched(c) \subseteq Pages
    BY <1>2, WriteTouches
  <2>6. c.off \in Nat /\ c.fsz \in Nat
    BY CallFields
  <2>7. End(c) <= NPages * PageBytes /\ NPages * PageBytes \in Nat
    BY <1>2, PageBytesNat DEF WriteShape
  <2>. QED  BY <2>1, <2>4, <2>5, <2>6, <2>7
<1>7. Whole(c) \subseteq first /\ \A g \in Whole(c) : From(c) <= At(g, 0) /\ At(g, PageBytes) <= End(c)
  BY <1>3 DEF Whole, From
<1>8. /\ call'[p] = Idle /\ \A q \in Procs \ {p} : call'[q] = call[q]
      /\ call' \in [Procs -> FileCall]
  BY <1>1, <1>4, IdleCall DEF FileTyped
<1>9. ASSUME NEW g \in Pages \ Touched(c)
      PROVE  SameFile(g) /\ (g \in spoiled <=> g \in spoiled')
  <2>1. ASSUME NEW b \in InPage PROVE file'[At(g, b)] = file[At(g, b)]
    <3>1. At(g, b) \notin From(c) .. End(c) - 1 /\ At(g, b) \in Bytes
      BY <1>2, NotInRange, InBytes
    <3>. QED  BY <3>1, <1>2, <1>5, <1>c, FileOfByte
  <2>2. g \notin Whole(c) /\ g \notin more
    BY <1>6, <1>7
  <2>. QED  BY <2>1, <2>2, <1>4 DEF SameFile
<1>10. \A q \in Procs \ {p} : (Writes(call[q]) => WriteKnown(q))' /\ (Reads(call[q]) => ReadKnown(q))'
  <2>1. \A g \in Pages : (lower'[g] = lower[g] /\ SameFile(g) /\ (g \in spoiled => g \in spoiled'))
                            \/ (Writes(call[p]) /\ g \in Touched(call[p]))
    BY <1>1, <1>c, <1>4, <1>9
  <2>2. shared \subseteq shared' /\ \A g \in Pages : cache'[g] = cache[g]
    BY <1>4
  <2>. QED  BY <2>1, <2>2, <1>8, OthersKnown
<1>11. FileTyped'
  <2>1. size' \in 0 .. NPages * PageBytes
    BY <1>1, <1>4, <1>6 DEF NewSize, FileTyped
  <2>2. file' \in [Bytes -> Procs \cup {"zero", "none"}]
    BY <1>1, <1>4 DEF FileTyped
  <2>3. spoiled' \subseteq Pages
    BY <1>1, <1>4, <1>6 DEF FileTyped
  <2>. QED  BY <2>1, <2>2, <2>3, <1>1, <1>4, <1>8 DEF FileTyped
<1>12. Shapes'
  <2>1. 0 \in 0 .. NPages * PageBytes
    BY <1>6
  <2>. QED  BY <2>1, <1>1, <1>8, IdleCall DEF Shapes
<1>13. Notes'
  BY <1>1, <1>4, <1>8, IdleCall DEF Notes
<1>14. Written'
  <2>1. p # "none"
    BY FileAssumption
  <2>2. \A x \in Bytes : file[x] # "none" => file'[x] # "none"
    BY <2>1, <1>4
  <2>3. ASSUME NEW e \in 0 .. NPages * PageBytes, NEW x \in 0 .. e - 1 PROVE x \in Bytes
    BY <1>6 DEF Bytes
  <2>4. ASSUME NEW q \in Procs, NEW x \in 0 .. call'[q].fsz - 1 PROVE file'[x] # "none"
    <3>1. CASE q = p
      BY <3>1, <1>8, <2>4, IdleCall
    <3>2. CASE q # p
      <4>1. call'[q] = call[q] /\ file[x] # "none"
        BY <3>2, <2>4, <1>1, <1>8 DEF Written
      <4>2. x \in Bytes
        BY <4>1, <2>3, <2>4, <1>1 DEF Shapes
      <4>. QED  BY <4>1, <4>2, <2>2
    <3>. QED  BY <3>1, <3>2
  <2>t. PICK t \in Nat : t = NPages * PageBytes /\ Bytes = 0 .. t - 1
    BY <1>6 DEF Bytes
  <2>s. PICK s \in Nat : s = size' /\ s <= t
    BY <2>t, <1>11 DEF FileTyped
  <2>5. ASSUME NEW x \in 0 .. s - 1 PROVE file'[x] # "none"
    <3>0. x \in Bytes /\ x \in Nat /\ x <= s - 1
      <4>1. x \in Nat /\ x <= s - 1
        OBVIOUS
      <4>2. s <= t
        BY <2>s
      <4>3. x \in 0 .. t - 1
        BY <4>1, <4>2
      <4>. QED  BY <4>1, <4>3, <2>t
    <3>1. CASE End(c) > c.fsz
      <4>1. x <= End(c) - 1
        BY <3>0, <3>1, <2>s, <1>4, <1>6 DEF NewSize
      <4>3. x \in 0 .. c.fsz - 1 \/ x \in c.fsz .. c.off - 1 \/ x \in c.off .. End(c) - 1
        BY <4>1, <3>0, <1>6
      <4>4. CASE x \in 0 .. c.fsz - 1
        BY <3>0, <4>4, <2>2, <1>1, <1>c DEF Written
      <4>5. CASE x \in c.off .. End(c) - 1
        BY <3>0, <4>5, <2>1, <1>4
      <4>6. CASE x \in c.fsz .. c.off - 1
        BY <3>0, <4>6, <2>1, <1>4
      <4>. QED  BY <4>3, <4>4, <4>5, <4>6
    <3>2. CASE ~(End(c) > c.fsz)
      <4>1. size' = size
        BY <3>2, <1>4 DEF NewSize
      <4>. QED  BY <4>1, <3>0, <2>2, <2>s, <1>1 DEF Written
    <3>. QED  BY <3>1, <3>2
  <2>. QED  BY <2>4, <2>5, <2>s DEF Written
<1>15. ASSUME NEW g \in filled, g \notin shared, g \notin spoiled'
       PROVE  /\ g \in first /\ g \in Pages
              /\ \A page, y : Right(p, g, page, y) => HasFile(g, page, y)'
  <2>1. g \in first /\ g \in Pages
    BY <1>4, <1>6, <1>15
  <2>2. g \in spoiled => From(c) <= At(g, 0) /\ At(g, PageBytes) <= End(c)
    BY <1>4, <1>7, <1>15
  <2>3. ASSUME NEW page, NEW y, Right(p, g, page, y)
        PROVE  HasFile(g, page, y)'
    BY <2>1, <2>2, <2>3, <1>2, <1>5, <1>c, RightIsDone
  <2>. QED  BY <2>1, <2>3
<1>16. Stored'
  <2>. SUFFICES ASSUME NEW g \in Pages, g \notin shared, g \notin spoiled', ~Writing(g)'
                PROVE  StoredPage(g)'
    BY <1>4 DEF Stored
  <2>1. CASE g \notin Touched(c)
    <3>1. ~Writing(g)
      BY <2>1, <1>c, <1>8 DEF Writing
    <3>2. StoredPage(g) /\ SameFile(g) /\ lower'[g] = lower[g]
      BY <3>1, <2>1, <1>1, <1>4, <1>9 DEF Stored
    <3>. QED  BY <3>2 DEF StoredPage, SameFile, Wrote
  <2>2. CASE g \in Touched(c)
    <3>1. g \in filled /\ g \in first
      BY <2>2, <1>6, <1>15
    <3>2. PICK k \in 1 .. m : g = c.pgs[k]
      BY <3>1, <1>3 DEF Pgs
    <3>3. PICK page : page = lower[g] /\ page = lower'[g]
      BY <1>4
    <3>4. Right(p, g, page, 1)
      BY <3>2, <3>3, <1>1, <1>2, <1>3, <1>c DEF WriteKnown
    <3>5. page # NoPage
      BY <3>4 DEF Right
    <3>6. HasFile(g, page, 1)'
      BY <3>1, <3>4, <1>15
    <3>. QED  BY <3>3, <3>5, <3>6 DEF StoredPage, HasFile
  <2>. QED  BY <2>1, <2>2
<1>17. CacheHolds'
  <2>1. ASSUME NEW g \in Pages \ (shared' \cup spoiled')
        PROVE  \/ SameFile(g) /\ cache'[g] = cache[g] /\ g \notin Halfway(call[p]) /\ g \notin spoiled
               \/ Holds(g, 0)'
    <3>0. Halfway(call[p]) = filled
      BY <1>c, <1>2, <1>3 DEF Halfway
    <3>1. CASE g \notin Touched(c)
      BY <3>0, <3>1, <2>1, <1>4, <1>6, <1>9
    <3>2. CASE g \in Touched(c)
      <4>1. PICK page : page = cache[g] /\ page = cache'[g]
        BY <1>4
      <4>2. g \in filled \ shared
        BY <3>2, <2>1, <1>4, <1>6
      <4>3. Right(p, g, page, 0)
        BY <4>1, <4>2, <1>1, <1>3, <1>c DEF WriteKnown
      <4>4. HasFile(g, page, 0)'
        BY <4>2, <4>3, <2>1, <1>4, <1>15
      <4>. QED  BY <4>1, <4>4 DEF Holds, HasFile
    <3>. QED  BY <3>1, <3>2
  <2>2. shared \subseteq shared' /\ \A q \in Procs \ {p} : Halfway(call'[q]) = Halfway(call[q])
    BY <1>4, <1>8
  <2>. QED  BY <2>1, <2>2, <1>1, CacheApart
<1>18. Locks'
  <2>1. \A q \in Procs : /\ Holding(call'[q]) \subseteq Holding(call[q])
                         /\ Keeping(call'[q]) \subseteq Keeping(call[q])
    BY <1>8, IdleCall
  <2>. QED  BY <2>1, <1>1, <1>4 DEF Locks
<1>19. (Writes(call[p]) => WriteKnown(p))' /\ (Reads(call[p]) => ReadKnown(p))'
  BY <1>8, IdleCall
<1>. QED  BY <1>10, <1>11, <1>12, <1>13, <1>14, <1>16, <1>17, <1>18, <1>19 DEF FileKnown
(* A call begins: what it has in common with the others is noted.          *)
LEMMA BeginStep ==
    ASSUME FileKnown, NEW p \in Procs, NEW d \in FileCall, begin(p, d),
           UNCHANGED <<size, cache, lower, locked, file, spoiled>>,
           d.fsz = size, d.pc \in {"fill", "grab"}, d.at = 0, d.pgs = << >>,
           Touched(d) \subseteq Pages, Writes(d) => WriteShape(d), Reads(d) => ReadShape(d)
    PROVE  FileKnown'
<1>1. FileTyped /\ Shapes /\ Notes /\ Written /\ Stored /\ CacheHolds /\ Locks
  BY DEF FileKnown
<1>2. /\ call'[p] = d /\ \A q \in Procs \ {p} : call'[q] = call[q]
      /\ call' \in [Procs -> FileCall] /\ call[p].pc = "idle"
  BY <1>1 DEF begin, Running, FileTyped
<1>3. ~Writes(call[p]) /\ Touched(call[p]) = {}
  BY <1>2 DEF Writes, Touched
<1>4. /\ shared \subseteq shared'
      /\ \A q \in Procs : Writes(d) \/ Writes(call[q]) => Touched(d) \cap Touched(call[q]) \subseteq shared'
  <2>1. PICK common : common = {Touched(d) \cap Touched(call[q]) :
                                q \in {r \in Running : Writes(d) \/ Writes(call[r])}}
    OBVIOUS
  <2>2. shared' = shared \cup UNION common
    BY <2>1 DEF begin
  <2>3. ASSUME NEW q \in Procs, Writes(d) \/ Writes(call[q]) PROVE Touched(d) \cap Touched(call[q]) \subseteq shared'
    <3>1. CASE call[q].pc = "idle"
      <4>1. ~Writes(call[q])
        BY <3>1 DEF Writes
      <4>2. Touched(call[q]) = {}
        BY <3>1, <4>1 DEF Touched
      <4>. QED  BY <4>2
    <3>2. CASE call[q].pc # "idle"
      <4>1. Touched(d) \cap Touched(call[q]) \in common
        BY <3>2, <2>1, <2>3 DEF Running
      <4>. QED  BY <4>1, <2>2
    <3>. QED  BY <3>1, <3>2
  <2>. QED  BY <2>2, <2>3
<1>5. shared' \subseteq Pages
  <2>1. \A x \in shared' : x \in shared \/ x \in Touched(d)
    BY DEF begin
  <2>. QED  BY <2>1, <1>1 DEF FileTyped
<1>6. FileTyped'
  BY <1>1, <1>2, <1>5 DEF FileTyped
<1>7. Shapes'
  <2>1. d.fsz \in 0 .. NPages * PageBytes
    BY <1>1 DEF FileTyped
  <2>. QED  BY <2>1, <1>1, <1>2 DEF Shapes
<1>8. Notes'
  <2>1. ASSUME NEW q \in Procs, NEW u \in Procs, q # u, Writes(call'[q])
        PROVE  Touched(call'[q]) \cap Touched(call'[u]) \subseteq shared'
    <3>1. CASE q = p
      BY <3>1, <2>1, <1>2, <1>4
    <3>2. CASE u = p
      BY <3>2, <2>1, <1>2, <1>4
    <3>3. CASE q # p /\ u # p
      BY <3>3, <2>1, <1>1, <1>2, <1>4 DEF Notes
    <3>. QED  BY <3>1, <3>2, <3>3
  <2>. QED  BY <2>1 DEF Notes
<1>9. Written'
  <2>1. \A o \in 0 .. size - 1 : file[o] # "none"
    BY <1>1 DEF Written
  <2>2. ASSUME NEW q \in Procs, NEW o \in 0 .. call'[q].fsz - 1 PROVE file[o] # "none"
    BY <2>1, <2>2, <1>1, <1>2 DEF Written
  <2>. QED  BY <2>1, <2>2 DEF Written
<1>10. Stored'
  <2>1. ASSUME NEW g \in Pages \ (shared' \cup spoiled'), ~Writing(g)' PROVE StoredPage(g)'
    <3>1. ~Writing(g) /\ g \in Pages \ (shared \cup spoiled)
      BY <2>1, <1>2, <1>3, <1>4 DEF Writing
    <3>2. StoredPage(g) /\ lower'[g] = lower[g]
      BY <3>1, <1>1 DEF Stored
    <3>. QED  BY <3>2 DEF StoredPage, Wrote
  <2>. QED  BY <2>1 DEF Stored
<1>11. \A k \in 1 .. Len(d.pgs) : FALSE
  OBVIOUS
<1>12. Holding(d) = {} /\ Keeping(d) = {} /\ Halfway(d) = {} /\ Halfway(call[p]) = {}
  BY <1>2, <1>11 DEF Holding, Keeping, Halfway, Writes, Pgs
<1>13. Locks'
  <2>1. \A q \in Procs : Holding(call'[q]) \subseteq Holding(call[q]) /\ Keeping(call'[q]) \subseteq Keeping(call[q])
    BY <1>2, <1>12
  <2>. QED  BY <2>1, <1>1 DEF Locks
<1>14. \A q \in Procs \ {p} : (Writes(call[q]) => WriteKnown(q))' /\ (Reads(call[q]) => ReadKnown(q))'
  <2>1. \A g \in Pages : lower'[g] = lower[g] /\ SameFile(g) /\ (g \in spoiled => g \in spoiled') /\ cache'[g] = cache[g]
    BY DEF SameFile
  <2>. QED  BY <2>1, <1>2, <1>4, OthersKnown
<1>15. (Writes(call[p]) => WriteKnown(p))' /\ (Reads(call[p]) => ReadKnown(p))'
  <2>1. d.pc = "fill" => WriteKnown(p)'
    <3>1. Pgs(d, 1, Len(d.pgs)) = {}
      BY <1>11 DEF Pgs
    <3>. QED  BY <3>1, <1>2 DEF WriteKnown
  <2>2. d.pc = "grab" => ReadKnown(p)'
    BY <1>2 DEF ReadKnown
  <2>. QED  BY <2>1, <2>2, <1>2 DEF Writes, Reads
<1>16. CacheHolds'
  <2>1. \A g \in Pages \ (shared' \cup spoiled') : SameFile(g) /\ cache'[g] = cache[g] /\ g \notin Halfway(call[p]) /\ g \notin spoiled
    BY <1>12 DEF SameFile
  <2>2. \A q \in Procs \ {p} : Halfway(call'[q]) = Halfway(call[q])
    BY <1>2
  <2>. QED  BY <2>1, <2>2, <1>1, <1>4, CacheApart
<1>. QED  BY <1>6, <1>7, <1>8, <1>9, <1>10, <1>13, <1>14, <1>15, <1>16 DEF FileKnown


LEMMA write2Keeps ==
    ASSUME FileKnown, NEW p \in Procs, NEW off \in WriteOffsets, NEW bytes \in WriteSizes, write2(p, off, bytes)
    PROVE  FileKnown'
<1>1. off \in Nat /\ bytes \in Nat /\ bytes > 0 /\ off + bytes <= NPages * PageBytes
  BY FileAssumption DEF write2
<1>2. size \in Nat /\ size \in 0 .. NPages * PageBytes
  BY PageBytesNat DEF FileKnown, FileTyped
<1>3. PICK s \in Nat : s = Least(off, size) /\ s = Least(size, off) /\ s <= off
  BY <1>1, <1>2 DEF Least
<1>7. PICK d : d = [Idle EXCEPT !.pc = "fill", !.off = off, !.n = bytes, !.fsz = size, !.pos = s]
  OBVIOUS
<1>8. /\ d.pc = "fill" /\ d.off = off /\ d.n = bytes /\ d.fsz = size /\ d.pos = s
      /\ d.at = 0 /\ d.pgs = << >> /\ d.enc = << >> /\ d.got = << >>
      /\ d = [pc |-> "fill", off |-> off, n |-> bytes, fsz |-> size, pos |-> s, at |-> 0,
              pgs |-> << >>, enc |-> << >>, got |-> << >>]
  BY <1>7 DEF Idle
<1>10. d \in FileCall
  <2>1. 0 \in Nat /\ << >> \in Seq(Pages) /\ << >> \in Seq(APage) /\ << >> \in Seq(AByte)
    OBVIOUS
  <2>. QED  BY <2>1, <1>1, <1>2, <1>8 DEF FileCall
<1>11. Writes(d) /\ ~Reads(d) /\ From(d) = s /\ End(d) = off + bytes
  BY <1>3, <1>8 DEF Writes, Reads, From, End
<1>12. WriteShape(d)
  <2>1. Len(d.pgs) = 0 /\ s - s = 0 /\ 0 * PageBytes = 0 /\ s <= off + bytes
    BY <1>1, <1>3, <1>8, PageBytesNat
  <2>2. \A k \in 1 .. Len(d.pgs) : FALSE
    BY <2>1
  <2>3. \A o \in From(d) .. d.pos - 1 : FALSE
    BY <1>8, <1>11
  <2>4. d.pos - From(d) <= Len(d.pgs) * PageBytes
    BY <2>1, <1>8, <1>11
  <2>. QED  BY <2>1, <2>2, <2>3, <2>4, <1>1, <1>8, <1>11 DEF WriteShape
<1>13. Touched(d) \subseteq Pages
  BY <1>10, <1>11, <1>12, WriteTouches
<1>14. begin(p, d) /\ UNCHANGED <<size, cache, lower, locked, file, spoiled>>
  BY <1>3, <1>7 DEF write2
<1>. QED  BY <1>8, <1>10, <1>11, <1>12, <1>13, <1>14, BeginStep

LEMMA read2Keeps ==
    ASSUME FileKnown, NEW p \in Procs, NEW off \in ReadOffsets, NEW bytes \in ReadSizes, read2(p, off, bytes)
    PROVE  FileKnown'
<1>1. off \in Nat /\ bytes \in Nat
  BY FileAssumption
<1>2. size \in 0 .. NPages * PageBytes
  BY DEF FileKnown, FileTyped
<1>3. size \in Nat
  BY <1>2, PageBytesNat
<1>4. PICK e \in Nat : e = Least(bytes, size) /\ e <= size
  BY <1>1, <1>3 DEF Least
<1>5. PICK d : d = [Idle EXCEPT !.pc = "grab", !.off = off, !.n = e, !.fsz = size, !.pos = off]
  OBVIOUS
<1>6. /\ d.pc = "grab" /\ d.off = off /\ d.n = e /\ d.fsz = size /\ d.pos = off
      /\ d.at = 0 /\ d.pgs = << >> /\ d.enc = << >> /\ d.got = << >>
      /\ d = [pc |-> "grab", off |-> off, n |-> e, fsz |-> size, pos |-> off, at |-> 0,
              pgs |-> << >>, enc |-> << >>, got |-> << >>]
  BY <1>5 DEF Idle
<1>7. d \in FileCall
  <2>1. 0 \in Nat /\ << >> \in Seq(Pages) /\ << >> \in Seq(APage) /\ << >> \in Seq(AByte)
    OBVIOUS
  <2>. QED  BY <2>1, <1>1, <1>3, <1>4, <1>6 DEF FileCall
<1>8. Reads(d) /\ ~Writes(d) /\ ReadShape(d)
  <2>1. Len(d.pgs) = 0 /\ nr_pages(e) \in Nat
    BY <1>6, ReadPagesCount
  <2>2. \A k \in 1 .. Len(d.pgs) : d.pgs[k] = k - 1
    BY <2>1
  <2>. QED  BY <2>1, <2>2, <1>4, <1>6 DEF Reads, Writes, ReadShape
<1>9. Touched(d) \subseteq Pages
  BY <1>2, <1>6, <1>7, <1>8, ReadTouches
<1>10. begin(p, d) /\ UNCHANGED <<size, cache, lower, locked, file, spoiled>>
  BY <1>4, <1>5 DEF read2
<1>. QED  BY <1>6, <1>7, <1>8, <1>9, <1>10, BeginStep

-----------------------------------------------------------------------------
(* Reads.                                                                  *)

PagesRead(c, r, l) ==
  /\ c.fsz \in 0 .. NPages * PageBytes /\ c.n <= c.fsz /\ r = nr_pages(c.n) /\ r <= NPages
  /\ l = Len(c.pgs) /\ l <= r /\ l = (IF c.pc = "grab" THEN c.at ELSE r) /\ c.at <= r
  /\ \A k \in 1 .. l : c.pgs[k] = k - 1 /\ c.pgs[k] \in Pages
  /\ Touched(c) = 0 .. r - 1 /\ Touched(c) \subseteq Pages /\ Holding(c) \subseteq Touched(c)

LEMMA ReadFacts ==
    ASSUME FileKnown, NEW p \in Procs, Reads(call[p])
    PROVE  \E c \in FileCall, r \in Nat, l \in Nat : c = call[p] /\ PagesRead(c, r, l)
<1>1. PICK c \in FileCall : c = call[p]
  BY DEF FileKnown, FileTyped
<1>2. c.fsz \in 0 .. NPages * PageBytes
  BY <1>1 DEF FileKnown, Shapes
<1>3. ReadShape(c) /\ Reads(c)
  BY <1>1 DEF FileKnown, Shapes
<1>4. PICK r \in Nat, l \in Nat : r = nr_pages(c.n) /\ l = Len(c.pgs)
  BY <1>2, <1>3, ReadTouches
<1>5. /\ r <= NPages /\ l <= r /\ Touched(c) = 0 .. r - 1 /\ Touched(c) \subseteq Pages
      /\ \A k \in 1 .. l : c.pgs[k] \in Touched(c)
      /\ Holding(c) \subseteq Touched(c)
  BY <1>2, <1>3, <1>4, ReadTouches
<1>7. /\ c.n <= c.fsz /\ l = (IF c.pc = "grab" THEN c.at ELSE r) /\ c.at <= r
      /\ \A k \in 1 .. l : c.pgs[k] = k - 1
  BY <1>3, <1>4 DEF ReadShape
<1>8. \A k \in 1 .. l : c.pgs[k] \in Pages
  BY <1>5
<1>9. PagesRead(c, r, l)
  BY <1>2, <1>4, <1>5, <1>7, <1>8 DEF PagesRead
<1>. QED  BY <1>1, <1>9

(* A step of a read: what it holds and keeps.                              *)
LEMMA ReadStep ==
    ASSUME FileKnown, NEW p \in Procs, Reads(call[p]), NEW d \in FileCall, call' = [call EXCEPT ![p] = d],
           UNCHANGED <<size, lower, file, shared, spoiled>>, locked' \subseteq Pages,
           cache' \in [Pages -> APage \cup {NoPage}],
           \/ Reads(d) /\ d.n = call[p].n /\ d.fsz = call[p].fsz /\ ReadShape(d) /\ ReadKnown(p)'
           \/ d = Idle \/ d = [Idle EXCEPT !.pc = "killed"],
           \A g \in Pages : cache'[g] = cache[g]
                            \/ (g \in Touched(call[p]) /\ \A q \in Procs \ {p} : g \notin Holding(call[q])),
           Holding(d) \cap locked \subseteq Holding(call[p]), Holding(d) \subseteq locked',
           \A g \in locked \ locked' : g \in Holding(call[p]),
           \A g \in Pages : cache[g] # NoPage => cache'[g] # NoPage,
           \A g \in Holding(d) : cache'[g] # NoPage,
           \A g \in Pages \ (shared \cup spoiled) :
              \/ cache'[g] = cache[g] /\ g \notin Halfway(call[p])
              \/ g \in Halfway(d) \/ Holds(g, 0)'
    PROVE  FileKnown'
<1>1. call'[p] = d /\ (\A q \in Procs \ {p} : call'[q] = call[q]) /\ call' \in [Procs -> FileCall]
  BY DEF FileKnown, FileTyped
<1>2. ~Writes(call[p])
  BY DEF Reads, Writes
<1>3. /\ ~Writes(d) /\ Keeping(d) = Holding(d) /\ Touched(d) \subseteq Touched(call[p])
      /\ d.fsz \in {0, call[p].fsz} /\ (d.pc = "killed" => d.n = 0)
      /\ Reads(d) => ReadShape(d) /\ ReadKnown(p)'
  <2>1. CASE Reads(d) /\ d.n = call[p].n /\ d.fsz = call[p].fsz /\ ReadShape(d) /\ ReadKnown(p)'
    <3>1. d.pc # "idle" /\ call[p].pc # "idle" /\ d.pc # "fill" /\ ~Writes(d) /\ d.pc # "killed"
      BY <2>1 DEF Reads, Writes
    <3>2. Touched(d) = Touched(call[p])
      BY <2>1, <3>1, <1>2 DEF Touched
    <3>. QED  BY <2>1, <3>1, <3>2 DEF Keeping
  <2>2. CASE d = Idle
    BY <2>2, IdleCall
  <2>3. CASE d = [Idle EXCEPT !.pc = "killed"]
    <3>1. d.pc = "killed" /\ d.n = 0 /\ d.fsz = 0
      BY <2>3 DEF Idle
    <3>2. ~Writes(d) /\ ~Reads(d) /\ Keeping(d) = Holding(d)
      BY <3>1 DEF Writes, Reads, Keeping
    <3>3. nr_pages(0) = 0
      BY ReadPagesCount
    <3>4. Touched(d) = {}
      BY <3>1, <3>2, <3>3 DEF Touched
    <3>. QED  BY <3>1, <3>2, <3>4
  <2>. QED  BY <2>1, <2>2, <2>3
<1>4. lower' \in [Pages -> APage \cup {NoPage}] /\ lower' = lower
  BY DEF FileKnown, FileTyped
<1>5. /\ UNCHANGED <<size, file, shared, spoiled>> /\ spoiled' \subseteq Pages
      /\ Writes(call'[p]) <=> Writes(call[p])
      /\ Touched(call'[p]) \subseteq Touched(call[p])
      /\ Writes(call[p]) => Touched(call'[p]) = Touched(call[p])
      /\ call'[p].fsz \in {0, call[p].fsz}
      /\ Writes(call'[p]) => WriteShape(call'[p]) /\ WriteKnown(p)'
      /\ Reads(call'[p]) => ReadShape(call'[p]) /\ ReadKnown(p)'
      /\ call'[p].pc = "killed" => call'[p].n = 0
      /\ \A g \in Pages : lower'[g] = lower[g] \/ (Writes(call[p]) /\ g \in Touched(call[p]))
      /\ Holding(call'[p]) \cap locked \subseteq Holding(call[p]) /\ Holding(call'[p]) \subseteq locked'
      /\ \A g \in Keeping(call'[p]) : cache'[g] # NoPage
  BY <1>1, <1>2, <1>3, <1>4 DEF FileKnown, FileTyped
<1>6. \A g \in Pages \ (shared \cup spoiled') :
         \/ cache'[g] = cache[g] /\ g \notin Halfway(call[p])
         \/ g \in Halfway(call'[p]) \/ Holds(g, 0)'
  BY <1>1
<1>. QED  BY <1>1, <1>4, <1>5, <1>6, InnerStep

LEMMA read2_grabKeeps ==
    ASSUME FileKnown, NEW p \in Procs, read2_grab(p)
    PROVE  FileKnown'
<1>1. FileTyped /\ Locks /\ Reads(call[p])
  BY DEF FileKnown, read2_grab, Reads
<1>2. PICK c \in FileCall, r \in Nat, l \in Nat : c = call[p] /\ PagesRead(c, r, l)
  BY <1>1, ReadFacts
<1>3. /\ c.pc = "grab" /\ l = c.at /\ l < r /\ r = nr_pages(c.n) /\ l = Len(c.pgs) /\ l \notin locked
      /\ c.n <= c.fsz /\ Touched(c) = 0 .. r - 1 /\ Touched(c) \subseteq Pages
      /\ \A k \in 1 .. l : c.pgs[k] = k - 1 /\ c.pgs[k] \in Pages
      /\ c.pos = c.off /\ c.got = << >>
  BY <1>2 DEF PagesRead, read2_grab, FileKnown, Shapes, ReadShape, Reads
<1>4. PICK g \in Pages : g = l /\ g \in Touched(c) /\ g \notin locked
  BY <1>3
<1>5. PICK d : d = [c EXCEPT !.at = l + 1, !.pgs = Append(c.pgs, g)]
  OBVIOUS
<1>6. /\ call' = [call EXCEPT ![p] = d]
      /\ cache' = [cache EXCEPT ![g] = Cached(g)] /\ locked' = locked \cup {g}
      /\ UNCHANGED <<size, lower, file, shared, spoiled>>
  <2>1. call' = [call EXCEPT ![p].at = l + 1, ![p].pgs = Append(c.pgs, g)]
    BY <1>2, <1>3, <1>4 DEF read2_grab
  <2>2. call' = [call EXCEPT ![p] = d]
    BY <2>1, <1>1, <1>2, <1>5 DEF FileTyped
  <2>. QED  BY <2>2, <1>2, <1>3, <1>4 DEF read2_grab, history
<1>7. /\ d.pc = "grab" /\ d.off = c.off /\ d.n = c.n /\ d.fsz = c.fsz /\ d.pos = c.pos
      /\ d.at = l + 1 /\ d.pgs = Append(c.pgs, g) /\ d.got = c.got /\ d \in FileCall
  <2>1. c.pgs \in Seq(Pages) /\ Append(c.pgs, g) \in Seq(Pages)
    BY DEF FileCall
  <2>2. PICK s, z : s = Append(c.pgs, g) /\ z = l + 1
    OBVIOUS
  <2>a. s \in Seq(Pages) /\ z \in Nat
    BY <2>1, <2>2
  <2>3. d = [c EXCEPT !.at = z, !.pgs = s]
    BY <2>2, <1>5
  <2>4. /\ d.pc = c.pc /\ d.off = c.off /\ d.n = c.n /\ d.fsz = c.fsz /\ d.pos = c.pos
        /\ d.at = z /\ d.pgs = s /\ d.got = c.got /\ d \in FileCall
    BY <2>3, <2>a DEF FileCall
  <2>. QED  BY <2>2, <2>4, <1>3
<1>8. /\ Len(d.pgs) = l + 1 /\ d.pgs[l + 1] = g
      /\ \A k \in 1 .. l : d.pgs[k] = c.pgs[k]
  <2>1. c.pgs \in Seq(Pages)
    BY DEF FileCall
  <2>. QED  BY <2>1, <1>3, <1>7
<1>9. Reads(d) /\ ReadShape(d)
  <2>1. \A k \in 1 .. l + 1 : k \in 1 .. l \/ k = l + 1
    OBVIOUS
  <2>2. \A k \in 1 .. Len(d.pgs) : d.pgs[k] = k - 1
    <3>1. \A k \in 1 .. l : d.pgs[k] = k - 1
      BY <1>3, <1>8
    <3>2. d.pgs[l + 1] = (l + 1) - 1
      BY <1>4, <1>8
    <3>. QED  BY <3>1, <3>2, <2>1, <1>8
  <2>. QED  BY <2>2, <1>3, <1>7, <1>8 DEF Reads, ReadShape
<1>10. ReadKnown(p)'
  <2>1. call'[p] = d
    BY <1>1, <1>6 DEF FileTyped
  <2>. QED  BY <2>1, <1>7 DEF ReadKnown
<1>11. Holding(d) = Holding(c) \cup {g} /\ Holding(c) \subseteq locked /\ Keeping(c) = Holding(c)
  <2>1. Holding(d) = Pgs(d, 1, l + 1) /\ Holding(c) = Pgs(c, 1, l) /\ Keeping(c) = Holding(c)
    BY <1>3, <1>7, <1>8 DEF Holding, Keeping
  <2>2. \A k \in 1 .. l + 1 : k \in 1 .. l \/ k = l + 1
    OBVIOUS
  <2>3. Pgs(d, 1, l + 1) = Pgs(c, 1, l) \cup {g}
    BY <2>2, <1>8 DEF Pgs
  <2>. QED  BY <2>1, <2>3, <1>1, <1>2 DEF Locks
<1>12. Cached(g) \in APage /\ Cached(g) # NoPage /\ (cache[g] # NoPage => Cached(g) = cache[g])
  <2>1. Junk \in APage
    BY DEF Junk, APage, AByte, Byte
  <2>2. Cached(g) \in APage
    BY <2>1, <1>1 DEF Cached, FileTyped
  <2>. QED  BY <2>2, APageIsPage DEF Cached
<1>13. /\ cache' \in [Pages -> APage \cup {NoPage}] /\ cache'[g] = Cached(g)
       /\ \A h \in Pages : h # g => cache'[h] = cache[h]
  BY <1>1, <1>6, <1>12 DEF FileTyped
<1>14. \A h \in Pages : cache'[h] = cache[h]
                        \/ (h \in Touched(call[p]) /\ \A q \in Procs \ {p} : h \notin Holding(call[q]))
  BY <1>1, <1>2, <1>4, <1>13 DEF Locks
<1>15. \A h \in Pages : cache[h] # NoPage => cache'[h] # NoPage
  BY <1>12, <1>13
<1>16. \A h \in Holding(d) : cache'[h] # NoPage
  <2>1. \A h \in Holding(c) : h \in Pages /\ cache[h] # NoPage
    BY <1>1, <1>2, <1>11 DEF Locks, FileTyped
  <2>. QED  BY <2>1, <1>11, <1>12, <1>13, <1>15
<1>17. locked' \subseteq Pages /\ Holding(d) \cap locked \subseteq Holding(call[p]) /\ Holding(d) \subseteq locked'
       /\ \A h \in locked \ locked' : h \in Holding(call[p])
  BY <1>1, <1>2, <1>4, <1>6, <1>11 DEF FileTyped
<1>18. Reads(d) /\ d.n = call[p].n /\ d.fsz = call[p].fsz /\ ReadShape(d) /\ ReadKnown(p)'
  BY <1>2, <1>7, <1>9, <1>10
<1>19. \A h \in Pages \ (shared \cup spoiled) : (cache'[h] = cache[h] /\ h \notin Halfway(call[p])) \/ h \in Halfway(d)
  <2>1. Halfway(d) = Holding(d) /\ Halfway(c) = Holding(c)
    BY <1>3, <1>7 DEF Halfway, Holding, Writes
  <2>. QED  BY <2>1, <1>2, <1>11, <1>13
<1>. QED  BY <1>1, <1>6, <1>7, <1>13, <1>14, <1>15, <1>16, <1>17, <1>18, <1>19, ReadStep

LEMMA read2_grabbedKeeps ==
    ASSUME FileKnown, NEW p \in Procs, read2_grabbed(p)
    PROVE  FileKnown'
<1>1. FileTyped /\ Locks /\ Reads(call[p])
  BY DEF FileKnown, read2_grabbed, Reads
<1>2. PICK c \in FileCall, r \in Nat, l \in Nat : c = call[p] /\ PagesRead(c, r, l)
  BY <1>1, ReadFacts
<1>3. /\ c.pc = "grab" /\ l = c.at /\ l = r /\ r = nr_pages(c.n) /\ l = Len(c.pgs)
      /\ c.n <= c.fsz
      /\ \A k \in 1 .. l : c.pgs[k] = k - 1 /\ c.pgs[k] \in Pages
      /\ c.pos = c.off /\ c.got = << >>
  BY <1>2 DEF PagesRead, read2_grabbed, FileKnown, Shapes, ReadShape, Reads
<1>4. PICK d : d = [c EXCEPT !.pc = "load", !.at = 0]
  OBVIOUS
<1>5. /\ call' = [call EXCEPT ![p] = d] /\ cache' = cache /\ locked' = locked
      /\ UNCHANGED <<size, lower, file, shared, spoiled>>
  <2>1. call' = [call EXCEPT ![p] = d]
    BY <1>1, <1>2, <1>4 DEF FileTyped, read2_grabbed
  <2>. QED  BY <2>1 DEF read2_grabbed, history
<1>6. /\ d.pc = "load" /\ d.off = c.off /\ d.n = c.n /\ d.fsz = c.fsz /\ d.pos = c.pos
      /\ d.at = 0 /\ d.pgs = c.pgs /\ d.got = c.got /\ d \in FileCall
  BY <1>4 DEF FileCall
<1>7. Reads(d) /\ ReadShape(d) /\ Holding(d) = Holding(c)
  BY <1>3, <1>6 DEF Reads, ReadShape, Holding, Pgs
<1>8. ReadKnown(p)'
  <2>1. call'[p] = d
    BY <1>1, <1>5 DEF FileTyped
  <2>. QED  BY <2>1, <1>6 DEF ReadKnown
<1>9. /\ cache' \in [Pages -> APage \cup {NoPage}] /\ locked' \subseteq Pages
      /\ Holding(c) \subseteq locked /\ \A h \in Holding(c) : cache[h] # NoPage
  <2>1. ~Writes(c) /\ c = call[p]
    BY <1>2, <1>3 DEF Writes
  <2>2. Keeping(c) = Holding(c)
    BY <2>1 DEF Keeping
  <2>3. \A h \in Holding(c) : cache[h] # NoPage
    BY <1>1, <2>1, <2>2 DEF Locks
  <2>4. Holding(c) \subseteq locked
    BY <1>1, <2>1 DEF Locks
  <2>. QED  BY <1>1, <1>5, <2>3, <2>4 DEF FileTyped
<1>10. Reads(d) /\ d.n = call[p].n /\ d.fsz = call[p].fsz /\ ReadShape(d) /\ ReadKnown(p)'
  BY <1>2, <1>6, <1>7, <1>8
<1>11. Holding(d) \cap locked \subseteq Holding(call[p]) /\ Holding(d) \subseteq locked'
       /\ \A h \in Holding(d) : cache'[h] # NoPage
  BY <1>2, <1>5, <1>7, <1>9
<1>12. \A h \in Pages \ (shared \cup spoiled) : (cache'[h] = cache[h] /\ h \notin Halfway(call[p])) \/ h \in Halfway(d)
  <2>1. Halfway(d) = Halfway(c)
    BY <1>3, <1>6 DEF Halfway, Writes, Pgs
  <2>. QED  BY <2>1, <1>2, <1>5
<1>. QED  BY <1>1, <1>5, <1>6, <1>9, <1>10, <1>11, <1>12, ReadStep

LEMMA LoadedPage ==
    ASSUME FileTyped, NEW g \in Pages, cache[g] # NoPage
    PROVE  Loaded(g) \in APage /\ Loaded(g) # NoPage
<1>1. [b \in InPage |-> Zero] \in APage
  BY DEF Zero, Byte, APage, AByte
<1>2. Loaded(g) \in APage
  BY <1>1 DEF Loaded, FileTyped
<1>. QED  BY <1>2, APageIsPage

LEMMA decrypt_pages_loadKeeps ==
    ASSUME FileKnown, NEW p \in Procs, decrypt_pages_load(p)
    PROVE  FileKnown'
<1>1. FileTyped /\ Locks /\ Notes /\ Stored /\ Reads(call[p]) /\ ReadKnown(p) /\ ~Writes(call[p])
  BY DEF FileKnown, decrypt_pages_load, Reads, Writes
<1>2. PICK c \in FileCall, r \in Nat, l \in Nat : c = call[p] /\ PagesRead(c, r, l)
  BY <1>1, ReadFacts
<1>3. /\ c.pc = "load" /\ c.at < l /\ l = r /\ r = nr_pages(c.n) /\ l = Len(c.pgs) /\ c.at \in Nat
      /\ c.n <= c.fsz /\ Touched(c) = 0 .. r - 1 /\ Touched(c) \subseteq Pages
      /\ \A k \in 1 .. l : c.pgs[k] = k - 1 /\ c.pgs[k] \in Pages
      /\ c.pos = c.off /\ c.got = << >> /\ Holding(c) \subseteq Touched(c)
  BY <1>2 DEF PagesRead, decrypt_pages_load, FileKnown, Shapes, ReadShape, Reads, FileCall
<1>4. PICK s \in Nat : s = c.at + 1
  BY <1>3
<1>5. s \in 1 .. l
  BY <1>3, <1>4
<1>6. PICK g \in Pages : g = c.pgs[s] /\ g = s - 1
  BY <1>3, <1>5
<1>7. PICK d : d = [c EXCEPT !.at = s]
  OBVIOUS
<1>8. /\ call' = [call EXCEPT ![p] = d] /\ cache' = [cache EXCEPT ![g] = Loaded(g)] /\ locked' = locked
      /\ UNCHANGED <<size, lower, file, shared, spoiled>>
  <2>1. call' = [call EXCEPT ![p].at = s]
    BY <1>2, <1>4 DEF decrypt_pages_load
  <2>2. call' = [call EXCEPT ![p] = d]
    BY <2>1, <1>1, <1>2, <1>7 DEF FileTyped
  <2>. QED  BY <2>2, <1>2, <1>4, <1>6 DEF decrypt_pages_load, history
<1>9. /\ d.pc = "load" /\ d.off = c.off /\ d.n = c.n /\ d.fsz = c.fsz /\ d.pos = c.pos
      /\ d.at = s /\ d.pgs = c.pgs /\ d.got = c.got /\ d \in FileCall
  BY <1>3, <1>7 DEF FileCall
<1>10. /\ Reads(d) /\ ReadShape(d) /\ Holding(d) = Holding(c) /\ Holding(c) = Pgs(c, 1, l) /\ Keeping(c) = Holding(c)
       /\ Touched(d) = Touched(c)
  <2>1. s <= r /\ ~Writes(d) /\ ~Writes(c)
    BY <1>3, <1>5, <1>9 DEF Writes
  <2>2. Touched(d) = Touched(c)
    BY <2>1, <1>3, <1>9 DEF Touched
  <2>3. Reads(d) /\ ReadShape(d)
    BY <2>1, <1>3, <1>9 DEF Reads, ReadShape
  <2>4. Holding(d) = Holding(c) /\ Holding(c) = Pgs(c, 1, l) /\ Keeping(c) = Holding(c)
    BY <1>3, <1>9 DEF Holding, Pgs, Keeping
  <2>. QED  BY <2>2, <2>3, <2>4
<1>11. g \in Holding(c) /\ g \in Touched(c) /\ Holding(c) \subseteq locked
       /\ \A h \in Holding(c) : h \in Pages /\ cache[h] # NoPage
  <2>1. g \in Holding(c)
    BY <1>5, <1>6, <1>10 DEF Pgs
  <2>2. Holding(call[p]) \subseteq locked /\ \A h \in Keeping(call[p]) : cache[h] # NoPage
    BY <1>1 DEF Locks
  <2>. QED  BY <2>1, <2>2, <1>2, <1>3, <1>10
<1>12. /\ cache' \in [Pages -> APage \cup {NoPage}] /\ cache'[g] = Loaded(g) /\ Loaded(g) # NoPage
       /\ \A h \in Pages : h # g => cache'[h] = cache[h]
  BY <1>1, <1>8, <1>11, LoadedPage DEF FileTyped
<1>13. ASSUME g \in Known(c) PROVE Holds(g, 1)'
  <2>1. ~Writing(g)
    <3>1. SUFFICES ASSUME NEW q \in Procs, Writes(call[q]), g \in Touched(call[q]) PROVE FALSE
      BY DEF Writing
    <3>2. q # p /\ g \in Touched(call[p])
      BY <3>1, <1>1, <1>2, <1>11
    <3>3. g \in shared
      BY <3>1, <3>2, <1>1 DEF Notes
    <3>. QED  BY <3>3, <1>13 DEF Known
  <2>2. StoredPage(g)
    BY <2>1, <1>1, <1>13 DEF Stored, Known
  <2>3. ASSUME NEW b \in InPage, file[At(g, b)] # "none" PROVE cache'[g][b] = [Wrote(At(g, b)) EXCEPT !.layers = 1]
    <3>1. lower[g] # NoPage /\ lower[g][b] = [Wrote(At(g, b)) EXCEPT !.layers = 1]
      BY <2>2, <2>3 DEF StoredPage
    <3>2. cache'[g] = lower[g]
      BY <3>1, <1>12 DEF Loaded
    <3>. QED  BY <3>1, <3>2
  <2>4. UNCHANGED file
    BY <1>8
  <2>. QED  BY <2>3, <2>4 DEF Holds, Wrote
<1>14. ReadKnown(p)'
  <2>1. call'[p] = d
    BY <1>1, <1>8 DEF FileTyped
  <2>2. Known(d)' = Known(c)
    BY <1>8, <1>10 DEF Known
  <2>3. ASSUME NEW k \in 1 .. s, c.pgs[k] \in Known(c) PROVE Holds(c.pgs[k], 1)'
    <3>1. CASE k = s
      BY <3>1, <2>3, <1>6, <1>13
    <3>2. CASE k # s
      <4>1. k \in 1 .. c.at /\ k \in 1 .. l
        BY <3>2, <1>3, <1>4, <1>5
      <4>2. Holds(c.pgs[k], 1)
        BY <4>1, <2>3, <1>1, <1>2, <1>3 DEF ReadKnown
      <4>3. c.pgs[k] \in Pages /\ c.pgs[k] # g
        <5>1. c.pgs[k] = k - 1 /\ c.pgs[k] \in Pages
          BY <4>1, <1>3
        <5>2. k - 1 # s - 1
          BY <3>2
        <5>. QED  BY <5>1, <5>2, <1>6
      <4>4. cache'[c.pgs[k]] = cache[c.pgs[k]] /\ SameFile(c.pgs[k])
        BY <4>3, <1>8, <1>12 DEF SameFile
      <4>. QED  BY <4>2, <4>4, HoldsApart
    <3>. QED  BY <3>1, <3>2
  <2>4. \A k \in 1 .. d.at : d.pgs[k] \in Known(d)' => Holds(d.pgs[k], 1)'
    BY <2>2, <2>3, <1>9
  <2>. QED  BY <2>1, <2>4, <1>9 DEF ReadKnown
<1>15. \A h \in Pages : cache'[h] = cache[h]
                        \/ (h \in Touched(call[p]) /\ \A q \in Procs \ {p} : h \notin Holding(call[q]))
  <2>1. \A q \in Procs \ {p} : g \notin Holding(call[q])
    BY <1>1, <1>2, <1>11 DEF Locks
  <2>. QED  BY <2>1, <1>2, <1>11, <1>12
<1>16. \A h \in Pages : cache[h] # NoPage => cache'[h] # NoPage
  BY <1>12
<1>17. locked' \subseteq Pages /\ Holding(d) \cap locked \subseteq Holding(call[p]) /\ Holding(d) \subseteq locked'
       /\ (\A h \in locked \ locked' : h \in Holding(call[p])) /\ \A h \in Holding(d) : cache'[h] # NoPage
  BY <1>1, <1>2, <1>8, <1>10, <1>11, <1>16 DEF FileTyped
<1>18. Reads(d) /\ d.n = call[p].n /\ d.fsz = call[p].fsz /\ ReadShape(d) /\ ReadKnown(p)'
  BY <1>2, <1>9, <1>10, <1>14
<1>19. \A h \in Pages \ (shared \cup spoiled) : (cache'[h] = cache[h] /\ h \notin Halfway(call[p])) \/ h \in Halfway(d)
  <2>1. Halfway(d) = Holding(c) /\ Halfway(c) = Holding(c)
    BY <1>3, <1>9, <1>10 DEF Halfway, Holding, Writes, Pgs
  <2>. QED  BY <2>1, <1>2, <1>11, <1>12
<1>. QED  BY <1>1, <1>8, <1>9, <1>12, <1>15, <1>16, <1>17, <1>18, <1>19, ReadStep

LEMMA decrypt_pagesKeeps ==
    ASSUME FileKnown, NEW p \in Procs, decrypt_pages(p)
    PROVE  FileKnown'
<1>1. FileTyped /\ Locks /\ Reads(call[p]) /\ ReadKnown(p) /\ ~Writes(call[p])
  BY DEF FileKnown, decrypt_pages, Reads, Writes
<1>2. PICK c \in FileCall, r \in Nat, l \in Nat : c = call[p] /\ PagesRead(c, r, l)
  BY <1>1, ReadFacts
<1>3. /\ c.pc = "load" /\ c.at = l /\ l = r /\ r = nr_pages(c.n) /\ l = Len(c.pgs)
      /\ c.n <= c.fsz /\ Touched(c) = 0 .. r - 1 /\ Touched(c) \subseteq Pages
      /\ \A k \in 1 .. l : c.pgs[k] = k - 1 /\ c.pgs[k] \in Pages
      /\ c.pos = c.off /\ c.got = << >> /\ Holding(c) \subseteq Touched(c)
      /\ c.n \in Nat /\ c.off \in Nat
  BY <1>2 DEF PagesRead, decrypt_pages, FileKnown, Shapes, ReadShape, Reads, FileCall
<1>4. PICK d : d = [c EXCEPT !.pc = "copy", !.at = 0]
  OBVIOUS
<1>5. /\ call' = [call EXCEPT ![p] = d] /\ locked' = locked
      /\ cache' = [g \in Pages |-> IF g \in Pgs(c, 1, l) THEN Layer(cache[g], -1) ELSE cache[g]]
      /\ UNCHANGED <<size, lower, file, shared, spoiled>>
  <2>1. call' = [call EXCEPT ![p] = d]
    BY <1>1, <1>2, <1>4 DEF FileTyped, decrypt_pages
  <2>. QED  BY <2>1, <1>2, <1>3 DEF decrypt_pages, history, Decrypted
<1>6. /\ d.pc = "copy" /\ d.off = c.off /\ d.n = c.n /\ d.fsz = c.fsz /\ d.pos = c.pos
      /\ d.at = 0 /\ d.pgs = c.pgs /\ d.got = c.got /\ d \in FileCall
  BY <1>3, <1>4 DEF FileCall
<1>7. /\ Reads(d) /\ ReadShape(d) /\ Holding(d) = Pgs(c, 1, l) /\ Holding(c) = Pgs(c, 1, l) /\ Keeping(c) = Holding(c)
      /\ Touched(d) = Touched(c)
  <2>1. ~Writes(d) /\ ~Writes(c) /\ 0 + 1 = 1 /\ 0 <= r
    BY <1>3, <1>6 DEF Writes
  <2>2. Touched(d) = Touched(c)
    BY <2>1, <1>3, <1>6 DEF Touched
  <2>3. Reads(d) /\ ReadShape(d)
    BY <2>1, <1>3, <1>6 DEF Reads, ReadShape
  <2>4. Holding(d) = Pgs(c, 1, l) /\ Holding(c) = Pgs(c, 1, l) /\ Keeping(c) = Holding(c)
    BY <2>1, <1>3, <1>6 DEF Holding, Pgs, Keeping
  <2>. QED  BY <2>2, <2>3, <2>4
<1>8. Holding(c) \subseteq locked /\ \A h \in Holding(c) : h \in Pages /\ cache[h] # NoPage /\ cache[h] \in APage
  <2>1. Holding(call[p]) \subseteq locked /\ \A h \in Keeping(call[p]) : cache[h] # NoPage
    BY <1>1 DEF Locks
  <2>. QED  BY <2>1, <1>1, <1>2, <1>3, <1>7 DEF FileTyped
<1>9. /\ \A h \in Holding(c) : cache'[h] = Layer(cache[h], -1) /\ cache'[h] \in APage /\ cache'[h] # NoPage
      /\ \A h \in Pages \ Holding(c) : cache'[h] = cache[h]
      /\ cache' \in [Pages -> APage \cup {NoPage}]
  <2>1. -1 \in Int
    OBVIOUS
  <2>2. \A h \in Holding(c) : Layer(cache[h], -1) \in APage
    BY <2>1, <1>8, LayerTyped
  <2>3. \A h \in Holding(c) : cache'[h] = Layer(cache[h], -1)
    BY <1>5, <1>7, <1>8
  <2>4. \A h \in Pages \ Holding(c) : cache'[h] = cache[h]
    BY <1>5, <1>7
  <2>5. cache' \in [Pages -> APage \cup {NoPage}]
    BY <2>2, <1>1, <1>5, <1>7, <1>8 DEF FileTyped
  <2>. QED  BY <2>2, <2>3, <2>4, <2>5, APageIsPage
<1>10. ASSUME NEW g \in Holding(c), Holds(g, 1) PROVE Holds(g, 0)'
  <2>1. ASSUME NEW b \in InPage, file[At(g, b)] # "none" PROVE cache'[g][b] = [Wrote(At(g, b)) EXCEPT !.layers = 0]
    <3>1. cache[g][b] = [Wrote(At(g, b)) EXCEPT !.layers = 1]
      BY <2>1, <1>10 DEF Holds
    <3>2. cache'[g][b] = [cache[g][b] EXCEPT !.layers = cache[g][b].layers + (-1)]
      <4>1. cache[g] \in APage /\ cache'[g] = Layer(cache[g], -1) /\ b \in InPage /\ -1 \in Int
        BY <1>8, <1>9
      <4>. QED  BY <4>1, LayerTyped
    <3>3. PICK w : w = Wrote(At(g, b)) /\ w = [value |-> w.value, offset |-> w.offset, layers |-> 0]
      BY DEF Wrote, Zero, Byte
    <3>4. cache[g][b] = [value |-> w.value, offset |-> w.offset, layers |-> 1]
      BY <3>1, <3>3
    <3>5. cache'[g][b] = [value |-> w.value, offset |-> w.offset, layers |-> 1 + (-1)]
      BY <3>2, <3>4
    <3>. QED  BY <3>3, <3>5
  <2>2. UNCHANGED file
    BY <1>5
  <2>. QED  BY <2>1, <2>2 DEF Holds, Wrote
<1>11. ReadKnown(p)'
  <2>1. call'[p] = d
    BY <1>1, <1>5 DEF FileTyped
  <2>2. Known(d)' = Known(c)
    BY <1>5, <1>7 DEF Known
  <2>3. ASSUME NEW k \in 1 .. l, c.pgs[k] \in Known(c) PROVE Holds(c.pgs[k], 0)'
    <3>1. Holds(c.pgs[k], 1)
      BY <2>3, <1>1, <1>2, <1>3 DEF ReadKnown
    <3>2. c.pgs[k] \in Holding(c)
      BY <1>7 DEF Pgs
    <3>. QED  BY <3>1, <3>2, <1>10
  <2>4. \A k \in d.at + 1 .. Len(d.pgs) : d.pgs[k] \in Known(d)' => Holds(d.pgs[k], 0)'
    BY <2>2, <2>3, <1>3, <1>6
  <2>5. /\ d.off <= d.pos /\ d.pos <= End(d) /\ Len(d.got) = d.pos - d.off
        /\ \A k \in 1 .. Len(d.got) : FALSE
        /\ d.pos = d.off /\ d.at = 0
    <3>1. d.pos = d.off /\ d.off \in Nat /\ d.n \in Nat /\ d.got = << >>
      BY <1>3, <1>6
    <3>. QED  BY <3>1, <1>6 DEF End
  <2>. QED  BY <2>1, <2>4, <2>5, <1>6 DEF ReadKnown
<1>12. \A h \in Pages : cache'[h] = cache[h]
                        \/ (h \in Touched(call[p]) /\ \A q \in Procs \ {p} : h \notin Holding(call[q]))
  <2>1. \A h \in Holding(c), q \in Procs \ {p} : h \notin Holding(call[q])
    BY <1>1, <1>2 DEF Locks
  <2>. QED  BY <2>1, <1>2, <1>3, <1>9
<1>13. \A h \in Pages : cache[h] # NoPage => cache'[h] # NoPage
  BY <1>9
<1>14. locked' \subseteq Pages /\ Holding(d) \cap locked \subseteq Holding(call[p]) /\ Holding(d) \subseteq locked'
       /\ (\A h \in locked \ locked' : h \in Holding(call[p])) /\ \A h \in Holding(d) : cache'[h] # NoPage
  BY <1>1, <1>2, <1>5, <1>7, <1>8, <1>9 DEF FileTyped
<1>15. Reads(d) /\ d.n = call[p].n /\ d.fsz = call[p].fsz /\ ReadShape(d) /\ ReadKnown(p)'
  BY <1>2, <1>6, <1>7, <1>11
<1>16. \A h \in Pages \ (shared \cup spoiled) : (cache'[h] = cache[h] /\ h \notin Halfway(call[p])) \/ Holds(h, 0)'
  <2>1. Halfway(c) = Holding(c)
    BY <1>3 DEF Halfway, Holding, Writes
  <2>2. ASSUME NEW h \in Pages \ (shared \cup spoiled), h \in Holding(c) PROVE Holds(h, 0)'
    <3>1. PICK k \in 1 .. l : h = c.pgs[k]
      BY <2>2, <1>7 DEF Pgs
    <3>2. c.pgs[k] \in Known(c)
      BY <3>1, <2>2, <1>3 DEF Known
    <3>3. Holds(h, 1)
      BY <3>1, <3>2, <1>1, <1>2, <1>3 DEF ReadKnown
    <3>. QED  BY <3>3, <2>2, <1>10
  <2>. QED  BY <2>1, <2>2, <1>2, <1>9
<1>. QED  BY <1>1, <1>5, <1>6, <1>9, <1>12, <1>13, <1>14, <1>15, <1>16, ReadStep

(* The steps that leave a read.                                            *)
LEMMA LeaveKeeps ==
    ASSUME FileKnown, NEW p \in Procs, call[p].pc \in {"copy", "read"}, NEW d,
           d = Idle \/ d = [Idle EXCEPT !.pc = "killed"],
           call' = [call EXCEPT ![p] = d], UNCHANGED <<size, cache, lower, locked, file, shared, spoiled>>
    PROVE  FileKnown'
<1>1. FileTyped
  BY DEF FileKnown
<1>2. d \in FileCall /\ Holding(d) = {}
  <2>1. CASE d = Idle
    BY <2>1, IdleCall
  <2>2. CASE d = [Idle EXCEPT !.pc = "killed"]
    <3>1. d.pc = "killed"
      BY <2>2 DEF Idle
    <3>2. d \in FileCall
      BY <2>2, IdleCall DEF FileCall
    <3>. QED  BY <3>1, <3>2 DEF Holding
  <2>. QED  BY <2>1, <2>2
<1>3. locked' = locked /\ cache' = cache /\ locked' \subseteq Pages /\ cache' \in [Pages -> APage \cup {NoPage}]
  BY <1>1 DEF FileTyped
<1>4. Reads(call[p]) /\ Halfway(call[p]) = {}
  BY DEF Reads, Halfway, Writes
<1>. QED  BY <1>2, <1>3, <1>4, ReadStep

LEMMA read2_outKeeps ==
    ASSUME FileKnown, NEW p \in Procs, read2_out(p)
    PROVE  FileIInv'
<1>1. CASE failed'
  BY <1>1 DEF FileIInv
<1>2. CASE ~failed'
  <2>1. call[p].pc = "copy"
    BY <1>2 DEF read2_out
  <2>2. /\ call' = [call EXCEPT ![p] = Idle]
        /\ UNCHANGED <<size, cache, lower, locked, file, shared, spoiled>>
    BY DEF read2_out
  <2>3. FileKnown'
    BY <2>1, <2>2, LeaveKeeps
  <2>. QED  BY <2>3 DEF FileIInv
<1>. QED  BY <1>1, <1>2

LEMMA read2_past_arrayKeeps ==
    ASSUME FileKnown, NEW p \in Procs, read2_past_array(p)
    PROVE  FileKnown'
<1>1. call[p].pc = "copy"
  BY DEF read2_past_array, Copying
<1>2. /\ call' = [call EXCEPT ![p] = [Idle EXCEPT !.pc = "killed"]]
      /\ UNCHANGED <<size, cache, lower, locked, file, shared, spoiled>>
  BY DEF read2_past_array, history
<1>. QED  BY <1>1, <1>2, LeaveKeeps

LEMMA read2_returnKeeps ==
    ASSUME FileKnown, NEW p \in Procs, read2_return(p)
    PROVE  FileKnown'
<1>1. call[p].pc = "read"
  BY DEF read2_return
<1>2. /\ call' = [call EXCEPT ![p] = Idle]
      /\ UNCHANGED <<size, cache, lower, locked, file, shared, spoiled>>
  BY DEF read2_return, history
<1>. QED  BY <1>1, <1>2, LeaveKeeps

LEMMA read2_endKeeps ==
    ASSUME FileKnown, NEW p \in Procs, read2_end(p)
    PROVE  FileKnown'
<1>1. FileTyped /\ Locks /\ Reads(call[p]) /\ ReadKnown(p)
  BY DEF FileKnown, read2_end, Copying, Reads
<1>2. PICK c \in FileCall, r \in Nat, l \in Nat : c = call[p] /\ PagesRead(c, r, l)
  BY <1>1, ReadFacts
<1>3. /\ c.pc = "copy" /\ l = r /\ r = nr_pages(c.n) /\ l = Len(c.pgs) /\ c.at <= r
      /\ c.n <= c.fsz /\ c.pos = End(c)
      /\ \A k \in 1 .. l : c.pgs[k] = k - 1 /\ c.pgs[k] \in Pages
  BY <1>2 DEF PagesRead, read2_end, Copying
<1>4. PICK d : d = [c EXCEPT !.pc = "read"]
  OBVIOUS
<1>5. /\ call' = [call EXCEPT ![p] = d] /\ locked' = locked /\ cache' = cache
      /\ UNCHANGED <<size, lower, file, shared, spoiled>>
  <2>1. call' = [call EXCEPT ![p] = d]
    BY <1>1, <1>2, <1>4 DEF FileTyped, read2_end
  <2>. QED  BY <2>1 DEF read2_end, history
<1>6. /\ d.pc = "read" /\ d.off = c.off /\ d.n = c.n /\ d.fsz = c.fsz /\ d.pos = c.pos
      /\ d.at = c.at /\ d.pgs = c.pgs /\ d.got = c.got /\ d \in FileCall
  BY <1>4 DEF FileCall
<1>7. Reads(d) /\ ReadShape(d) /\ Holding(d) = {} /\ Touched(d) = Touched(c) /\ End(d) = End(c)
  BY <1>3, <1>6 DEF Reads, ReadShape, Holding, Touched, End, Writes
<1>8. ReadKnown(p)'
  <2>1. call'[p] = d
    BY <1>1, <1>5 DEF FileTyped
  <2>2. ASSUME Good(d)'
        PROVE  /\ d.off <= d.pos /\ d.pos <= End(d) /\ Len(d.got) = d.pos - d.off
               /\ \A k \in 1 .. Len(d.got) : d.got[k] = Wrote(d.off + k - 1)'
    <3>1. Good(c)
      BY <2>2, <1>5, <1>6, <1>7 DEF Good
    <3>2. /\ c.off <= c.pos /\ c.pos <= End(c) /\ Len(c.got) = c.pos - c.off
          /\ \A k \in 1 .. Len(c.got) : c.got[k] = Wrote(c.off + k - 1)
      BY <3>1, <1>1, <1>2, <1>3 DEF ReadKnown
    <3>. QED  BY <3>2, <1>5, <1>6, <1>7 DEF Wrote
  <2>3. d.pos = End(d)
    BY <1>3, <1>6, <1>7
  <2>. QED  BY <2>1, <2>2, <2>3, <1>6 DEF ReadKnown
<1>9. /\ cache' \in [Pages -> APage \cup {NoPage}] /\ locked' \subseteq Pages
  BY <1>1, <1>5 DEF FileTyped
<1>10. Reads(d) /\ d.n = call[p].n /\ d.fsz = call[p].fsz /\ ReadShape(d) /\ ReadKnown(p)'
  BY <1>2, <1>6, <1>7, <1>8
<1>11. Halfway(call[p]) = {}
  BY <1>2, <1>3 DEF Halfway, Writes
<1>. QED  BY <1>1, <1>5, <1>6, <1>7, <1>9, <1>10, <1>11, ReadStep

(* The bytes of a turn of the copy.                                        *)
(* What a read that has the file at hand copies in a turn.                 *)
LEMMA CopiedIsWritten ==
    ASSUME NEW c \in FileCall, NEW g \in Nat, c.pos < End(c), c.off <= c.pos,
           (c.pos = c.off /\ c.off < PageBytes /\ g = 0) \/ c.pos = g * PageBytes,
           Holds(g, 0), \A o \in 0 .. c.fsz - 1 : file[o] # "none", End(c) <= c.fsz,
           NEW k \in 1 .. NumBytes(c)
    PROVE  cache[g][First(c) + k - 1] = Wrote(c.pos + k - 1)
<1>1. c.pos \in Nat /\ c.off \in Nat /\ c.fsz \in Nat /\ End(c) \in Nat
  BY DEF FileCall, End
<1>2. /\ NumBytes(c) \in Nat \ {0} /\ First(c) \in InPage /\ First(c) + NumBytes(c) <= PageBytes
      /\ c.pos + NumBytes(c) <= End(c)
  BY TurnBytes
<1>3. PageOf(c.pos) = g
  <2>1. CASE c.pos = g * PageBytes
    BY <2>1, PageMultiple
  <2>2. CASE c.pos = c.off /\ c.off < PageBytes /\ g = 0
    <3>1. PageOf(c.pos) \in Nat /\ \A x \in Nat : c.pos < x * PageBytes <=> PageOf(c.pos) < x
      BY <1>1, PlaceOf
    <3>2. 1 \in Nat /\ 1 * PageBytes = PageBytes
      BY PageBytesNat
    <3>3. PageOf(c.pos) < 1
      BY <3>1, <3>2, <2>2
    <3>. QED  BY <3>1, <3>3, <2>2
  <2>. QED  BY <2>1, <2>2
<1>4. c.pos = g * PageBytes + First(c) /\ g * PageBytes \in Nat
  <2>1. At(PageOf(c.pos), c.pos % PageBytes) = c.pos
    BY <1>1, PlaceOf
  <2>. QED  BY <2>1, <1>3, PageBytesNat DEF At, First
<1>5. PICK b : b = First(c) + k - 1
  OBVIOUS
<1>6. b \in InPage /\ At(g, b) = c.pos + k - 1
  BY <1>2, <1>4, <1>5, PageBytesNat DEF InPage, At
<1>7. c.pos + k - 1 \in 0 .. c.fsz - 1
  BY <1>1, <1>2
<1>8. cache[g][b] = [Wrote(At(g, b)) EXCEPT !.layers = 0]
  BY <1>6, <1>7 DEF Holds
<1>9. [Wrote(At(g, b)) EXCEPT !.layers = 0] = Wrote(At(g, b))
  BY DEF Wrote, Zero, Byte
<1>. QED  BY <1>5, <1>6, <1>8, <1>9

LEMMA read2_copyKeeps ==
    ASSUME FileKnown, NEW p \in Procs, read2_copy(p)
    PROVE  FileKnown'
<1>1. FileTyped /\ Locks /\ Written /\ Reads(call[p]) /\ ReadKnown(p) /\ ~Writes(call[p])
  BY DEF FileKnown, read2_copy, Copying, Reads, Writes
<1>2. PICK c \in FileCall, r \in Nat, l \in Nat : c = call[p] /\ PagesRead(c, r, l)
  BY <1>1, ReadFacts
<1>3. /\ c.pc = "copy" /\ c.at < l /\ l = r /\ r = nr_pages(c.n) /\ l = Len(c.pgs)
      /\ c.n <= c.fsz /\ Touched(c) = 0 .. r - 1 /\ Touched(c) \subseteq Pages
      /\ \A k \in 1 .. l : c.pgs[k] = k - 1 /\ c.pgs[k] \in Pages
  BY <1>2 DEF PagesRead, read2_copy, Copying
<1>a. /\ c.n \in Nat /\ c.off \in Nat /\ c.pos \in Nat /\ c.fsz \in Nat /\ End(c) \in Nat /\ c.at \in Nat
      /\ c.pos < End(c)
  <2>1. c.pos < End(c)
    BY <1>2 DEF read2_copy
  <2>2. End(c) \in Nat
    BY CallFields DEF End
  <2>. QED  BY <2>1, <2>2, CallFields
<1>b. c.got \in Seq(AByte) /\ Len(c.got) \in Nat
  BY DEF FileCall
<1>4. PICK s \in Nat, x \in Nat \ {0} : s = c.at + 1 /\ x = NumBytes(c)
  BY <1>a, TurnBytes
<1>5. s \in 1 .. l /\ s - 1 = c.at
  <2>1. s = c.at + 1 /\ c.at \in Nat /\ c.at < l /\ l \in Nat
    BY <1>3, <1>4, <1>a
  <2>. QED  BY <2>1
<1>c. First(c) \in InPage /\ First(c) \in Nat /\ First(c) + x <= PageBytes
  <2>1. First(c) \in InPage => First(c) \in Nat
    BY PageBytesNat DEF InPage
  <2>. QED  BY <2>1, <1>4, <1>a, TurnBytes
<1>d. c.off <= c.pos => c.pos + x <= End(c) /\ (c.pos + x < End(c) => x = PageBytes - First(c))
  BY <1>4, <1>a, TurnBytes
<1>6. PICK g \in Pages : g = c.pgs[s] /\ g = c.at
  BY <1>3, <1>5
<1>7. PICK bytes : bytes = [k \in 1 .. x |-> cache[g][First(c) + k - 1]]
  OBVIOUS
<1>8. PICK d : d = [c EXCEPT !.pos = c.pos + x, !.at = s, !.got = c.got \o bytes]
  OBVIOUS
<1>9. /\ call' = [call EXCEPT ![p] = d] /\ locked' = locked \ {g} /\ cache' = cache
      /\ UNCHANGED <<size, lower, file, shared, spoiled>>
  <2>1. call' = [call EXCEPT ![p].pos = c.pos + x, ![p].at = s, ![p].got = c.got \o bytes]
    BY <1>2, <1>4, <1>6, <1>7 DEF read2_copy
  <2>2. call' = [call EXCEPT ![p] = d]
    BY <2>1, <1>1, <1>2, <1>8 DEF FileTyped
  <2>. QED  BY <2>2, <1>2, <1>4, <1>6 DEF read2_copy, history, Unlocked
<1>10. Holding(c) = Pgs(c, s, l) /\ Keeping(c) = Holding(c) /\ g \in Holding(c)
  <2>a. ~Writes(c) /\ Holding(c) = Pgs(c, c.at + 1, Len(c.pgs))
    BY <1>3 DEF Holding, Writes
  <2>b. Keeping(c) = Holding(c)
    BY <2>a DEF Keeping
  <2>1. Holding(c) = Pgs(c, s, l) /\ Keeping(c) = Holding(c)
    BY <1>3, <1>4, <2>a, <2>b
  <2>2. g \in Pgs(c, s, l)
    <3>1. s \in s .. l /\ g = c.pgs[s]
      BY <1>5, <1>6
    <3>. QED  BY <3>1 DEF Pgs
  <2>. QED  BY <2>1, <2>2
<1>11. Holding(c) \subseteq locked /\ (\A h \in Holding(c) : h \in Pages /\ cache[h] # NoPage) /\ cache[g] \in APage
  <2>1. Holding(call[p]) \subseteq locked /\ \A h \in Keeping(call[p]) : cache[h] # NoPage
    BY <1>1 DEF Locks
  <2>. QED  BY <2>1, <1>1, <1>2, <1>10 DEF FileTyped
<1>12. bytes \in Seq(AByte) /\ Len(bytes) = x
  <2>1. ASSUME NEW k \in 1 .. x PROVE cache[g][First(c) + k - 1] \in AByte
    <3>1. First(c) + k - 1 \in InPage
      BY <1>c, PageBytesNat DEF InPage
    <3>. QED  BY <3>1, <1>11 DEF APage
  <2>2. bytes \in [1 .. x -> AByte]
    BY <2>1, <1>7
  <2>. QED  BY <2>2, <1>5, <1>7
<1>13. PICK y, got : y = c.pos + x /\ got = c.got \o bytes
  OBVIOUS
<1>14. /\ y \in Nat /\ got \in Seq(AByte) /\ Len(got) = Len(c.got) + x
       /\ \A k \in 1 .. Len(c.got) : got[k] = c.got[k]
       /\ \A k \in 1 .. x : got[Len(c.got) + k] = bytes[k]
  <2>1. y \in Nat
    BY <1>a, <1>13
  <2>2. /\ got \in Seq(AByte) /\ Len(got) = Len(c.got) + x
        /\ \A k \in 1 .. Len(c.got) + x : got[k] = IF k <= Len(c.got) THEN c.got[k] ELSE bytes[k - Len(c.got)]
    BY <1>b, <1>12, <1>13, ConcatProperties
  <2>3. PICK v \in Nat : v = Len(c.got)
    BY <1>b
  <2>4. \A k \in 1 .. v : k \in 1 .. v + x /\ k <= v
    OBVIOUS
  <2>5. \A k \in 1 .. x : v + k \in 1 .. v + x /\ ~(v + k <= v) /\ (v + k) - v = k
    OBVIOUS
  <2>. QED  BY <2>1, <2>2, <2>3, <2>4, <2>5
<1>15. /\ d.pc = "copy" /\ d.off = c.off /\ d.n = c.n /\ d.fsz = c.fsz /\ d.pos = y
       /\ d.at = s /\ d.pgs = c.pgs /\ d.got = got /\ d \in FileCall
  <2>1. d = [c EXCEPT !.pos = y, !.at = s, !.got = got]
    BY <1>8, <1>13
  <2>2. y \in Nat /\ got \in Seq(AByte)
    BY <1>14
  <2>. QED  BY <2>1, <2>2, <1>3 DEF FileCall
<1>16. Reads(d) /\ ReadShape(d) /\ Touched(d) = Touched(c) /\ End(d) = End(c)
  <2>1. s <= r /\ ~Writes(d) /\ ~Writes(c)
    BY <1>3, <1>5, <1>15 DEF Writes
  <2>2. Touched(d) = Touched(c)
    BY <2>1, <1>3, <1>15 DEF Touched
  <2>3. Reads(d) /\ ReadShape(d)
    BY <2>1, <1>3, <1>15 DEF Reads, ReadShape
  <2>. QED  BY <2>2, <2>3, <1>15 DEF End
<1>17. Holding(d) = Pgs(c, s + 1, l) /\ Holding(d) \subseteq Holding(c) \ {g}
  <2>1. Holding(d) = Pgs(c, s + 1, l)
    BY <1>3, <1>15 DEF Holding, Pgs
  <2>2. \A k \in s + 1 .. l : k \in s .. l /\ k \in 1 .. l /\ k - 1 # s - 1
    BY <1>4, <1>a
  <2>3. \A k \in s + 1 .. l : c.pgs[k] # g
    <3>1. \A k \in s + 1 .. l : c.pgs[k] = k - 1
      BY <2>2, <1>3
    <3>. QED  BY <3>1, <2>2, <1>5, <1>6
  <2>4. Pgs(c, s + 1, l) \subseteq Pgs(c, s, l) \ {g}
    BY <2>2, <2>3 DEF Pgs
  <2>. QED  BY <2>1, <2>4, <1>10
<1>18. ReadKnown(p)'
  <2>1. call'[p] = d
    BY <1>1, <1>9 DEF FileTyped
  <2>2. Known(d)' = Known(c)
    BY <1>9, <1>16 DEF Known
  <2>3. \A k \in d.at + 1 .. Len(d.pgs) : d.pgs[k] \in Known(d)' => Holds(d.pgs[k], 0)'
    <3>1. ASSUME NEW k \in s + 1 .. l, c.pgs[k] \in Known(c) PROVE Holds(c.pgs[k], 0)'
      <4>1. k \in c.at + 1 .. Len(c.pgs)
        BY <3>1, <1>3, <1>4, <1>5
      <4>2. Holds(c.pgs[k], 0)
        BY <4>1, <3>1, <1>1, <1>2, <1>3 DEF ReadKnown
      <4>. QED  BY <4>2, <1>9 DEF Holds, Wrote
    <3>. QED  BY <3>1, <2>2, <1>3, <1>15
  <2>4. ASSUME Good(d)'
        PROVE  /\ d.off <= d.pos /\ d.pos <= End(d) /\ Len(d.got) = d.pos - d.off
               /\ \A k \in 1 .. Len(d.got) : d.got[k] = Wrote(d.off + k - 1)'
               /\ d.pos < End(d) => d.pos = d.at * PageBytes
    <3>1. Good(c)
      BY <2>4, <1>9, <1>15, <1>16 DEF Good
    <3>2. /\ c.off <= c.pos /\ Len(c.got) = c.pos - c.off
          /\ \A k \in 1 .. Len(c.got) : c.got[k] = Wrote(c.off + k - 1)
          /\ (c.pos = c.off /\ c.at = 0) \/ c.pos = c.at * PageBytes
          /\ c.off < PageBytes /\ End(c) <= c.fsz
      <4>1. /\ c.off <= c.pos /\ Len(c.got) = c.pos - c.off
            /\ \A k \in 1 .. Len(c.got) : c.got[k] = Wrote(c.off + k - 1)
            /\ c.pc = "copy" /\ c.pos < End(c) => (c.pos = c.off /\ c.at = 0) \/ c.pos = c.at * PageBytes
        BY <3>1, <1>1, <1>2, <1>3 DEF ReadKnown
      <4>2. c.off < PageBytes /\ End(c) <= c.fsz
        BY <3>1 DEF Good
      <4>3. c.pc = "copy"
        BY <1>3
      <4>. QED  BY <4>1, <4>2, <4>3, <1>a
    <3>3. Holds(g, 0)
      <4>1. s \in c.at + 1 .. Len(c.pgs)
        BY <1>3, <1>4, <1>5
      <4>2. g \in Touched(c)
        BY <1>3, <1>5, <1>6
      <4>3. g \in Known(c)
        BY <4>2, <3>1 DEF Good, Known
      <4>. QED  BY <4>1, <4>3, <1>1, <1>2, <1>3, <1>6 DEF ReadKnown
    <3>4. \A o \in 0 .. c.fsz - 1 : file[o] # "none"
      BY <1>1, <1>2 DEF Written
    <3>5. \A k \in 1 .. x : bytes[k] = Wrote(c.pos + k - 1)
      <4>1. g \in Nat /\ ((c.pos = c.off /\ c.off < PageBytes /\ g = 0) \/ c.pos = g * PageBytes)
        <5>1. g = c.at /\ c.at \in Nat
          BY <1>6, <1>a
        <5>. QED  BY <5>1, <3>2
      <4>2. \A k \in 1 .. x : cache[g][First(c) + k - 1] = Wrote(c.pos + k - 1)
        BY <4>1, <3>2, <3>3, <3>4, <1>4, <1>a, CopiedIsWritten
      <4>. QED  BY <4>2, <1>7
    <3>6. d.off <= d.pos /\ d.pos <= End(d) /\ Len(d.got) = d.pos - d.off
      <4>1. d.off = c.off /\ d.pos = c.pos + x /\ End(d) = End(c) /\ Len(d.got) = (c.pos - c.off) + x
        BY <3>2, <1>13, <1>14, <1>15, <1>16
      <4>2. c.pos - c.off \in Nat /\ c.off <= c.pos + x /\ c.pos + x <= End(c) /\ (c.pos - c.off) + x = (c.pos + x) - c.off
        <5>1. c.off <= c.pos /\ c.pos + x <= End(c) /\ c.off \in Nat /\ c.pos \in Nat /\ x \in Nat
          BY <3>2, <1>4, <1>a, <1>d
        <5>. QED  BY <5>1
      <4>. QED  BY <4>1, <4>2
    <3>7. ASSUME NEW k \in 1 .. Len(d.got) PROVE d.got[k] = Wrote(d.off + k - 1)
      <4>1. PICK v \in Nat : v = Len(c.got) /\ v = c.pos - c.off /\ Len(d.got) = v + x
        BY <3>2, <1>b, <1>14, <1>15
      <4>2. CASE k \in 1 .. v
        BY <4>1, <4>2, <3>2, <1>14, <1>15
      <4>3. CASE ~(k \in 1 .. v)
        <5>1. PICK u \in 1 .. x : k = v + u
          <6>1. k \in 1 .. v + x
            BY <4>1
          <6>2. k - v \in 1 .. x /\ k = v + (k - v)
            BY <6>1, <4>3
          <6>. QED  BY <6>2
        <5>2. d.got[k] = Wrote(c.pos + u - 1)
          BY <5>1, <4>1, <3>5, <1>14, <1>15
        <5>3. c.pos + u - 1 = c.off + k - 1
          <6>1. c.pos = c.off + v
            BY <4>1, <1>a
          <6>. QED  BY <6>1, <5>1, <1>a
        <5>. QED  BY <5>2, <5>3, <1>15
      <4>. QED  BY <4>2, <4>3
    <3>8. ASSUME d.pos < End(d) PROVE d.pos = d.at * PageBytes
      <4>1. c.pos + x < End(c)
        BY <3>8, <1>13, <1>15, <1>16
      <4>2. x = PageBytes - First(c)
        BY <4>1, <3>2, <1>d
      <4>3. PageOf(c.pos) = c.at
        <5>1. CASE c.pos = c.at * PageBytes
          BY <5>1, <1>a, PageMultiple
        <5>2. CASE c.pos = c.off /\ c.at = 0
          <6>1. PageOf(c.pos) \in Nat /\ \A z \in Nat : c.pos < z * PageBytes <=> PageOf(c.pos) < z
            BY <1>a, PlaceOf
          <6>2. 1 \in Nat /\ 1 * PageBytes = PageBytes
            BY PageBytesNat
          <6>3. PageOf(c.pos) < 1
            BY <6>1, <6>2, <5>2, <3>2
          <6>. QED  BY <6>1, <6>3, <5>2
        <5>. QED  BY <5>1, <5>2, <3>2
      <4>4. c.pos = c.at * PageBytes + First(c) /\ c.at * PageBytes \in Nat
        <5>1. At(PageOf(c.pos), c.pos % PageBytes) = c.pos
          BY <1>a, PlaceOf
        <5>2. c.at * PageBytes \in Nat
          BY <1>a, PageBytesNat
        <5>. QED  BY <5>1, <5>2, <4>3 DEF At, First
      <4>5. s * PageBytes = c.at * PageBytes + PageBytes
        BY <1>4, <1>a, PageBytesNat
      <4>6. c.pos + x = c.at * PageBytes + PageBytes
        BY <4>2, <4>4, <1>c, PageBytesNat
      <4>. QED  BY <4>5, <4>6, <1>13, <1>15
    <3>9. file' = file
      BY <1>9
    <3>. QED  BY <3>6, <3>7, <3>8, <3>9 DEF Wrote
  <2>. QED  BY <2>1, <2>3, <2>4, <1>15 DEF ReadKnown
<1>19. /\ cache' \in [Pages -> APage \cup {NoPage}] /\ locked' \subseteq Pages
       /\ Holding(d) \cap locked \subseteq Holding(call[p]) /\ Holding(d) \subseteq locked'
       /\ \A h \in locked \ locked' : h \in Holding(call[p])
       /\ \A h \in Holding(d) : cache'[h] # NoPage
  BY <1>1, <1>2, <1>9, <1>10, <1>11, <1>17 DEF FileTyped
<1>20. Reads(d) /\ d.n = call[p].n /\ d.fsz = call[p].fsz /\ ReadShape(d) /\ ReadKnown(p)'
  BY <1>2, <1>15, <1>16, <1>18
<1>21. Halfway(call[p]) = {}
  BY <1>2, <1>3 DEF Halfway, Writes
<1>. QED  BY <1>1, <1>9, <1>15, <1>19, <1>20, <1>21, ReadStep

LEMMA reclaimKeeps ==
    ASSUME FileKnown, NEW g \in Pages, reclaim(g)
    PROVE  FileKnown'
<1>1. FileTyped /\ Shapes /\ Notes /\ Written /\ Stored /\ CacheHolds /\ Locks
  BY DEF FileKnown
<1>2. /\ \A h \in Pages : h # g => cache'[h] = cache[h]
      /\ cache' \in [Pages -> APage \cup {NoPage}]
      /\ UNCHANGED <<size, lower, locked, call, file, shared, spoiled>>
      /\ \A p \in Procs : g \notin Pgs(call[p], 1, Len(call[p].pgs))
  BY <1>1 DEF reclaim, history, FileTyped
<1>3. FileTyped'
  BY <1>1, <1>2 DEF FileTyped
<1>4. Shapes' /\ Notes' /\ Written'
  BY <1>1, <1>2 DEF Shapes, Notes, Written
<1>5. Stored'
  BY <1>1, <1>2 DEF Stored, StoredPage, Writing, Wrote
<1>6. ASSUME NEW p \in Procs, NEW h \in Keeping(call[p]) PROVE h # g /\ h \in Pages
  <2>1. call[p] \in FileCall
    BY <1>1 DEF FileTyped
  <2>2. call[p].at \in Nat /\ Len(call[p].pgs) \in Nat
    BY <2>1 DEF FileCall
  <2>3. Pgs(call[p], call[p].at + 1, Len(call[p].pgs)) \subseteq Pgs(call[p], 1, Len(call[p].pgs))
    <3>1. \A k \in call[p].at + 1 .. Len(call[p].pgs) : k \in 1 .. Len(call[p].pgs)
      BY <2>2
    <3>. QED  BY <3>1 DEF Pgs
  <2>4. h \in Pgs(call[p], 1, Len(call[p].pgs))
    <3>1. Keeping(call[p]) \in {Pgs(call[p], 1, Len(call[p].pgs)), Pgs(call[p], call[p].at + 1, Len(call[p].pgs)), {}}
      BY DEF Keeping, Holding
    <3>. QED  BY <3>1, <1>6, <2>3
  <2>. QED  BY <2>4, <1>1, <1>2, CallTouches
<1>7. Locks'
  <2>1. \A p \in Procs : \A h \in Keeping(call'[p]) : cache'[h] # NoPage
    BY <1>1, <1>2, <1>6 DEF Locks
  <2>2. \A p \in Procs : Holding(call'[p]) \subseteq locked'
    BY <1>1, <1>2 DEF Locks
  <2>3. \A p, q \in Procs : p # q => Holding(call'[p]) \cap Holding(call'[q]) = {}
    BY <1>1, <1>2 DEF Locks
  <2>. QED  BY <2>1, <2>2, <2>3 DEF Locks
<1>8. ASSUME NEW q \in Procs PROVE (Writes(call[q]) => WriteKnown(q))' /\ (Reads(call[q]) => ReadKnown(q))'
  <2>1. call'[q] = call[q] /\ call[q] \in FileCall /\ shared \subseteq shared'
        /\ (Writes(call[q]) => WriteKnown(q)) /\ (Reads(call[q]) => ReadKnown(q))
    BY <1>1, <1>2 DEF FileKnown, FileTyped
  <2>2. Writes(call[q]) => WriteKnown(q)'
    <3>1. ASSUME NEW h \in Pgs(call[q], 1, Len(call[q].pgs)) \ shared'
          PROVE  lower'[h] = lower[h] /\ cache'[h] = cache[h] /\ SameFile(h) /\ (h \in spoiled => h \in spoiled')
      <4>1. h # g /\ h \in Pages
        BY <3>1, <1>1, <1>2, CallTouches
      <4>. QED  BY <4>1, <1>2 DEF SameFile
    <3>. QED  BY <3>1, <2>1, <1>1, WriteApart
  <2>3. Reads(call[q]) => ReadKnown(q)'
    <3>1. \A h \in Touched(call[q]) \ shared' : SameFile(h) /\ (h \in spoiled => h \in spoiled')
      BY <1>2 DEF SameFile
    <3>2. ASSUME Reads(call[q]), NEW h \in Holding(call[q]) PROVE cache'[h] = cache[h]
      <4>1. h \in Keeping(call[q])
        BY <3>2 DEF Keeping, Reads, Writes
      <4>. QED  BY <4>1, <1>2, <1>6
    <3>. QED  BY <3>1, <3>2, <2>1, <1>1, ReadApart
  <2>. QED  BY <2>1, <2>2, <2>3
<1>9. CacheHolds'
  <2>1. ASSUME NEW h \in Pages \ (shared' \cup spoiled'), \A q \in Procs : h \notin Halfway(call'[q]), cache'[h] # NoPage
        PROVE  Holds(h, 0)'
    <3>1. h # g
      BY <2>1, <1>1 DEF reclaim, FileTyped
    <3>2. cache'[h] = cache[h] /\ SameFile(h) /\ Holds(h, 0)
      BY <3>1, <2>1, <1>1, <1>2 DEF CacheHolds, SameFile
    <3>. QED  BY <3>2, HoldsApart
  <2>. QED  BY <2>1 DEF CacheHolds
<1>. QED  BY <1>3, <1>4, <1>5, <1>7, <1>8, <1>9 DEF FileKnown

LEMMA UnchangedKeeps ==
    ASSUME FileKnown, UNCHANGED fileVars
    PROVE  FileKnown'
<1>1. UNCHANGED <<size, cache, lower, locked, call, file, shared, spoiled>>
  BY DEF fileVars, history
<1>2. FileTyped' /\ Shapes' /\ Notes' /\ Written'
  BY <1>1 DEF FileKnown, FileTyped, Shapes, Notes, Written
<1>3. Stored'
  BY <1>1 DEF FileKnown, Stored, StoredPage, Writing, Wrote
<1>4. Locks'
  BY <1>1 DEF FileKnown, Locks
<1>5. ASSUME NEW q \in Procs PROVE (Writes(call[q]) => WriteKnown(q))' /\ (Reads(call[q]) => ReadKnown(q))'
  <2>1. FileTyped /\ Shapes /\ call'[q] = call[q] /\ shared \subseteq shared'
        /\ (Writes(call[q]) => WriteKnown(q)) /\ (Reads(call[q]) => ReadKnown(q))
    BY <1>1 DEF FileKnown
  <2>2. Writes(call[q]) => WriteKnown(q)'
    <3>1. \A h : lower'[h] = lower[h] /\ cache'[h] = cache[h] /\ SameFile(h) /\ (h \in spoiled => h \in spoiled')
      BY <1>1 DEF SameFile
    <3>. QED  BY <3>1, <2>1, WriteApart
  <2>3. \A h \in Touched(call[q]) \ shared' : SameFile(h) /\ (h \in spoiled => h \in spoiled')
    BY <1>1 DEF SameFile
  <2>4. Reads(call[q]) => ReadKnown(q)'
    BY <2>1, <2>3, <1>1, ReadApart
  <2>. QED  BY <2>1, <2>2, <2>4
<1>6. CacheHolds'
  BY <1>1 DEF FileKnown, CacheHolds, Holds, Wrote
<1>. QED  BY <1>2, <1>3, <1>4, <1>5, <1>6 DEF FileKnown

LEMMA FileInitKnown == FileInit => FileIInv
<1>. SUFFICES ASSUME FileInit PROVE FileKnown
  BY DEF FileIInv
<1>1. /\ size = 0 /\ cache = [g \in Pages |-> NoPage] /\ lower = [g \in Pages |-> NoPage] /\ locked = {}
      /\ call = [p \in Procs |-> Idle] /\ file = [b \in Bytes |-> "none"] /\ shared = {} /\ spoiled = {}
  BY DEF FileInit
<1>2. \A p \in Procs : /\ call[p] = Idle /\ Touched(call[p]) = {} /\ Holding(call[p]) = {} /\ Keeping(call[p]) = {}
                       /\ ~Writes(call[p]) /\ ~Reads(call[p]) /\ call[p].fsz = 0 /\ call[p].pc = "idle"
  BY <1>1, IdleCall
<1>3. 0 \in 0 .. NPages * PageBytes
  BY PageBytesNat
<1>4. FileTyped
  BY <1>1, <1>3, IdleCall DEF FileTyped
<1>5. Shapes /\ Notes /\ Locks
  BY <1>2, <1>3 DEF Shapes, Notes, Locks
<1>6. Written
  BY <1>1, <1>2 DEF Written
<1>7. Stored
  <2>1. ASSUME NEW g \in Pages, NEW b \in InPage PROVE file[At(g, b)] = "none"
    BY <1>1, InBytes
  <2>. QED  BY <2>1 DEF Stored, StoredPage
<1>8. CacheHolds
  BY <1>1 DEF CacheHolds
<1>. QED  BY <1>2, <1>4, <1>5, <1>6, <1>7, <1>8 DEF FileKnown

LEMMA FileStepKeeps ==
    ASSUME FileIInv, [FileNext]_fileVars
    PROVE  FileIInv'
<1>1. CASE failed
  <2>1. failed'
    <3>1. ASSUME NEW p \in Procs,
                 \/ \E off \in WriteOffsets, k \in WriteSizes : write2(p, off, k)
                 \/ write2_page(p) \/ encrypt_pages2(p) \/ encrypt_pages2_fails(p)
                 \/ encrypt_pages2_store(p) \/ write2_end(p)
          PROVE  failed'
      BY <1>1, <3>1 DEF history, write2, write2_page, encrypt_pages2, encrypt_pages2_fails,
                        encrypt_pages2_store, write2_end
    <3>2. ASSUME NEW p \in Procs,
                 \/ \E off \in ReadOffsets, k \in ReadSizes : read2(p, off, k)
                 \/ read2_grab(p) \/ read2_grabbed(p) \/ decrypt_pages_load(p) \/ decrypt_pages(p)
          PROVE  failed'
      BY <1>1, <3>2 DEF history, read2, read2_grab, read2_grabbed, decrypt_pages_load, decrypt_pages
    <3>3. ASSUME NEW p \in Procs,
                 \/ decrypt_pages_fails(p) \/ read2_out(p) \/ read2_copy(p) \/ read2_past_array(p)
                 \/ read2_end(p) \/ read2_return(p)
          PROVE  failed'
      BY <1>1, <3>3 DEF history, decrypt_pages_fails, read2_out, read2_copy, read2_past_array, read2_end,
                        read2_return
    <3>4. ASSUME NEW g \in Pages, reclaim(g) PROVE failed'
      BY <1>1, <3>4 DEF history, reclaim
    <3>5. CASE UNCHANGED fileVars
      BY <1>1, <3>5 DEF fileVars, history
    <3>. QED  BY <3>1, <3>2, <3>3, <3>4, <3>5 DEF FileNext
  <2>. QED  BY <2>1 DEF FileIInv
<1>2. CASE ~failed
  <2>1. FileKnown
    BY <1>2 DEF FileIInv
  <2>2. ASSUME NEW p \in Procs, NEW off \in WriteOffsets, NEW bytes \in WriteSizes, write2(p, off, bytes)
        PROVE  FileIInv'
    BY <2>1, <2>2, write2Keeps DEF FileIInv
  <2>3. ASSUME NEW p \in Procs, NEW off \in ReadOffsets, NEW bytes \in ReadSizes, read2(p, off, bytes)
        PROVE  FileIInv'
    BY <2>1, <2>3, read2Keeps DEF FileIInv
  <2>4. ASSUME NEW p \in Procs, encrypt_pages2_fails(p) \/ decrypt_pages_fails(p)
        PROVE  FileIInv'
    BY <2>4 DEF FileIInv, encrypt_pages2_fails, decrypt_pages_fails
  <2>5. ASSUME NEW p \in Procs, write2_page(p) PROVE FileIInv'
    BY <2>1, <2>5, write2_pageKeeps DEF FileIInv
  <2>6. ASSUME NEW p \in Procs, encrypt_pages2(p) PROVE FileIInv'
    BY <2>1, <2>6, encrypt_pages2Keeps DEF FileIInv
  <2>7. ASSUME NEW p \in Procs, encrypt_pages2_store(p) PROVE FileIInv'
    BY <2>1, <2>7, encrypt_pages2_storeKeeps DEF FileIInv
  <2>8. ASSUME NEW p \in Procs, write2_end(p) PROVE FileIInv'
    BY <2>1, <2>8, write2_endKeeps DEF FileIInv
  <2>9. ASSUME NEW p \in Procs, read2_grab(p) PROVE FileIInv'
    BY <2>1, <2>9, read2_grabKeeps DEF FileIInv
  <2>10. ASSUME NEW p \in Procs, read2_grabbed(p) PROVE FileIInv'
    BY <2>1, <2>10, read2_grabbedKeeps DEF FileIInv
  <2>11. ASSUME NEW p \in Procs, decrypt_pages_load(p) PROVE FileIInv'
    BY <2>1, <2>11, decrypt_pages_loadKeeps DEF FileIInv
  <2>12. ASSUME NEW p \in Procs, decrypt_pages(p) PROVE FileIInv'
    BY <2>1, <2>12, decrypt_pagesKeeps DEF FileIInv
  <2>13. ASSUME NEW p \in Procs, read2_out(p) PROVE FileIInv'
    BY <2>1, <2>13, read2_outKeeps
  <2>14. ASSUME NEW p \in Procs, read2_copy(p) PROVE FileIInv'
    BY <2>1, <2>14, read2_copyKeeps DEF FileIInv
  <2>15. ASSUME NEW p \in Procs, read2_past_array(p) PROVE FileIInv'
    BY <2>1, <2>15, read2_past_arrayKeeps DEF FileIInv
  <2>16. ASSUME NEW p \in Procs, read2_end(p) PROVE FileIInv'
    BY <2>1, <2>16, read2_endKeeps DEF FileIInv
  <2>17. ASSUME NEW p \in Procs, read2_return(p) PROVE FileIInv'
    BY <2>1, <2>17, read2_returnKeeps DEF FileIInv
  <2>18. ASSUME NEW g \in Pages, reclaim(g) PROVE FileIInv'
    BY <2>1, <2>18, reclaimKeeps DEF FileIInv
  <2>19. CASE UNCHANGED fileVars
    BY <2>1, <2>19, UnchangedKeeps DEF FileIInv
  <2>20. CASE FileNext
    BY <2>20, <2>2, <2>3, <2>4, <2>5, <2>6, <2>7, <2>8, <2>9, <2>10, <2>11, <2>12, <2>13, <2>14, <2>15,
       <2>16, <2>17, <2>18 DEF FileNext
  <2>. QED  BY <2>19, <2>20
<1>. QED  BY <1>1, <1>2

LEMMA KnownIsStored == FileIInv => PagesStored
<1>. SUFFICES ASSUME FileKnown, NEW g \in Pages \ UNION ({shared, spoiled} \cup {Touched(call[p]) : p \in Procs}),
                     NEW b \in InPage, file[At(g, b)] # "none"
              PROVE  lower[g] # NoPage /\ lower[g][b] = [Wrote(At(g, b)) EXCEPT !.layers = 1]
  BY DEF PagesStored, FileIInv
<1>1. g \in Pages \ (shared \cup spoiled) /\ ~Writing(g)
  BY DEF Writing
<1>2. StoredPage(g)
  BY <1>1 DEF FileKnown, Stored
<1>. QED  BY <1>2 DEF StoredPage

LEMMA KnownIsRead == FileIInv => ReadMatches
<1>. SUFFICES ASSUME FileIInv, NEW p \in Procs, call[p].pc = "read", ~failed,
                     Touched(call[p]) \cap (shared \cup spoiled) = {}, call[p].off < PageBytes,
                     PageOf(End(call[p]) - 1) < nr_pages(call[p].n), End(call[p]) <= call[p].fsz
              PROVE  /\ Len(call[p].got) = call[p].n
                     /\ \A k \in 1 .. call[p].n : call[p].got[k] = Wrote(call[p].off + k - 1)
  BY DEF ReadMatches
<1>1. Good(call[p]) /\ Reads(call[p]) /\ FileKnown
  BY DEF Good, Reads, FileIInv
<1>2. ReadKnown(p) /\ call[p] \in FileCall
  BY <1>1 DEF FileKnown, FileTyped
<1>3. /\ Len(call[p].got) = call[p].pos - call[p].off /\ call[p].pos = End(call[p])
      /\ \A k \in 1 .. Len(call[p].got) : call[p].got[k] = Wrote(call[p].off + k - 1)
  BY <1>1, <1>2 DEF ReadKnown
<1>4. call[p].off \in Nat /\ call[p].n \in Nat
  BY <1>2 DEF FileCall
<1>5. Len(call[p].got) = call[p].n
  BY <1>3, <1>4 DEF End
<1>. QED  BY <1>3, <1>5

(* Until a call fails, whatever the offsets and sizes of the calls: every  *)
(* page no write is on is stored as it was last written, a page in the     *)
(* cache is encrypted or not as its place in the call says, and a call has *)
(* written or read what it is past, after every step of ecryptfs_write2,   *)
(* ecryptfs_read2 and reclaim.  Not so for the pages two calls worked on   *)
(* at the same time, and those a write zeroed beyond its last byte or left *)
(* without a place in its array, until a write of the whole page.          *)
THEOREM FileIInvAlways == FileSpec => []FileIInv
<1>1. FileIInv /\ [FileNext]_fileVars => FileIInv'
  BY FileStepKeeps
<1>. QED  BY <1>1, FileInitKnown, PTL DEF FileSpec

(* For all numbers of processes and pages, and pages of every size: what   *)
(* ecryptfs_write2 wrote is in the lower file, encrypted exactly once, in  *)
(* every page that no other call was on at the same time.                  *)
THEOREM PagesAlwaysStored == FileSpec => []PagesStored
  BY FileIInvAlways, KnownIsStored, PTL

(* An ecryptfs_read2 that begins in the first page, and spans no more      *)
(* pages than its array, returns what was written last.                    *)
THEOREM ReadsAlwaysMatch == FileSpec => []ReadMatches
  BY FileIInvAlways, KnownIsRead, PTL

-----------------------------------------------------------------------------
(* The page cache of Linux 4.7: the size in the header.                    *)
SizeKnown == kind = "encrypted" /\ ~sizeLost => header = isize

(* A step that leaves the size alone, or stores it with StoreSize.         *)
LEMMA SizeStepKeeps ==
    ASSUME SizeKnown, kind' = kind,
           \/ UNCHANGED <<isize, header, sizeLost>>
           \/ StoreSize(isize')
           \/ kind = "plain"
    PROVE  SizeKnown'
  BY DEF SizeKnown, StoreSize

(* Whatever calls of write, truncate and write-back did, and failed at:    *)
(* between calls the header of an encrypted file has the size of the       *)
(* inode, unless ecryptfs_write_inode_size_to_metadata failed.             *)
THEOREM SizeAlwaysStored == PagesSpec => []SizeStored
<1>1. PagesInit => SizeKnown
  BY DEF PagesInit, SizeKnown
<1>2. ASSUME SizeKnown, [PagesNext]_pagesVars PROVE SizeKnown'
  <2>2. CASE \/ \E w \in WriteRanges : write_begin(w[1], w[2])
             \/ \E copied \in 0..op.n : write_copy(copied)
             \/ write_copy_short \/ write_end_fails
    BY <2>2, <1>2, SizeStepKeeps DEF write_begin, write_copy, write_copy_short, write_end_fails, rest
  <2>3. CASE write_end
    BY <2>3, <1>2, SizeStepKeeps DEF write_end, rest
  <2>4. CASE \E to \in Truncations : truncate(to) \/ truncate_plain(to)
    BY <2>4, <1>2, SizeStepKeeps DEF truncate, truncate_plain, rest
  <2>5. CASE grow_fill \/ grow_store \/ grow_fails
    BY <2>5, <1>2, SizeStepKeeps DEF grow_fill, grow_store, grow_fails, rest
  <2>6. CASE grow_end
    BY <2>6, <1>2, SizeStepKeeps DEF grow_end, rest
  <2>7. CASE truncate_setsize
    BY <2>7, <1>2, SizeStepKeeps DEF truncate_setsize, rest
  <2>8. CASE \E o \in Offsets : mapped_store(o)
    BY <2>8, <1>2, SizeStepKeeps DEF mapped_store
  <2>9. CASE \/ \E g \in Indices : writepage(g) \/ readpage(g) \/ reclaim_page(g)
             \/ writepage_end \/ writepage_fails
    BY <2>9, <1>2, SizeStepKeeps DEF writepage, readpage, reclaim_page, writepage_end, writepage_fails, rest
  <2>10. CASE reopen
    BY <2>10, <1>2 DEF reopen, rest, SizeKnown
  <2>11. CASE UNCHANGED pagesVars
    BY <2>11, <1>2, SizeStepKeeps DEF pagesVars
  <2>. QED  BY <1>2, <2>2, <2>3, <2>4, <2>5, <2>6, <2>7, <2>8, <2>9, <2>10, <2>11 DEF PagesNext
<1>3. SizeKnown => SizeStored
  BY DEF SizeKnown, SizeStored
<1>. QED  BY <1>1, <1>2, <1>3, PTL DEF PagesSpec

-----------------------------------------------------------------------------
(* The page cache of Linux 4.7: the bytes.                                 *)
FileBytes == PCount * PSize
PageData == [0..PSize - 1 -> Int]
PagesOp == [pc : {"idle", "begun", "end", "grow", "store", "setsize"}, off : Nat, n : Nat, pos : Nat,
            first : Nat, end : Nat, old : Nat, then : {"none", "write", "truncate", "shrink"},
            data : PageData, to : Nat]

PagesTyped ==
  /\ kind \in {"encrypted", "plain"} /\ isize \in 0..FileBytes /\ header \in 0..FileBytes
  /\ pages \in [Indices -> PageData] /\ uptodate \subseteq Indices /\ dirty \subseteq uptodate
  /\ held \subseteq Indices /\ below \in Seq(Int) /\ Len(below) <= FileBytes
  /\ op \in PagesOp /\ back \in [page : Int, data : PageData] /\ ops \in Nat /\ stores \in Nat
  /\ want \in [Offsets -> Nat \cup {Anything}]

(* The write holds the lock of its page.                                   *)
WriterHolds == /\ op.off < FileBytes /\ (op.off % PSize) + op.n <= PSize
               /\ Index(op.off) \in held /\ Index(op.off) # back.page
Growing == op.pc \in {"grow", "store"}

(* Where each call is.                                                     *)
PagesPlaces ==
  /\ op.pc = "idle" => op.then = "none"
  /\ op.pc \in {"begun", "end"} => WriterHolds /\ Start(Index(op.off)) <= isize
  /\ op.pc = "end" => op.off <= op.to /\ op.to <= op.off + op.n /\ Index(op.off) \in uptodate
  /\ Growing => /\ op.old = isize /\ op.pos <= op.end /\ op.then # "none"
                /\ op.then # "shrink" => /\ op.first = op.end - 1 /\ isize < op.end /\ isize <= op.pos
                                         /\ op.end <= FileBytes
                /\ op.then = "write" => WriterHolds /\ op.end = Start(Index(op.off))
                /\ op.then = "shrink" => op.pos \in {op.off, op.end} /\ op.first = op.off
  /\ op.pc = "store" => op.pos < op.end /\ (Index(op.pos) \in uptodate \/ Index(op.pos) \in raced)
  /\ op.pc = "setsize" => op.then = "shrink" /\ op.end <= isize
  /\ op.then = "shrink" => kind = "encrypted" /\ op.off < isize /\ op.end = Start(Index(op.off)) + PSize
  /\ back # NoBack => back.page \in held /\ kind = "encrypted"
  /\ kind = "plain" => Len(below) <= isize \/ (op.pc = "grow" /\ op.pos = op.end /\ Len(below) = op.end)

(* A byte of the lower file, and of its page in memory, in the call and    *)
(* in the write-back.                                                      *)
Below(o) == IF o < Len(below) THEN below[o + 1] ELSE NoOne
Cache(o) == pages[Index(o)][o % PSize]
OpByte(o) == op.data[o % PSize]
BackByte(o) == back.data[o % PSize]

(* A page is clean if it is neither dirty nor written back.                *)
OpHolds(g) == /\ g = Index(op.off)
              /\ op.pc \in {"begun", "end"} \/ (Growing /\ op.then = "write")
Clean(g) == g \notin dirty /\ (g \in held => OpHolds(g))

(* Bytes a write copied to the page, and bytes a truncation zeroed there,  *)
(* that are not stored yet.                                                *)
Copies(o) == op.pc = "end" /\ op.off <= o /\ o < op.to
Pending(o) == Copies(o) \/ (op.pc = "store" /\ op.then = "shrink" /\ op.pos <= o /\ o < op.end)

(* What a byte of the file's last page is: behind the end it is zero.      *)
Due(o) == IF o < isize \/ Copies(o) THEN want[o] ELSE 0
Sure(o) == /\ want[o] # Anything /\ Index(o) \notin raced
           /\ kind = "plain" => (o < isize /\ o \notin holes) \/ Copies(o)
SureBelow(o) == Sure(o) /\ Start(Index(o)) < isize
SureAbove(o) == Sure(o) /\ (Start(Index(o)) < isize \/ (op.pc = "end" /\ Index(o) = Index(op.off)))
Current == IF op.pc = "end" THEN Index(op.off) ELSE Index(op.pos)

CacheKnown(o) == Index(o) \in uptodate /\ SureAbove(o) => Cache(o) = Due(o)
BelowKnown(o) == SureBelow(o) /\ Clean(Index(o)) /\ ~Pending(o) => Below(o) = Due(o)
OpKnown(o) ==
  op.pc \in {"end", "store"} /\ Index(o) = Current /\ SureAbove(o) /\ Clean(Index(o)) => OpByte(o) = Due(o)
BackKnown(o) == back.page = Index(o) /\ SureBelow(o) /\ Index(o) \notin dirty => BackByte(o) = Due(o)

(* What ecryptfs_write filled, up to pos: zeros from the old end on, and   *)
(* all of a page that is behind it.                                        *)
Region(o, pos) == op.old <= o /\ (o < pos \/ (op.old <= Start(Index(o)) /\ Start(Index(o)) < pos))
FillEnd == IF op.pc = "store" THEN op.pos + Turn ELSE op.pos
FilledKnown(o) ==
  Growing /\ kind = "encrypted" /\ Index(o) \notin raced =>
    /\ Region(o, op.pos) => Below(o) = 0
    /\ Region(o, FillEnd) => /\ Index(o) \in uptodate => Cache(o) = 0
                             /\ back.page = Index(o) => BackByte(o) = 0
    /\ op.pc = "store" /\ Index(o) = Index(op.pos) /\ Region(o, FillEnd) => OpByte(o) = 0

ByteKnown(o) == CacheKnown(o) /\ BelowKnown(o) /\ OpKnown(o) /\ BackKnown(o) /\ FilledKnown(o)
PagesInv == PagesTyped /\ PagesPlaces /\ \A o \in Offsets : ByteKnown(o)

-----------------------------------------------------------------------------
LEMMA PagesConstants ==
    /\ PSize \in Nat \ {0} /\ PCount \in Nat /\ MaxOps \in Nat /\ MaxStores \in Nat
    /\ FileBytes \in Nat /\ Offsets = 0..FileBytes - 1
    /\ Kinds \subseteq {"encrypted", "plain"} /\ Truncations \subseteq 0..FileBytes
    /\ \A w \in WriteRanges : /\ w[1] \in Offsets /\ w[2] \in Nat \ {0}
                              /\ (w[1] % PSize) + w[2] <= PSize
<1>1. PSize \in Nat \ {0} /\ PCount \in Nat /\ PCount * PSize \in Nat
  BY EcryptfsPagesAssumption
<1>. QED  BY <1>1, EcryptfsPagesAssumption DEF FileBytes, Offsets

(* The place of a byte.                                                    *)
LEMMA ByteIndex ==
    ASSUME NEW o \in Nat
    PROVE  /\ Index(o) \in Nat /\ Start(Index(o)) \in Nat /\ o % PSize \in 0..PSize - 1
           /\ o = Start(Index(o)) + (o % PSize)
           /\ Start(Index(o)) <= o /\ o < Start(Index(o)) + PSize
           /\ o % PSize = 0 <=> Start(Index(o)) = o
<1>1. /\ o \div PSize \in Nat /\ o % PSize \in 0..PSize - 1
      /\ o % PSize = o - PSize * (o \div PSize)
      /\ PSize * (o \div PSize) <= o /\ o < PSize * (o \div PSize) + PSize
  BY PagesConstants, Division
<1>2. Start(Index(o)) = PSize * (o \div PSize) /\ Start(Index(o)) \in Nat
  BY <1>1, PagesConstants DEF Start, Index
<1>3. Index(o) \in Nat
  BY <1>1 DEF Index
<1>4. PSize \in Nat
  BY PagesConstants
<1>5. PICK m \in 0..PSize - 1 : m = o % PSize
  BY <1>1
<1>6. o = Start(Index(o)) + m /\ Start(Index(o)) <= o /\ o < Start(Index(o)) + PSize
  BY <1>1, <1>2, <1>4, <1>5
<1>7. m = 0 <=> Start(Index(o)) = o
  BY <1>6, <1>2, <1>4
<1>. QED  BY <1>2, <1>3, <1>5, <1>6, <1>7

LEMMA PageStart ==
    ASSUME NEW g \in Nat
    PROVE  /\ Start(g) \in Nat
           /\ \A o \in Nat : Start(g) <= o /\ o < Start(g) + PSize => Index(o) = g
           /\ Index(Start(g)) = g
           /\ \A h \in Nat : g < h => Start(g) + PSize <= Start(h)
<1>1. Start(g) \in Nat /\ Start(g) = PSize * g /\ PSize \in Nat \ {0}
  BY PagesConstants DEF Start
<1>2. ASSUME NEW o \in Nat, Start(g) <= o, o < Start(g) + PSize PROVE Index(o) = g
  BY <1>1, <1>2, Quotient DEF Index
<1>3. Index(Start(g)) = g
  BY <1>1, <1>2
<1>4. ASSUME NEW h \in Nat, g < h PROVE Start(g) + PSize <= Start(h)
  BY <1>1, <1>4, MonotoneStrict DEF Start
<1>. QED  BY <1>1, <1>2, <1>3, <1>4

(* Bytes of the file are on its pages.                                     *)
LEMMA IndexInFile ==
    ASSUME NEW o \in Nat
    PROVE  /\ o < FileBytes => Index(o) \in Indices /\ Start(Index(o)) + PSize <= FileBytes
           /\ Index(o) \in Indices => o < FileBytes /\ Start(Index(o)) + PSize <= FileBytes
<1>1. /\ Index(o) \in Nat /\ Start(Index(o)) <= o /\ o < Start(Index(o)) + PSize /\ Start(Index(o)) \in Nat
  BY ByteIndex
<1>2. FileBytes = Start(PCount) /\ PCount \in Nat /\ FileBytes \in Nat /\ PSize \in Nat \ {0}
  BY PagesConstants DEF FileBytes, Start
<1>3. ASSUME o < FileBytes PROVE Index(o) < PCount
  <2>1. CASE Index(o) = PCount
    BY <2>1, <1>1, <1>2, <1>3
  <2>2. CASE PCount < Index(o)
    <3>1. Start(PCount) + PSize <= Start(Index(o))
      BY <2>2, <1>1, <1>2, PageStart
    <3>. QED  BY <3>1, <1>1, <1>2, <1>3
  <2>. QED  BY <2>1, <2>2, <1>1, <1>2
<1>4. ASSUME Index(o) < PCount PROVE o < FileBytes /\ Start(Index(o)) + PSize <= FileBytes
  <2>1. Start(Index(o)) + PSize <= Start(PCount)
    BY <1>4, <1>1, <1>2, PageStart
  <2>. QED  BY <2>1, <1>1, <1>2
<1>5. Index(o) \in Indices <=> Index(o) < PCount
  BY <1>1, <1>2 DEF Indices
<1>. QED  BY <1>3, <1>4, <1>5

(* Pages in the order of their bytes.                                      *)
LEMMA IndexOrder ==
    ASSUME NEW o \in Nat, NEW u \in Nat
    PROVE  /\ Start(Index(o)) <= u /\ u < Start(Index(o)) + PSize <=> Index(u) = Index(o)
           /\ u < Start(Index(o)) => Start(Index(u)) + PSize <= Start(Index(o))
           /\ Start(Index(o)) = Start(Index(u)) => Index(o) = Index(u)
<1>1. /\ Index(o) \in Nat /\ Start(Index(o)) \in Nat /\ Start(Index(o)) <= o /\ o < Start(Index(o)) + PSize
      /\ Index(u) \in Nat /\ Start(Index(u)) \in Nat /\ Start(Index(u)) <= u /\ u < Start(Index(u)) + PSize
      /\ PSize \in Nat \ {0}
  BY ByteIndex, PagesConstants
<1>2. Start(Index(o)) <= u /\ u < Start(Index(o)) + PSize => Index(u) = Index(o)
  BY <1>1, PageStart
<1>3. Index(u) = Index(o) => Start(Index(o)) <= u /\ u < Start(Index(o)) + PSize
  BY <1>1
<1>4. ASSUME u < Start(Index(o)) PROVE Start(Index(u)) + PSize <= Start(Index(o))
  <2>1. Index(u) < Index(o)
    <3>1. CASE Index(u) = Index(o)
      BY <3>1, <1>1, <1>4
    <3>2. CASE Index(o) < Index(u)
      <4>1. Start(Index(o)) + PSize <= Start(Index(u))
        BY <3>2, <1>1, PageStart
      <4>. QED  BY <4>1, <1>1, <1>4
    <3>. QED  BY <3>1, <3>2, <1>1
  <2>. QED  BY <2>1, <1>1, PageStart
<1>5. Start(Index(o)) = Start(Index(u)) => Index(o) = Index(u)
  BY <1>1, <1>2
<1>. QED  BY <1>2, <1>3, <1>4, <1>5

LEMMA PageBytesOf ==
    ASSUME NEW g \in Indices
    PROVE  /\ g \in Nat /\ Start(g) \in Nat /\ Start(g) + PSize <= FileBytes
           /\ \A b \in 0..PSize - 1 : /\ Start(g) + b \in Offsets /\ Index(Start(g) + b) = g
                                      /\ (Start(g) + b) % PSize = b
<1>1. g \in Nat /\ PSize \in Nat \ {0} /\ Start(g) \in Nat /\ FileBytes \in Nat
  BY PagesConstants, PageStart DEF Indices
<1>2. Index(Start(g)) = g
  BY <1>1, PageStart
<1>3. Start(g) + PSize <= FileBytes
  BY <1>1, <1>2, IndexInFile
<1>4. ASSUME NEW b \in 0..PSize - 1
      PROVE  Start(g) + b \in Offsets /\ Index(Start(g) + b) = g /\ (Start(g) + b) % PSize = b
  <2>1. Start(g) + b \in Nat /\ Start(g) + b < Start(g) + PSize /\ Start(g) <= Start(g) + b
    BY <1>1
  <2>2. Index(Start(g) + b) = g
    BY <2>1, <1>1, PageStart
  <2>3. PICK u \in Nat : u = Start(g) + b
    BY <2>1
  <2>4. u = Start(Index(u)) + (u % PSize) /\ u % PSize \in 0..PSize - 1
    BY ByteIndex
  <2>5. PICK m \in 0..PSize - 1 : m = u % PSize
    BY <2>4
  <2>6. u = Start(g) + m
    BY <2>2, <2>3, <2>4, <2>5
  <2>7. m = b
    BY <2>3, <2>6, <1>1
  <2>8. Start(g) + b \in Offsets
    BY <2>1, <1>1, <1>3, PagesConstants
  <2>. QED  BY <2>2, <2>3, <2>5, <2>7, <2>8
<1>. QED  BY <1>1, <1>3, <1>4

(* Zeros in part of a page.                                                *)
LEMMA ZeroedPage ==
    ASSUME NEW page \in PageData, NEW from, NEW to
    PROVE  /\ Zeroed(page, from, to) \in PageData
           /\ \A b \in 0..PSize - 1 : Zeroed(page, from, to)[b] = IF b \in from..to - 1 THEN 0 ELSE page[b]
  BY DEF Zeroed, PageData

(* A page read from the lower file.                                        *)
LEMMA LowerPage ==
    ASSUME PagesTyped, NEW g \in Indices
    PROVE  /\ ReadLower(g) \in PageData
           /\ \A o \in Offsets : Index(o) = g => ReadLower(g)[o % PSize] = Below(o)
<1>1. /\ Start(g) \in Nat /\ below \in Seq(Int) /\ Len(below) \in Nat /\ NoOne \in Int /\ PSize \in Nat \ {0}
  BY PagesConstants, PageBytesOf DEF PagesTyped, NoOne
<1>2. ASSUME NEW b \in 0..PSize - 1
      PROVE  (IF Start(g) + b < Len(below) THEN below[Start(g) + b + 1] ELSE NoOne) \in Int
  <2>1. CASE Start(g) + b < Len(below)
    <3>1. Start(g) + b + 1 \in 1..Len(below)
      BY <2>1, <1>1
    <3>2. \A k \in 1..Len(below) : below[k] \in Int
      BY <1>1
    <3>. QED  BY <2>1, <3>1, <3>2
  <2>. QED  BY <2>1, <1>1
<1>3. ReadLower(g) \in PageData
  BY <1>2 DEF ReadLower, PageData
<1>4. ASSUME NEW o \in Offsets, Index(o) = g PROVE ReadLower(g)[o % PSize] = Below(o)
  <2>1. o % PSize \in 0..PSize - 1 /\ Start(g) + (o % PSize) = o
    BY <1>4, ByteIndex, PagesConstants
  <2>. QED  BY <2>1 DEF ReadLower, Below
<1>. QED  BY <1>3, <1>4

Filler == IF kind = "plain" THEN 0 ELSE NoOne

(* The lower file after a write of n bytes at off, and after a change of   *)
(* its size.                                                               *)
LEMMA LowerWritten ==
    ASSUME PagesTyped, NEW off \in Nat, NEW page \in PageData, NEW count \in 0..PSize,
           WriteLower(off, page, count)
    PROVE  /\ below' \in Seq(Int) /\ Len(below') = Greater(Len(below), IF count = 0 THEN 0 ELSE off + count)
           /\ \A o \in Nat : Below(o)' = IF off <= o /\ o < off + count THEN page[o - off]
                                         ELSE IF o < Len(below) THEN Below(o)
                                         ELSE IF o < Len(below') THEN Filler ELSE NoOne
<1>. DEFINE newLen == Greater(Len(below), IF count = 0 THEN 0 ELSE off + count)
            byte(j) == IF j \in off + 1..off + count THEN page[j - off - 1]
                       ELSE IF j <= Len(below) THEN below[j] ELSE Filler
<1>1. /\ below \in Seq(Int) /\ Len(below) \in Nat /\ Filler \in Int /\ NoOne \in Int /\ PSize \in Nat \ {0}
      /\ newLen \in Nat /\ (off + count <= newLen \/ count = 0)
  BY PagesConstants DEF PagesTyped, NoOne, Filler, Greater
<1>2. ASSUME NEW j \in 1..newLen PROVE Resized(j)[j] = IF j <= Len(below) THEN below[j] ELSE Filler
  BY <1>1 DEF Resized, Filler
<1>3. below' = [j \in 1..newLen |-> byte(j)]
  BY <1>2 DEF WriteLower
<1>4. ASSUME NEW j \in 1..newLen PROVE byte(j) \in Int
  <2>1. CASE j \in off + 1..off + count
    <3>1. j - off - 1 \in 0..PSize - 1
      BY <2>1, <1>1
    <3>. QED  BY <2>1, <3>1 DEF PageData
  <2>2. CASE j \notin off + 1..off + count
    <3>1. \A k \in 1..Len(below) : below[k] \in Int
      BY <1>1
    <3>. QED  BY <2>2, <3>1, <1>1
  <2>. QED  BY <2>1, <2>2
<1>. HIDE DEF newLen, byte
<1>5. below' \in Seq(Int) /\ Len(below') = newLen
  BY <1>1, <1>3, <1>4
<1>6. ASSUME NEW o \in Nat
      PROVE  Below(o)' = IF off <= o /\ o < off + count THEN page[o - off]
                         ELSE IF o < Len(below) THEN Below(o)
                         ELSE IF o < Len(below') THEN Filler ELSE NoOne
  <2>1. Below(o)' = IF o < newLen THEN byte(o + 1) ELSE NoOne
    <3>1. o < newLen => o + 1 \in 1..newLen
      BY <1>1
    <3>. QED  BY <3>1, <1>3, <1>5 DEF Below, NoOne
  <2>2. byte(o + 1) = IF off <= o /\ o < off + count THEN page[o - off]
                      ELSE IF o < Len(below) THEN below[o + 1] ELSE Filler
    <3>1. /\ o + 1 \in off + 1..off + count <=> off <= o /\ o < off + count
          /\ o + 1 - off - 1 = o - off /\ o + 1 <= Len(below) <=> o < Len(below)
      BY <1>1
    <3>. QED  BY <3>1 DEF byte
  <2>3. (off <= o /\ o < off + count => o < newLen) /\ (o < Len(below) => o < newLen)
    BY <1>1 DEF newLen, Greater
  <2>. QED  BY <2>1, <2>2, <2>3, <1>5 DEF Below
<1>. QED  BY <1>5, <1>6 DEF newLen

LEMMA LowerResized ==
    ASSUME PagesTyped, NEW count \in Nat, below' = Resized(count)
    PROVE  /\ below' \in Seq(Int) /\ Len(below') = count
           /\ \A o \in Nat : Below(o)' = IF o < count THEN IF o < Len(below) THEN Below(o) ELSE Filler ELSE NoOne
<1>1. below \in Seq(Int) /\ Len(below) \in Nat /\ Filler \in Int
  BY DEF PagesTyped, Filler, NoOne
<1>2. below' = [j \in 1..count |-> IF j <= Len(below) THEN below[j] ELSE Filler]
  BY DEF Resized, Filler
<1>3. ASSUME NEW j \in 1..count PROVE (IF j <= Len(below) THEN below[j] ELSE Filler) \in Int
  <2>1. \A k \in 1..Len(below) : below[k] \in Int
    BY <1>1
  <2>. QED  BY <2>1, <1>1
<1>4. below' \in Seq(Int) /\ Len(below') = count
  BY <1>2, <1>3
<1>5. ASSUME NEW o \in Nat
      PROVE  Below(o)' = IF o < count THEN IF o < Len(below) THEN Below(o) ELSE Filler ELSE NoOne
  <2>1. o < count => o + 1 \in 1..count /\ (o + 1 <= Len(below) <=> o < Len(below))
    BY <1>1
  <2>. QED  BY <2>1, <1>2, <1>4 DEF Below, NoOne
<1>. QED  BY <1>4, <1>5

LEMMA SetByte ==
    ASSUME NEW s, NEW v, NEW o \in Offsets
    PROVE  Set(s, v)[o] = IF o \in s THEN v ELSE want[o]
  BY DEF Set

LEMMA SetTyped ==
    ASSUME PagesTyped, NEW s, NEW v \in Nat \cup {Anything}
    PROVE  Set(s, v) \in [Offsets -> Nat \cup {Anything}]
  BY DEF Set, PagesTyped

(* The place of a byte of the file.                                        *)
LEMMA OffsetPlace ==
    ASSUME NEW o \in Offsets
    PROVE  /\ o \in Nat /\ o < FileBytes /\ Index(o) \in Nat /\ Index(o) \in Indices /\ PSize \in Nat \ {0}
           /\ Start(Index(o)) \in Nat /\ Start(Index(o)) <= o /\ o < Start(Index(o)) + PSize
           /\ o % PSize \in 0..PSize - 1 /\ o = Start(Index(o)) + (o % PSize)
<1>1. o \in Nat /\ o < FileBytes /\ PSize \in Nat \ {0}
  BY PagesConstants
<1>2. Index(o) \in Indices
  BY <1>1, IndexInFile
<1>. QED  BY <1>1, <1>2, ByteIndex

(* What the type says of a byte.                                           *)
LEMMA ByteTyped ==
    ASSUME PagesTyped, NEW o \in Offsets
    PROVE  /\ o \in Nat /\ o < FileBytes /\ Index(o) \in Indices /\ o % PSize \in 0..PSize - 1
           /\ Cache(o) \in Int /\ OpByte(o) \in Int /\ BackByte(o) \in Int /\ want[o] \in Nat \cup {Anything}
<1>1. o \in Nat /\ o < FileBytes
  BY PagesConstants
<1>0. Index(o) \in Indices /\ o % PSize \in 0..PSize - 1
  BY <1>1, ByteIndex, IndexInFile
<1>2. pages[Index(o)] \in PageData /\ op.data \in PageData /\ back.data \in PageData
  BY <1>0 DEF PagesTyped, PagesOp
<1>. QED  BY <1>0, <1>1, <1>2 DEF Cache, OpByte, BackByte, PageData, PagesTyped

-----------------------------------------------------------------------------
(* Two bytes of one page have different places in it.                      *)
LEMMA SamePlace ==
    ASSUME NEW o \in Nat, NEW u \in Nat, Index(o) = Index(u), o % PSize = u % PSize
    PROVE  o = u
<1>1. o = Start(Index(o)) + (o % PSize) /\ u = Start(Index(u)) + (u % PSize)
  BY ByteIndex
<1>. QED  BY <1>1

(* What the type says of the call and of the page that is written back.    *)
LEMMA OpTyped ==
    ASSUME PagesTyped
    PROVE  /\ op.off \in Nat /\ op.n \in Nat /\ op.pos \in Nat /\ op.first \in Nat /\ op.end \in Nat
           /\ op.old \in Nat /\ op.to \in Nat /\ op.data \in PageData
           /\ op.pc \in {"idle", "begun", "end", "grow", "store", "setsize"}
           /\ op.then \in {"none", "write", "truncate", "shrink"}
           /\ isize \in Nat /\ Len(below) \in Nat
  BY PagesConstants DEF PagesTyped, PagesOp

LEMMA BackPlace ==
    ASSUME PagesTyped, PagesPlaces, NEW g \in Nat, back.page = g
    PROVE  g \in held /\ kind = "encrypted" /\ back # NoBack /\ back.data \in PageData
<1>1. NoBack.page = -1
  BY DEF NoBack
<1>2. back # NoBack
  BY <1>1
<1>. QED  BY <1>2 DEF PagesPlaces, PagesTyped

(* A turn of ecryptfs_write stays within a page and within the call.       *)
LEMMA TurnBounds ==
    ASSUME PagesTyped, PagesPlaces, Growing, op.pos < op.end
    PROVE  /\ Turn \in Nat /\ Turn > 0 /\ op.pos + Turn <= op.end
           /\ op.pos + Turn <= Start(Index(op.pos)) + PSize
           /\ op.then # "shrink" => op.pos <= op.first
           /\ op.pos < op.first => op.pos + Turn <= op.first
           /\ op.pos >= op.first => op.pos + Turn = op.end \/ op.pos + Turn = Start(Index(op.pos)) + PSize
           /\ op.pos < FileBytes /\ Index(op.pos) \in Indices
<1>1. /\ op.pos \in Nat /\ op.first \in Nat /\ op.end \in Nat /\ op.off \in Nat
      /\ op.then \in {"none", "write", "truncate", "shrink"}
  BY OpTyped
<1>2. /\ Start(Index(op.pos)) \in Nat /\ Start(Index(op.pos)) <= op.pos
      /\ op.pos < Start(Index(op.pos)) + PSize /\ PSize \in Nat \ {0}
  BY <1>1, ByteIndex, PagesConstants
<1>3. op.pos < FileBytes
  <2>1. CASE op.then = "shrink"
    <3>1. op.pos = op.off /\ op.off < isize /\ isize \in 0..FileBytes
      BY <2>1, <1>1 DEF PagesPlaces, PagesTyped
    <3>. QED  BY <3>1, <1>1, PagesConstants
  <2>2. CASE op.then # "shrink"
    BY <2>2, <1>1, PagesConstants DEF PagesPlaces
  <2>. QED  BY <2>1, <2>2
<1>4. op.then # "shrink" => op.first = op.end - 1
  BY DEF PagesPlaces
<1>5. Index(op.pos) \in Indices
  BY <1>1, <1>3, IndexInFile
<1>6. PICK pageEnd \in Nat : pageEnd = Start(Index(op.pos)) + PSize
  BY <1>2
<1>7. CASE op.pos < op.first
  <2>1. Turn = (IF pageEnd < op.first THEN pageEnd ELSE op.first) - op.pos
    BY <1>6, <1>7 DEF Turn, Smaller
  <2>2. op.first <= op.end
    BY <1>1, <1>4, <1>7 DEF PagesPlaces
  <2>. QED  BY <1>1, <1>2, <1>3, <1>4, <1>5, <1>6, <1>7, <2>1, <2>2
<1>8. CASE ~(op.pos < op.first)
  <2>1. Turn = (IF pageEnd < op.end THEN pageEnd ELSE op.end) - op.pos
    BY <1>6, <1>8 DEF Turn, Smaller
  <2>. QED  BY <1>1, <1>2, <1>3, <1>4, <1>5, <1>6, <1>8, <2>1
<1>. QED  BY <1>7, <1>8

(* Bytes that are not stored yet are in the page the call works on.        *)
LEMMA PendingPlace ==
    ASSUME PagesTyped, PagesPlaces, NEW o \in Offsets
    PROVE  /\ Copies(o) => Index(o) = Index(op.off) /\ op.pc = "end"
           /\ Pending(o) /\ ~Copies(o) => Index(o) = Index(op.pos) /\ op.pc = "store"
<1>1. /\ op.off \in Nat /\ op.pos \in Nat /\ op.n \in Nat /\ op.to \in Nat /\ op.end \in Nat /\ o \in Nat
  BY OpTyped, PagesConstants
<1>2. /\ Start(Index(op.off)) <= op.off /\ Start(Index(op.off)) \in Nat /\ op.off % PSize \in 0..PSize - 1
      /\ op.off = Start(Index(op.off)) + (op.off % PSize) /\ PSize \in Nat
  BY <1>1, ByteIndex, PagesConstants
<1>3. ASSUME Copies(o) PROVE Index(o) = Index(op.off)
  <2>1. op.off <= o /\ o < op.to /\ op.to <= op.off + op.n /\ (op.off % PSize) + op.n <= PSize
    BY <1>3 DEF Copies, PagesPlaces, WriterHolds
  <2>2. PICK m \in 0..PSize - 1 : m = op.off % PSize
    BY <1>2
  <2>3. Start(Index(op.off)) <= o /\ o < Start(Index(op.off)) + PSize
    BY <2>1, <2>2, <1>1, <1>2
  <2>. QED  BY <2>3, <1>1, IndexOrder
<1>4. ASSUME Pending(o), ~Copies(o) PROVE Index(o) = Index(op.pos) /\ op.pc = "store"
  <2>1. /\ op.pc = "store" /\ op.then = "shrink" /\ op.pos <= o /\ o < op.end
        /\ op.pos = op.off /\ op.end = Start(Index(op.off)) + PSize
    BY <1>4, <1>1 DEF Pending, PagesPlaces, Growing
  <2>2. Start(Index(op.off)) <= o /\ o < Start(Index(op.off)) + PSize
    BY <2>1, <1>1, <1>2
  <2>. QED  BY <2>1, <2>2, <1>1, IndexOrder
<1>. QED  BY <1>3, <1>4 DEF Copies

(* What a turn adds to the region is in its page.                          *)
LEMMA RegionTurn ==
    ASSUME PagesTyped, PagesPlaces, Growing, op.pos < op.end, NEW o \in Offsets,
           Region(o, op.pos + Turn), Index(o) # Index(op.pos)
    PROVE  Region(o, op.pos)
<1>1. op.pos \in Nat /\ op.old \in Nat /\ o \in Nat /\ PSize \in Nat
  BY OpTyped, PagesConstants
<1>2. /\ Turn \in Nat /\ op.pos + Turn <= Start(Index(op.pos)) + PSize
  BY TurnBounds
<1>3. /\ Start(Index(o)) \in Nat /\ Start(Index(op.pos)) \in Nat /\ Start(Index(op.pos)) <= op.pos
      /\ Start(Index(o)) <= o /\ o < Start(Index(o)) + PSize /\ op.pos < Start(Index(op.pos)) + PSize
  BY <1>1, ByteIndex
<1>4. op.pos < Start(Index(o)) \/ o < Start(Index(op.pos))
  <2>1. ~(Start(Index(o)) <= op.pos /\ op.pos < Start(Index(o)) + PSize)
    BY <1>1, IndexOrder
  <2>2. ~(Start(Index(op.pos)) <= o /\ o < Start(Index(op.pos)) + PSize)
    BY <1>1, IndexOrder
  <2>. QED  BY <2>1, <2>2, <1>1, <1>3
<1>5. op.pos < Start(Index(o)) => Start(Index(op.pos)) + PSize <= Start(Index(o))
  BY <1>1, IndexOrder
<1>. QED  BY <1>1, <1>2, <1>3, <1>4, <1>5 DEF Region

LEMMA mapped_storeKeeps ==
    ASSUME PagesInv, NEW x \in Offsets, mapped_store(x)
    PROVE  PagesInv'
<1>1. PagesTyped /\ PagesPlaces /\ x \in Nat /\ Index(x) \in Indices /\ x % PSize \in 0..PSize - 1
  BY ByteTyped DEF PagesInv
<1>2. PICK v \in Nat : v = MaxOps + stores'
  BY <1>1, PagesConstants DEF mapped_store, PagesTyped
<1>3. pages' = [pages EXCEPT ![Index(x)][x % PSize] = v] /\ pages' \in [Indices -> PageData]
  BY <1>1, <1>2 DEF mapped_store, PagesTyped, PageData
<1>4. PagesTyped'
  <2>1. want' \in [Offsets -> Nat \cup {Anything}]
    BY <1>1, <1>2, SetTyped DEF mapped_store
  <2>2. /\ stores' \in Nat /\ dirty' \subseteq uptodate
        /\ UNCHANGED <<kind, back, isize, header, uptodate, held, below, op, ops>>
    BY <1>1 DEF mapped_store, PagesTyped
  <2>. QED  BY <1>1, <1>3, <2>1, <2>2 DEF PagesTyped
<1>5. PagesPlaces'
  BY <1>1 DEF mapped_store, PagesPlaces, WriterHolds, Growing
<1>6. ASSUME NEW o \in Offsets PROVE ByteKnown(o)'
  <2>1. /\ o \in Nat /\ Index(o) \in Indices /\ o % PSize \in 0..PSize - 1 /\ ByteKnown(o)
        /\ Start(Index(o)) <= o
    BY <1>1, ByteTyped, ByteIndex DEF PagesInv
  <2>2. want'[o] = IF o = x THEN v ELSE want[o]
    BY <1>2, SetByte DEF mapped_store
  <2>3. Cache(o)' = IF o = x THEN v ELSE Cache(o)
    <3>1. o = x <=> Index(o) = Index(x) /\ o % PSize = x % PSize
      BY <1>1, <2>1, SamePlace
    <3>. QED  BY <1>1, <1>3, <2>1, <3>1 DEF Cache, PagesTyped, PageData
  <2>4. /\ UNCHANGED <<kind, back, isize, uptodate, held, below, op, raced>>
        /\ x < isize /\ dirty' = dirty \cup {Index(x)} /\ holes' = holes \ {x}
    BY DEF mapped_store
  <2>5. Below(o)' = Below(o) /\ OpByte(o)' = OpByte(o) /\ BackByte(o)' = BackByte(o)
    BY <2>4 DEF Below, OpByte, BackByte
  <2>6. Start(Index(o)) \in Nat /\ v # Anything
    BY <2>1, ByteIndex DEF Anything
  <2>7. CacheKnown(o)'
    BY <2>1, <2>2, <2>3, <2>4, <2>5, <2>6, <1>1
       DEF ByteKnown, CacheKnown, SureAbove, Sure, Due, Copies, PagesPlaces, PagesTyped
  <2>8. BelowKnown(o)' /\ OpKnown(o)' /\ BackKnown(o)'
    BY <2>1, <2>2, <2>3, <2>4, <2>5, <2>6, <1>1
       DEF ByteKnown, BelowKnown, OpKnown, BackKnown, SureAbove, SureBelow, Sure, Due, Copies, Pending, Clean,
           OpHolds, Growing, Current, PagesTyped
  <2>9. FilledKnown(o)'
    BY <2>1, <2>2, <2>3, <2>4, <2>5, <2>6, <1>1
       DEF ByteKnown, FilledKnown, Region, FillEnd, Turn, Growing, PagesPlaces, PagesTyped, PagesOp
  <2>. QED  BY <2>7, <2>8, <2>9 DEF ByteKnown
<1>. QED  BY <1>4, <1>5, <1>6 DEF PagesInv

-----------------------------------------------------------------------------
(* A page that gets new contents.                                          *)
LEMMA PageChanged ==
    ASSUME PagesTyped, NEW g \in Indices, NEW page \in PageData, pages' = [pages EXCEPT ![g] = page]
    PROVE  /\ pages' \in [Indices -> PageData]
           /\ \A o \in Offsets : Cache(o)' = IF Index(o) = g THEN page[o % PSize] ELSE Cache(o)
<1>1. pages' \in [Indices -> PageData] /\ pages \in [Indices -> PageData]
  BY DEF PagesTyped
<1>2. ASSUME NEW o \in Offsets PROVE Cache(o)' = IF Index(o) = g THEN page[o % PSize] ELSE Cache(o)
  <2>1. Index(o) \in Indices
    BY ByteTyped
  <2>. QED  BY <1>1, <2>1 DEF Cache
<1>. QED  BY <1>1, <1>2

LEMMA UninitialisedPage == Uninitialised \in PageData
  BY DEF Uninitialised, PageData, NoOne

(* An encrypted page in the lower file.                                    *)
LEMMA LowerPageWritten ==
    ASSUME PagesTyped, kind = "encrypted", NEW g \in Indices, NEW page \in PageData,
           WriteLower(Start(g), page, PSize)
    PROVE  /\ below' \in Seq(Int) /\ Len(below') <= FileBytes
           /\ \A o \in Offsets : Below(o)' = IF Index(o) = g THEN page[o % PSize] ELSE Below(o)
<1>1. Start(g) \in Nat /\ Start(g) + PSize <= FileBytes /\ PSize \in Nat \ {0} /\ PSize \in 0..PSize
  BY PageBytesOf, PagesConstants
<1>2. /\ below' \in Seq(Int) /\ Len(below') = Greater(Len(below), Start(g) + PSize)
      /\ \A o \in Nat : Below(o)' = IF Start(g) <= o /\ o < Start(g) + PSize THEN page[o - Start(g)]
                                    ELSE IF o < Len(below) THEN Below(o)
                                    ELSE IF o < Len(below') THEN Filler ELSE NoOne
  BY <1>1, LowerWritten
<1>3. Len(below') <= FileBytes
  BY <1>1, <1>2, PagesConstants DEF Greater, PagesTyped
<1>4. ASSUME NEW o \in Offsets PROVE Below(o)' = IF Index(o) = g THEN page[o % PSize] ELSE Below(o)
  <2>1. o \in Nat /\ g \in Nat
    BY PagesConstants, PageBytesOf
  <2>2. PICK m \in 0..PSize - 1 : m = o % PSize
    BY <2>1, ByteIndex
  <2>3. o = Start(Index(o)) + m
    BY <2>1, <2>2, ByteIndex
  <2>4. CASE Index(o) = g
    <3>1. Start(g) <= o /\ o < Start(g) + PSize /\ o - Start(g) = m
      BY <2>1, <2>3, <2>4, <1>1
    <3>. QED  BY <3>1, <2>1, <2>2, <2>4, <1>2
  <2>5. CASE Index(o) # g
    <3>1. ~(Start(g) <= o /\ o < Start(g) + PSize)
      BY <2>1, <2>5, PageStart
    <3>2. Filler = NoOne
      BY DEF Filler
    <3>. QED  BY <3>1, <3>2, <2>1, <2>5, <1>2 DEF Below
  <2>. QED  BY <2>4, <2>5
<1>. QED  BY <1>2, <1>3, <1>4

LEMMA writepageKeeps ==
    ASSUME PagesInv, NEW g \in Indices, writepage(g)
    PROVE  PagesInv'
<1>1. PagesTyped /\ PagesPlaces /\ g \in Nat /\ pages[g] \in PageData
  BY PageBytesOf DEF PagesInv, PagesTyped
<1>2. /\ UNCHANGED <<kind, isize, header, pages, uptodate, below, op, ops, stores, want, holes, raced>>
      /\ dirty' = dirty \ {g} /\ held' = held \cup {g} /\ g \in dirty /\ g \notin held /\ back = NoBack
      /\ IF kind = "plain" THEN back' = back ELSE back' = [page |-> g, data |-> pages[g]]
      /\ g \in uptodate
  BY <1>1 DEF writepage, PagesTyped
<1>3. kind = "plain" \/ (kind = "encrypted" /\ back'.page = g /\ back'.data = pages[g])
  BY <1>1, <1>2 DEF PagesTyped
<1>4. PagesTyped'
  <2>1. back' \in [page : Int, data : PageData]
    BY <1>1, <1>2 DEF PagesTyped
  <2>2. dirty' \subseteq uptodate' /\ held' \subseteq Indices
    BY <1>1, <1>2 DEF PagesTyped
  <2>3. UNCHANGED <<kind, isize, header, pages, uptodate, below, op, ops, stores, want>>
    BY <1>2
  <2>. QED  BY <1>1, <2>1, <2>2, <2>3 DEF PagesTyped
<1>5. PagesPlaces'
  BY <1>1, <1>2, <1>3 DEF PagesPlaces, WriterHolds, Growing, PagesTyped
<1>6. back.page # g /\ \A o \in Offsets : back.page # Index(o)
  <2>1. back.page = -1
    BY <1>2 DEF NoBack
  <2>2. ASSUME NEW o \in Offsets PROVE Index(o) \in Nat
    <3>1. o \in Nat
      BY PagesConstants
    <3>. QED  BY <3>1, ByteIndex
  <2>3. g \in Nat
    BY <1>1
  <2>. QED  BY <2>1, <2>2, <2>3
<1>7. ~OpHolds(g)
  BY <1>1, <1>2 DEF OpHolds, PagesPlaces, WriterHolds, Growing
<1>8. ASSUME NEW o \in Offsets PROVE ByteKnown(o)'
  <2>1. /\ o \in Nat /\ Index(o) \in Indices /\ ByteKnown(o)
    BY <1>1, ByteTyped DEF PagesInv
  <2>2. Cache(o)' = Cache(o) /\ Below(o)' = Below(o) /\ OpByte(o)' = OpByte(o)
    BY <1>2 DEF Cache, Below, OpByte
  <2>3. kind = "encrypted" => BackByte(o)' = IF Index(o) = g THEN Cache(o) ELSE BackByte(o)'
    BY <1>3 DEF BackByte, Cache
  <2>4. CacheKnown(o)' /\ BelowKnown(o)' /\ OpKnown(o)'
    BY <1>2, <1>7, <2>1, <2>2
       DEF ByteKnown, CacheKnown, BelowKnown, OpKnown, SureAbove, SureBelow, Sure, Due, Copies, Pending,
           Clean, OpHolds, Growing, Current
  <2>5. BackKnown(o)' /\ FilledKnown(o)'
    BY <1>2, <1>3, <1>6, <2>1, <2>2, <2>3
       DEF ByteKnown, CacheKnown, BackKnown, FilledKnown, SureAbove, SureBelow, Sure, Due, Copies, Region, FillEnd,
           Growing, Turn
  <2>. QED  BY <2>4, <2>5 DEF ByteKnown
<1>. QED  BY <1>4, <1>5, <1>8 DEF PagesInv

LEMMA writepage_endKeeps ==
    ASSUME PagesInv, writepage_end
    PROVE  PagesInv'
<1>1. PagesTyped /\ PagesPlaces
  BY DEF PagesInv
<1>2. PICK g \in Indices : g = back.page
  BY <1>1 DEF writepage_end, PagesPlaces, PagesTyped
<1>3. /\ UNCHANGED <<kind, isize, header, pages, uptodate, dirty, op, ops, stores, want, holes>>
      /\ held' = held \ {g} /\ back' = NoBack /\ back # NoBack
      /\ raced' = IF op.pc = "store" /\ Index(op.pos) = g THEN raced \cup {g} ELSE raced
      /\ WriteLower(Start(g), back.data, PSize) /\ kind = "encrypted" /\ g \in held /\ back.data \in PageData
  BY <1>1, <1>2 DEF writepage_end, Races, PagesPlaces, PagesTyped
<1>4. NoBack.page = -1 /\ NoBack \in [page : Int, data : PageData]
  BY UninitialisedPage DEF NoBack
<1>5. /\ below' \in Seq(Int) /\ Len(below') <= FileBytes
      /\ \A o \in Offsets : Below(o)' = IF Index(o) = g THEN back.data[o % PSize] ELSE Below(o)
  BY <1>1, <1>3, LowerPageWritten
<1>6. PagesTyped'
  <2>1. held' \subseteq Indices
    BY <1>1, <1>3 DEF PagesTyped
  <2>. QED  BY <1>1, <1>3, <1>4, <1>5, <2>1 DEF PagesTyped
<1>7. op.off \in Nat /\ Index(op.off) \in Nat
  BY <1>1, OpTyped, ByteIndex
<1>8. PagesPlaces'
  BY <1>1, <1>2, <1>3, <1>4, <1>7 DEF PagesPlaces, WriterHolds, Growing
<1>9. ~OpHolds(g)
  BY <1>1, <1>2 DEF OpHolds, PagesPlaces, WriterHolds, Growing
<1>10. ASSUME NEW o \in Offsets PROVE ByteKnown(o)'
  <2>1. /\ o \in Nat /\ Index(o) \in Indices /\ Index(o) \in Nat /\ ByteKnown(o)
    BY <1>1, ByteTyped, ByteIndex DEF PagesInv
  <2>2. Cache(o)' = Cache(o) /\ OpByte(o)' = OpByte(o) /\ back'.page # Index(o)
    BY <1>3, <1>4, <2>1 DEF Cache, OpByte
  <2>3. Below(o)' = IF Index(o) = g THEN BackByte(o) ELSE Below(o)
    BY <1>5 DEF BackByte
  <2>4. CacheKnown(o)' /\ BackKnown(o)'
    BY <1>3, <2>1, <2>2
       DEF ByteKnown, CacheKnown, BackKnown, SureAbove, SureBelow, Sure, Due, Copies
  <2>5. BelowKnown(o)'
    BY <1>2, <1>3, <1>9, <2>1, <2>3
       DEF ByteKnown, BelowKnown, BackKnown, SureBelow, Sure, Due, Copies, Pending, Clean, OpHolds, Growing
  <2>6. OpKnown(o)'
    BY <1>1, <1>2, <1>3, <1>9, <2>1, <2>2
       DEF ByteKnown, OpKnown, SureAbove, Sure, Due, Copies, Clean, OpHolds, Growing, Current, PagesPlaces, WriterHolds
  <2>7. FilledKnown(o)'
    <3>1. ASSUME Region(o, op.pos), Growing, Index(o) \notin raced PROVE Region(o, FillEnd)
      <4>1. op.pc = "store" => Turn \in Nat
        BY <1>1, <3>1, TurnBounds DEF PagesPlaces
      <4>2. op.pos \in Nat /\ op.old \in Nat /\ Start(Index(o)) \in Nat
        BY <1>1, OpTyped, <2>1, ByteIndex
      <4>. QED  BY <3>1, <4>1, <4>2, <2>1 DEF Region, FillEnd
    <3>2. FillEnd' = FillEnd /\ Growing' = Growing
      BY <1>3 DEF FillEnd, Turn, Growing
    <3>. QED  BY <1>2, <1>3, <2>1, <2>2, <2>3, <3>1, <3>2 DEF ByteKnown, FilledKnown, Region
  <2>. QED  BY <2>4, <2>5, <2>6, <2>7 DEF ByteKnown
<1>. QED  BY <1>6, <1>8, <1>10 DEF PagesInv

LEMMA writepage_failsKeeps ==
    ASSUME PagesInv, writepage_fails
    PROVE  PagesInv'
<1>1. PagesTyped /\ PagesPlaces
  BY DEF PagesInv
<1>2. PICK g \in Indices : g = back.page
  BY <1>1 DEF writepage_fails, PagesPlaces, PagesTyped
<1>3. /\ UNCHANGED <<kind, isize, header, below, op, ops, stores, holes>>
      /\ held' = held \ {g} /\ back' = NoBack /\ back # NoBack
      /\ pages' = [pages EXCEPT ![g] = Uninitialised]
      /\ uptodate' = uptodate \ {g} /\ dirty' = dirty \ {g}
      /\ want' = Set(InFile(g), Anything)
      /\ raced' = IF op.pc = "store" /\ Index(op.pos) = g THEN raced \cup {g} ELSE raced
      /\ kind = "encrypted" /\ g \in held
  BY <1>1, <1>2 DEF writepage_fails, Races, PagesPlaces, PagesTyped
<1>4. NoBack.page = -1 /\ NoBack \in [page : Int, data : PageData]
  BY UninitialisedPage DEF NoBack
<1>5. /\ pages' \in [Indices -> PageData]
      /\ \A o \in Offsets : Index(o) # g => Cache(o)' = Cache(o)
  BY <1>1, <1>3, PageChanged, UninitialisedPage
<1>6. PagesTyped'
  <2>1. held' \subseteq Indices /\ uptodate' \subseteq Indices /\ dirty' \subseteq uptodate'
    BY <1>1, <1>3 DEF PagesTyped
  <2>2. want' \in [Offsets -> Nat \cup {Anything}]
    BY <1>1, <1>3, SetTyped
  <2>. QED  BY <1>1, <1>3, <1>4, <1>5, <2>1, <2>2 DEF PagesTyped
<1>7. op.off \in Nat /\ Index(op.off) \in Nat
  BY <1>1, OpTyped, ByteIndex
<1>8. PagesPlaces'
  BY <1>1, <1>2, <1>3, <1>4, <1>7 DEF PagesPlaces, WriterHolds, Growing
<1>9. ASSUME NEW o \in Offsets PROVE ByteKnown(o)'
  <2>1. /\ o \in Nat /\ Index(o) \in Indices /\ Index(o) \in Nat /\ ByteKnown(o)
    BY <1>1, ByteTyped, ByteIndex DEF PagesInv
  <2>2. Index(o) = g => want'[o] = Anything
    <3>1. Index(o) = g => o \in InFile(g)
      <4>1. /\ Start(Index(o)) \in Nat /\ Start(Index(o)) <= o /\ o < Start(Index(o)) + PSize
            /\ PSize \in Nat
        BY <2>1, ByteIndex, PagesConstants
      <4>. QED  BY <4>1, <2>1 DEF InFile
    <3>. QED  BY <3>1, <1>3, SetByte
  <2>3. Index(o) # g => want'[o] = want[o]
    <3>1. Index(o) # g => o \notin InFile(g)
      <4>1. g \in Nat /\ Start(g) \in Nat /\ PSize \in Nat
        BY PageBytesOf, PagesConstants
      <4>2. ASSUME o \in InFile(g) PROVE Index(o) = g
        BY <4>1, <4>2, <2>1, PageStart DEF InFile
      <4>. QED  BY <4>2
    <3>. QED  BY <3>1, <1>3, SetByte
  <2>4. Below(o)' = Below(o) /\ OpByte(o)' = OpByte(o) /\ back'.page # Index(o)
    BY <1>3, <1>4, <2>1 DEF Below, OpByte
  <2>5. CacheKnown(o)' /\ BelowKnown(o)' /\ OpKnown(o)' /\ BackKnown(o)'
    BY <1>3, <1>5, <2>1, <2>2, <2>3, <2>4
       DEF ByteKnown, CacheKnown, BelowKnown, OpKnown, BackKnown, SureAbove, SureBelow, Sure, Due, Copies, Pending,
           Clean, OpHolds, Growing, Current
  <2>6. FilledKnown(o)'
    <3>1. FillEnd' = FillEnd /\ Growing' = Growing
      BY <1>3 DEF FillEnd, Turn, Growing
    <3>. QED  BY <1>3, <1>5, <2>1, <2>4, <3>1 DEF ByteKnown, FilledKnown, Region
  <2>. QED  BY <2>5, <2>6 DEF ByteKnown
<1>. QED  BY <1>6, <1>8, <1>9 DEF PagesInv

(* A page that is read has the bytes of the file, and the zeros of         *)
(* ecryptfs_write, if it is clean.                                         *)
LEMMA readpageKeeps ==
    ASSUME PagesInv, NEW g \in Indices, readpage(g)
    PROVE  PagesInv'
<1>1. PagesTyped /\ PagesPlaces
  BY DEF PagesInv
<1>2. /\ UNCHANGED <<kind, back, isize, header, dirty, held, below, op, ops, stores, want, holes, raced>>
      /\ pages' = [pages EXCEPT ![g] = ReadLower(g)] /\ uptodate' = uptodate \cup {g}
      /\ g \notin held /\ g \notin uptodate /\ Start(g) < isize
  BY DEF readpage, rest
<1>3. /\ pages' \in [Indices -> PageData]
      /\ \A o \in Offsets : Cache(o)' = IF Index(o) = g THEN Below(o) ELSE Cache(o)
  BY <1>1, <1>2, PageChanged, LowerPage
<1>4. PagesTyped'
  BY <1>1, <1>2, <1>3 DEF PagesTyped
<1>5. PagesPlaces'
  BY <1>1, <1>2 DEF PagesPlaces, WriterHolds, Growing
<1>6. g \notin dirty
  BY <1>1, <1>2 DEF PagesTyped
<1>7. ASSUME NEW o \in Offsets PROVE ByteKnown(o)'
  <2>1. /\ o \in Nat /\ Index(o) \in Indices /\ Index(o) \in Nat /\ ByteKnown(o)
    BY <1>1, ByteTyped, ByteIndex DEF PagesInv
  <2>2. Below(o)' = Below(o) /\ OpByte(o)' = OpByte(o) /\ BackByte(o)' = BackByte(o)
    BY <1>2 DEF Below, OpByte, BackByte
  <2>3. back.page = Index(o) => Index(o) \in held
    BY <1>1, <2>1, BackPlace
  <2>4. CacheKnown(o)'
    <3>1. CASE Index(o) = g
      <4>1. Pending(o) => g \in raced
        BY <1>1, <1>2, <3>1, PendingPlace DEF PagesPlaces
      <4>2. SureAbove(o) => SureBelow(o)
        BY <1>2, <3>1 DEF SureAbove, SureBelow
      <4>. QED  BY <1>2, <1>3, <1>6, <2>1, <2>2, <3>1, <4>1, <4>2
                DEF ByteKnown, CacheKnown, BelowKnown, SureAbove, SureBelow, Sure, Due, Copies, Clean
    <3>2. CASE Index(o) # g
      BY <1>2, <1>3, <2>1, <3>2 DEF ByteKnown, CacheKnown, SureAbove, Sure, Due, Copies
    <3>. QED  BY <3>1, <3>2
  <2>5. BelowKnown(o)' /\ OpKnown(o)' /\ BackKnown(o)'
    BY <1>2, <2>1, <2>2
       DEF ByteKnown, BelowKnown, OpKnown, BackKnown, SureAbove, SureBelow, Sure, Due, Copies, Pending,
           Clean, OpHolds, Growing, Current
  <2>6. FilledKnown(o)'
    <3>1. FillEnd' = FillEnd /\ Growing' = Growing
      BY <1>2 DEF FillEnd, Turn, Growing
    <3>2. ASSUME Growing, Index(o) = g, g \notin raced, Region(o, FillEnd) PROVE Region(o, op.pos)
      <4>1. CASE op.pc = "store"
        BY <1>1, <1>2, <3>2, <4>1, RegionTurn DEF FillEnd, PagesPlaces
      <4>2. CASE op.pc # "store"
        BY <3>2, <4>2 DEF FillEnd
      <4>. QED  BY <4>1, <4>2
    <3>. QED  BY <1>2, <1>3, <2>1, <2>2, <2>3, <3>1, <3>2 DEF ByteKnown, FilledKnown, Region
  <2>. QED  BY <2>4, <2>5, <2>6 DEF ByteKnown
<1>. QED  BY <1>4, <1>5, <1>7 DEF PagesInv

LEMMA reclaim_pageKeeps ==
    ASSUME PagesInv, NEW g \in Indices, reclaim_page(g)
    PROVE  PagesInv'
<1>1. PagesTyped /\ PagesPlaces
  BY DEF PagesInv
<1>2. /\ UNCHANGED <<kind, back, isize, header, dirty, held, below, op, ops, stores, want, holes, raced>>
      /\ pages' = [pages EXCEPT ![g] = Uninitialised] /\ uptodate' = uptodate \ {g}
      /\ g \notin held /\ g \notin dirty /\ ~(op.pc = "store" /\ Index(op.pos) = g)
  BY DEF reclaim_page, Referenced, rest
<1>3. /\ pages' \in [Indices -> PageData]
      /\ \A o \in Offsets : Index(o) # g => Cache(o)' = Cache(o)
  BY <1>1, <1>2, PageChanged, UninitialisedPage
<1>4. PagesTyped'
  <2>1. uptodate' \subseteq Indices /\ dirty' \subseteq uptodate'
    BY <1>1, <1>2 DEF PagesTyped
  <2>. QED  BY <1>1, <1>2, <1>3, <2>1 DEF PagesTyped
<1>5. PagesPlaces'
  BY <1>1, <1>2 DEF PagesPlaces, WriterHolds, Growing
<1>6. ASSUME NEW o \in Offsets PROVE ByteKnown(o)'
  <2>1. ByteKnown(o)
    BY DEF PagesInv
  <2>2. Below(o)' = Below(o) /\ OpByte(o)' = OpByte(o) /\ BackByte(o)' = BackByte(o)
    BY <1>2 DEF Below, OpByte, BackByte
  <2>3. CacheKnown(o)' /\ BelowKnown(o)' /\ OpKnown(o)' /\ BackKnown(o)'
    BY <1>2, <1>3, <2>1, <2>2
       DEF ByteKnown, CacheKnown, BelowKnown, OpKnown, BackKnown, SureAbove, SureBelow, Sure, Due, Copies, Pending,
           Clean, OpHolds, Growing, Current
  <2>4. FilledKnown(o)'
    <3>1. FillEnd' = FillEnd /\ Growing' = Growing
      BY <1>2 DEF FillEnd, Turn, Growing
    <3>. QED  BY <1>2, <1>3, <2>1, <2>2, <3>1 DEF ByteKnown, FilledKnown, Region
  <2>. QED  BY <2>3, <2>4 DEF ByteKnown
<1>. QED  BY <1>4, <1>5, <1>6 DEF PagesInv

(* Behind the smaller of the old and the new size nothing is known.        *)
LEMMA reopenKeeps ==
    ASSUME PagesInv, reopen
    PROVE  PagesInv'
<1>1. PagesTyped /\ PagesPlaces
  BY DEF PagesInv
<1>2. /\ UNCHANGED <<kind, back, header, dirty, held, below, op, ops, stores, holes, raced>>
      /\ op.pc = "idle" /\ dirty = {} /\ held = {} /\ uptodate' = {}
      /\ isize' = (IF kind = "plain" THEN Len(below) ELSE header)
      /\ pages' = [g \in Indices |-> Uninitialised]
      /\ want' = Set({o \in Offsets : o >= Smaller(isize, isize')}, Anything)
  BY DEF reopen, rest
<1>3. PagesTyped'
  <2>1. isize' \in 0..FileBytes
    BY <1>1, <1>2, OpTyped DEF PagesTyped
  <2>2. pages' \in [Indices -> PageData]
    BY <1>2, UninitialisedPage
  <2>3. want' \in [Offsets -> Nat \cup {Anything}]
    BY <1>1, <1>2, SetTyped
  <2>4. UNCHANGED <<kind, back, header, dirty, held, below, op, ops, stores>> /\ uptodate' = {} /\ dirty = {}
    BY <1>2
  <2>. QED  BY <1>1, <2>1, <2>2, <2>3, <2>4 DEF PagesTyped
<1>4. op.then = "none" /\ back = NoBack
  BY <1>1, <1>2 DEF PagesPlaces
<1>5. PagesPlaces'
  BY <1>1, <1>2, <1>4, OpTyped DEF PagesPlaces, WriterHolds, Growing
<1>6. ASSUME NEW o \in Offsets PROVE ByteKnown(o)'
  <2>1. /\ o \in Nat /\ Index(o) \in Indices /\ Index(o) \in Nat /\ ByteKnown(o)
        /\ Start(Index(o)) <= o /\ Start(Index(o)) \in Nat
    BY <1>1, ByteTyped, ByteIndex DEF PagesInv
  <2>2. isize \in Nat /\ isize' \in Nat
    BY <1>1, <1>3 DEF PagesTyped
  <2>3. want'[o] = IF o < isize /\ o < isize' THEN want[o] ELSE Anything
    BY <1>2, <2>1, <2>2, SetByte DEF Smaller
  <2>4. Below(o)' = Below(o) /\ back'.page # Index(o)
    BY <1>2, <1>4, <2>1 DEF Below, NoBack
  <2>5. CacheKnown(o)' /\ BackKnown(o)' /\ OpKnown(o)' /\ FilledKnown(o)'
    BY <1>2, <2>4 DEF CacheKnown, BackKnown, OpKnown, FilledKnown, Growing
  <2>6. BelowKnown(o)'
    BY <1>2, <2>1, <2>2, <2>3, <2>4
       DEF ByteKnown, BelowKnown, SureBelow, Sure, Due, Copies, Pending, Clean, OpHolds, Growing
  <2>. QED  BY <2>5, <2>6 DEF ByteKnown
<1>. QED  BY <1>3, <1>5, <1>6 DEF PagesInv

-----------------------------------------------------------------------------
(* What is left in memory behind a new end is zero.                        *)
LEMMA PagesCut ==
    ASSUME PagesTyped, NEW to \in 0..FileBytes, CutPages(to)
    PROVE  /\ pages' \in [Indices -> PageData]
           /\ uptodate' = {g \in uptodate : Start(g) < to} /\ dirty' = {g \in dirty : Start(g) < to}
           /\ holes' = holes \cap 0..to - 1
           /\ \A o \in Offsets : Index(o) \in uptodate' => Cache(o)' = IF o < to THEN Cache(o) ELSE 0
<1>. DEFINE gone == {g \in Indices : Start(g) >= to}
            page(g) == IF g \in gone THEN Uninitialised
                       ELSE IF g \in uptodate /\ g = Index(to) THEN Zeroed(pages[g], to % PSize, PSize) ELSE pages[g]
<1>1. /\ pages' = [g \in Indices |-> page(g)]
      /\ uptodate' = uptodate \ gone /\ dirty' = dirty \ gone /\ holes' = holes \cap 0..to - 1
  BY DEF CutPages
<1>2. /\ to \in Nat /\ \A g \in Indices : Start(g) \in Nat /\ pages[g] \in PageData
  BY PagesConstants, PageBytesOf DEF PagesTyped
<1>3. uptodate' = {g \in uptodate : Start(g) < to} /\ dirty' = {g \in dirty : Start(g) < to}
  BY <1>1, <1>2 DEF PagesTyped
<1>4. ASSUME NEW g \in Indices PROVE page(g) \in PageData
  BY <1>2, UninitialisedPage, ZeroedPage
<1>5. pages' \in [Indices -> PageData]
  BY <1>1, <1>4
<1>6. ASSUME NEW o \in Offsets, Index(o) \in uptodate' PROVE Cache(o)' = IF o < to THEN Cache(o) ELSE 0
  <2>1. Index(o) \in uptodate /\ Start(Index(o)) < to /\ Index(o) \in Indices /\ o % PSize \in 0..PSize - 1
    BY <1>3, <1>6, ByteTyped
  <2>2. /\ o \in Nat /\ PSize \in Nat \ {0}
        /\ Start(Index(o)) \in Nat /\ Start(Index(o)) <= o /\ o < Start(Index(o)) + PSize
        /\ o = Start(Index(o)) + (o % PSize)
    BY OffsetPlace
  <2>3. Index(o) \notin gone
    BY <2>1, <1>2
  <2>4. Cache(o)' = page(Index(o))[o % PSize]
    BY <1>1, <2>1 DEF Cache
  <2>5. CASE Index(o) = Index(to)
    <3>1. PICK m \in 0..PSize - 1 : m = o % PSize
      BY <2>1
    <3>2. PICK k \in 0..PSize - 1 : k = to % PSize
      BY <1>2, ByteIndex
    <3>3. to = Start(Index(to)) + k
      BY <1>2, <3>2, ByteIndex
    <3>4. o < to <=> m < k
      BY <2>2, <2>5, <3>1, <3>3
    <3>5. page(Index(o))[m] = IF m \in k..PSize - 1 THEN 0 ELSE pages[Index(o)][m]
      BY <2>1, <2>3, <2>5, <3>1, <3>2, <1>2, ZeroedPage
    <3>. QED  BY <2>2, <2>4, <3>1, <3>4, <3>5 DEF Cache
  <2>6. CASE Index(o) # Index(to)
    <3>1. o < to
      <4>1. ~(Start(Index(o)) <= to /\ to < Start(Index(o)) + PSize)
        BY <1>2, <2>2, <2>6, IndexOrder
      <4>. QED  BY <4>1, <1>2, <2>1, <2>2
    <3>. QED  BY <2>3, <2>4, <2>6, <3>1 DEF Cache
  <2>. QED  BY <2>5, <2>6
<1>. QED  BY <1>1, <1>3, <1>5, <1>6

(* A truncation begins: nothing is filled yet.                             *)
LEMMA truncateKeeps ==
    ASSUME PagesInv, NEW to \in Truncations, truncate(to)
    PROVE  PagesInv'
<1>1. PagesTyped /\ PagesPlaces /\ to \in Nat /\ to <= FileBytes /\ isize \in Nat /\ isize <= FileBytes
  BY PagesConstants DEF PagesInv, PagesTyped
<1>2. /\ UNCHANGED <<kind, back, stores, isize, header, pages, uptodate, dirty, held, below, want, holes, raced>>
      /\ op.pc = "idle" /\ ops' = ops + 1 /\ op.then = "none"
      /\ to # isize /\ (to < isize => kind = "encrypted")
  BY <1>1 DEF truncate, Begin, rest, PagesPlaces
<1>3. PICK last \in Nat : /\ last = to + PSize - (to % PSize) /\ last = Start(Index(to)) + PSize
                          /\ last > to
  <2>1. PICK m \in 0..PSize - 1 : m = to % PSize
    BY <1>1, ByteIndex
  <2>2. to = Start(Index(to)) + m /\ Start(Index(to)) \in Nat /\ PSize \in Nat \ {0}
    BY <1>1, <2>1, ByteIndex, PagesConstants
  <2>. QED  BY <1>1, <2>1, <2>2
<1>4. /\ op' = [NoOp EXCEPT !.pc = "grow", !.pos = isize, !.first = to - 1, !.end = to, !.old = isize,
                            !.then = "truncate"]
      /\ isize < to
      \/ /\ op' = [NoOp EXCEPT !.pc = "grow", !.pos = to, !.first = to, !.end = last,
                               !.old = isize, !.then = "shrink", !.off = to]
         /\ to < isize
  BY <1>1, <1>2, <1>3 DEF truncate, Begin
<1>5. NoOp \in PagesOp
  BY UninitialisedPage DEF NoOp, PagesOp
<1>6. /\ op' \in PagesOp /\ op'.pc = "grow" /\ op'.old = isize
      /\ \/ /\ op'.pos = isize /\ op'.first = to - 1 /\ op'.end = to /\ op'.then = "truncate" /\ isize < to
         \/ /\ op'.pos = to /\ op'.first = to /\ op'.end = last /\ op'.then = "shrink" /\ op'.off = to
            /\ to < isize
  <2>1. isize < to => to - 1 \in Nat
    BY <1>1
  <2>2. CASE isize < to /\ op' = [NoOp EXCEPT !.pc = "grow", !.pos = isize, !.first = to - 1, !.end = to,
                                             !.old = isize, !.then = "truncate"]
    BY <1>1, <1>5, <2>1, <2>2 DEF PagesOp
  <2>3. CASE to < isize /\ op' = [NoOp EXCEPT !.pc = "grow", !.pos = to, !.first = to, !.end = last,
                                             !.old = isize, !.then = "shrink", !.off = to]
    BY <1>1, <1>5, <2>3 DEF PagesOp
  <2>. QED  BY <1>4, <2>2, <2>3
<1>7. PagesTyped'
  <2>1. ops' \in Nat
    BY <1>1, <1>2 DEF PagesTyped
  <2>. QED  BY <1>1, <1>2, <1>6, <2>1 DEF PagesTyped
<1>8. PagesPlaces'
  BY <1>1, <1>2, <1>3, <1>6 DEF PagesPlaces, Growing
<1>9. ASSUME NEW o \in Offsets PROVE ByteKnown(o)'
  <2>1. ByteKnown(o) /\ o \in Nat /\ Start(Index(o)) \in Nat /\ Start(Index(o)) <= o
    BY OffsetPlace DEF PagesInv
  <2>2. Below(o)' = Below(o) /\ Cache(o)' = Cache(o) /\ BackByte(o)' = BackByte(o)
    BY <1>2 DEF Below, Cache, BackByte
  <2>3. ~OpHolds(Index(o)) /\ ~OpHolds(Index(o))'
    BY <1>2, <1>6 DEF OpHolds, Growing
  <2>4. CacheKnown(o)' /\ BelowKnown(o)' /\ OpKnown(o)' /\ BackKnown(o)'
    BY <1>2, <1>6, <2>1, <2>2, <2>3
       DEF ByteKnown, CacheKnown, BelowKnown, OpKnown, BackKnown, SureAbove, SureBelow, Sure, Due, Copies, Pending,
           Clean
  <2>5. FilledKnown(o)'
    BY <1>1, <1>6, <2>1 DEF FilledKnown, Region, FillEnd
  <2>. QED  BY <2>4, <2>5 DEF ByteKnown
<1>. QED  BY <1>7, <1>8, <1>9 DEF PagesInv

LEMMA truncate_plainKeeps ==
    ASSUME PagesInv, NEW to \in Truncations, truncate_plain(to)
    PROVE  PagesInv'
<1>1. PagesTyped /\ PagesPlaces /\ to \in Nat /\ to \in 0..FileBytes
  BY PagesConstants DEF PagesInv
<1>2. /\ UNCHANGED <<kind, back, stores, header, held, op, want, raced>>
      /\ op.pc = "idle" /\ ops' = ops + 1 /\ isize' = to /\ CutPages(to) /\ below' = Resized(to)
      /\ kind = "plain" /\ to < isize /\ op.then = "none"
  BY <1>1 DEF truncate_plain, rest, PagesPlaces
<1>3. /\ pages' \in [Indices -> PageData]
      /\ uptodate' = {g \in uptodate : Start(g) < to} /\ dirty' = {g \in dirty : Start(g) < to}
      /\ holes' = holes \cap 0..to - 1
      /\ \A o \in Offsets : Index(o) \in uptodate' => Cache(o)' = IF o < to THEN Cache(o) ELSE 0
  BY <1>1, <1>2, PagesCut
<1>4. /\ below' \in Seq(Int) /\ Len(below') = to
      /\ \A o \in Nat : Below(o)' = IF o < to THEN IF o < Len(below) THEN Below(o) ELSE Filler ELSE NoOne
  BY <1>1, <1>2, LowerResized
<1>5. PagesTyped'
  <2>1. uptodate' \subseteq Indices /\ dirty' \subseteq uptodate'
    BY <1>1, <1>3 DEF PagesTyped
  <2>2. ops' \in Nat /\ isize' \in 0..FileBytes /\ Len(below') <= FileBytes
    BY <1>1, <1>2, <1>4 DEF PagesTyped
  <2>. QED  BY <1>1, <1>2, <1>3, <1>4, <2>1, <2>2 DEF PagesTyped
<1>6. PagesPlaces'
  BY <1>1, <1>2, <1>4 DEF PagesPlaces, Growing
<1>7. ASSUME NEW o \in Offsets PROVE ByteKnown(o)'
  <2>1. /\ ByteKnown(o) /\ o \in Nat /\ Start(Index(o)) \in Nat /\ Start(Index(o)) <= o /\ isize \in Nat
        /\ want[o] \in Nat \cup {Anything}
    BY <1>1, OffsetPlace, ByteTyped, OpTyped DEF PagesInv
  <2>2. BackByte(o)' = BackByte(o) /\ (Sure(o)' => o < to /\ Sure(o))
    BY <1>1, <1>2, <1>3, <2>1 DEF BackByte, Sure, Copies
  <2>3. Index(o) \in Nat /\ (back.page = Index(o) => kind = "encrypted")
    BY <1>1, <2>1, BackPlace, ByteIndex
  <2>4. CacheKnown(o)' /\ OpKnown(o)' /\ BackKnown(o)' /\ FilledKnown(o)'
    BY <1>1, <1>2, <1>3, <2>1, <2>2, <2>3
       DEF ByteKnown, CacheKnown, OpKnown, BackKnown, FilledKnown, SureAbove, SureBelow, Due, Copies, Growing
  <2>5. BelowKnown(o)'
    <3>1. ASSUME SureBelow(o)', Clean(Index(o))' PROVE Below(o) = want[o]
      BY <1>1, <1>2, <1>3, <2>1, <2>2, <3>1
         DEF ByteKnown, BelowKnown, SureBelow, Due, Copies, Pending, Clean, OpHolds, Growing
    <3>2. ASSUME SureBelow(o)', Clean(Index(o))' PROVE o < Len(below)
      BY <2>1, <3>1, <3>2 DEF Below, Anything, NoOne
    <3>. QED  BY <1>1, <1>2, <1>4, <2>1, <2>2, <3>1, <3>2 DEF BelowKnown, SureBelow, Due, Copies
  <2>. QED  BY <2>4, <2>5 DEF ByteKnown
<1>. QED  BY <1>5, <1>6, <1>7 DEF PagesInv

-----------------------------------------------------------------------------
LEMMA NoOpTyped == NoOp \in PagesOp /\ NoOp.pc = "idle" /\ NoOp.then = "none"
  BY UninitialisedPage DEF NoOp, PagesOp

LEMMA StoreSizeTyped ==
    ASSUME PagesTyped, NEW to \in 0..FileBytes, StoreSize(to)
    PROVE  header' \in 0..FileBytes
  BY DEF StoreSize, PagesTyped

(* The lower file of an encrypted file ends with the page of the last byte. *)
LEMMA ExtentsOf ==
    ASSUME NEW to \in Nat, to < FileBytes
    PROVE  /\ Extents(to) \in Nat /\ Extents(to) <= FileBytes
           /\ \A o \in Offsets : Start(Index(o)) < to => o < Extents(to)
<1>1. PSize \in Nat \ {0} /\ to + PSize - 1 \in Nat /\ FileBytes \in Nat
  BY PagesConstants
<1>2. PICK u \in Nat : u = to + PSize - 1
  BY <1>1
<1>3. /\ Extents(to) = Start(Index(u)) /\ Start(Index(u)) \in Nat /\ Index(u) \in Nat
      /\ Start(Index(u)) <= u /\ u < Start(Index(u)) + PSize
  BY <1>2, ByteIndex DEF Extents
<1>4. /\ Index(to) \in Nat /\ Start(Index(to)) \in Nat /\ Start(Index(to)) <= to /\ to < Start(Index(to)) + PSize
      /\ Start(Index(to)) + PSize <= FileBytes
  BY ByteIndex, IndexInFile
<1>5. Extents(to) <= FileBytes
  <2>1. CASE Start(Index(to)) + PSize <= u
    <3>1. PICK v \in Nat : v = Start(Index(to)) + PSize
      BY <1>1, <1>4
    <3>2. v < Start(Index(v)) + PSize /\ Start(Index(v)) <= v /\ Start(Index(v)) \in Nat
      BY ByteIndex
    <3>3. Index(v) # Index(to) /\ ~(v < Start(Index(to)))
      BY <3>1, <1>1, <1>4, IndexOrder
    <3>4. Start(Index(to)) + PSize <= Start(Index(v))
      <4>1. to < Start(Index(v))
        <5>1. ~(Start(Index(v)) <= to /\ to < Start(Index(v)) + PSize)
          BY <3>3, IndexOrder
        <5>. QED  BY <5>1, <3>1, <3>2, <1>1, <1>4
      <4>. QED  BY <4>1, IndexOrder
    <3>5. u < Start(Index(v)) + PSize
      BY <3>1, <3>2, <3>4, <1>1, <1>2, <1>4
    <3>6. Index(u) = Index(v)
      <4>1. Start(Index(v)) <= u
        BY <3>1, <3>2, <2>1
      <4>. QED  BY <4>1, <3>5, IndexOrder
    <3>. QED  BY <3>1, <3>2, <3>6, <1>1, <1>3, <1>4
  <2>2. CASE u < Start(Index(to)) + PSize
    BY <2>2, <1>2, <1>1, <1>3, <1>4, PagesConstants
  <2>. QED  BY <2>1, <2>2, <1>1, <1>4
<1>6. ASSUME NEW o \in Offsets, Start(Index(o)) < to PROVE o < Extents(to)
  <2>1. /\ o \in Nat /\ Start(Index(o)) \in Nat /\ Start(Index(o)) <= o /\ o < Start(Index(o)) + PSize
    BY OffsetPlace
  <2>2. ~(Start(Index(o)) <= u /\ u < Start(Index(o)) + PSize)
    BY <1>6, <1>2, <1>1, <2>1
  <2>3. Index(u) # Index(o)
    BY <2>2, <2>1, IndexOrder
  <2>4. ~(Start(Index(u)) <= o /\ o < Start(Index(u)) + PSize)
    BY <2>3, <2>1, IndexOrder
  <2>. QED  BY <2>4, <2>1, <1>6, <1>1, <1>2, <1>3
<1>. QED  BY <1>3, <1>5, <1>6

(* The bytes behind the new end that are left in memory and below are      *)
(* zero.                                                                   *)
LEMMA truncate_setsizeKeeps ==
    ASSUME PagesInv, truncate_setsize
    PROVE  PagesInv'
<1>1. PagesTyped /\ PagesPlaces
  BY DEF PagesInv
<1>2. /\ op.off \in Nat /\ op.off \in 0..FileBytes /\ op.off < isize /\ isize \in Nat /\ op.end <= isize
      /\ kind = "encrypted" /\ op.end = Start(Index(op.off)) + PSize /\ op.end \in Nat /\ isize <= FileBytes
      /\ op.pc = "setsize" /\ op.off < FileBytes
  BY <1>1, OpTyped, PagesConstants DEF truncate_setsize, PagesPlaces, PagesTyped
<1>3. /\ UNCHANGED <<kind, back, stores, held, ops, raced>>
      /\ isize' = op.off /\ CutPages(op.off) /\ StoreSize(op.off) /\ op' = NoOp
      /\ want' = Set({o \in op.off..op.end - 1 : want[o] # 0}, Anything)
      /\ below' = below \/ below' = Resized(Extents(op.off))
  BY DEF truncate_setsize, rest, Return
<1>4. /\ pages' \in [Indices -> PageData]
      /\ uptodate' = {g \in uptodate : Start(g) < op.off} /\ dirty' = {g \in dirty : Start(g) < op.off}
      /\ \A o \in Offsets : Index(o) \in uptodate' => Cache(o)' = IF o < op.off THEN Cache(o) ELSE 0
  BY <1>1, <1>2, <1>3, PagesCut
<1>5. /\ below' \in Seq(Int) /\ Len(below') <= FileBytes
      /\ \A o \in Offsets : Start(Index(o)) < op.off => Below(o)' = Below(o)
  <2>1. CASE below' = below
    BY <2>1, <1>1 DEF Below, PagesTyped
  <2>2. CASE below' = Resized(Extents(op.off))
    <3>1. /\ Extents(op.off) \in Nat /\ Extents(op.off) <= FileBytes
          /\ \A o \in Offsets : Start(Index(o)) < op.off => o < Extents(op.off)
      BY <1>2, ExtentsOf
    <3>2. /\ below' \in Seq(Int) /\ Len(below') = Extents(op.off)
          /\ \A o \in Nat : Below(o)' = IF o < Extents(op.off)
                                        THEN IF o < Len(below) THEN Below(o) ELSE Filler ELSE NoOne
      BY <1>1, <2>2, <3>1, LowerResized
    <3>3. \A o \in Nat : ~(o < Len(below)) => Below(o) = Filler
      BY <1>2 DEF Below, Filler
    <3>4. ASSUME NEW o \in Offsets, Start(Index(o)) < op.off PROVE Below(o)' = Below(o)
      BY <3>1, <3>2, <3>3, <3>4, OffsetPlace
    <3>. QED  BY <3>1, <3>2, <3>4
  <2>. QED  BY <1>3, <2>1, <2>2
<1>6. PagesTyped'
  <2>1. uptodate' \subseteq Indices /\ dirty' \subseteq uptodate'
    BY <1>1, <1>4 DEF PagesTyped
  <2>2. header' \in 0..FileBytes /\ isize' \in 0..FileBytes
    BY <1>1, <1>2, <1>3, StoreSizeTyped
  <2>3. want' \in [Offsets -> Nat \cup {Anything}]
    BY <1>1, <1>3, SetTyped
  <2>. QED  BY <1>1, <1>3, <1>4, <1>5, <2>1, <2>2, <2>3, NoOpTyped DEF PagesTyped
<1>7. PagesPlaces'
  BY <1>1, <1>2, <1>3, NoOpTyped DEF PagesPlaces, Growing
<1>8. ASSUME NEW o \in Offsets PROVE ByteKnown(o)'
  <2>1. /\ ByteKnown(o) /\ o \in Nat /\ Start(Index(o)) \in Nat /\ Start(Index(o)) <= o
        /\ o < Start(Index(o)) + PSize /\ Index(o) \in Nat /\ PSize \in Nat
    BY OffsetPlace DEF PagesInv
  <2>2. want'[o] = IF op.off <= o /\ o < op.end /\ want[o] # 0 THEN Anything ELSE want[o]
    BY <1>2, <1>3, <2>1, SetByte
  <2>3. BackByte(o)' = BackByte(o) /\ op'.pc = "idle"
    BY <1>3, NoOpTyped DEF BackByte
  <2>4. Start(Index(o)) < op.off /\ op.off <= o => o < op.end
    <3>1. Start(Index(o)) < op.off /\ op.off <= o => Index(op.off) = Index(o)
      BY <1>2, <2>1, IndexOrder
    <3>. QED  BY <3>1, <1>2, <2>1
  <2>5. ASSUME SureBelow(o)'
        PROVE  SureBelow(o) /\ Start(Index(o)) < op.off /\ Due(o)' = Due(o) /\ (o >= op.off => Due(o) = 0)
    BY <1>2, <1>3, <2>1, <2>2, <2>3, <2>4, <2>5 DEF SureBelow, Sure, Due, Copies
  <2>6. CacheKnown(o)'
    BY <1>2, <1>4, <2>1, <2>3, <2>5 DEF ByteKnown, CacheKnown, SureAbove, SureBelow, Sure, Copies
  <2>7. BelowKnown(o)' /\ BackKnown(o)'
    BY <1>2, <1>3, <1>4, <1>5, <2>1, <2>3, <2>5
       DEF ByteKnown, BelowKnown, BackKnown, SureBelow, Pending, Copies, Clean, OpHolds, Growing
  <2>8. OpKnown(o)' /\ FilledKnown(o)'
    BY <2>3 DEF OpKnown, FilledKnown, Growing
  <2>. QED  BY <2>6, <2>7, <2>8 DEF ByteKnown
<1>. QED  BY <1>6, <1>7, <1>8 DEF PagesInv

(* A write that gives up, before and after the bytes were copied.          *)
LEMMA write_copy_shortKeeps ==
    ASSUME PagesInv, write_copy_short
    PROVE  PagesInv'
<1>1. PagesTyped /\ PagesPlaces
  BY DEF PagesInv
<1>2. /\ UNCHANGED <<kind, back, stores, isize, header, pages, uptodate, dirty, below, ops, want, holes, raced>>
      /\ op.pc = "begun" /\ held' = held \ {Index(op.off)} /\ op' = NoOp /\ Index(op.off) # back.page
  BY <1>1 DEF write_copy_short, rest, Return, PagesPlaces, WriterHolds
<1>3. PagesTyped'
  <2>1. held' \subseteq Indices
    BY <1>1, <1>2 DEF PagesTyped
  <2>. QED  BY <1>1, <1>2, <2>1, NoOpTyped DEF PagesTyped
<1>4. PagesPlaces'
  BY <1>1, <1>2, NoOpTyped DEF PagesPlaces, Growing
<1>5. ASSUME NEW o \in Offsets PROVE ByteKnown(o)'
  <2>1. ByteKnown(o)
    BY DEF PagesInv
  <2>2. /\ Below(o)' = Below(o) /\ Cache(o)' = Cache(o) /\ BackByte(o)' = BackByte(o) /\ op'.pc = "idle"
    BY <1>2, NoOpTyped DEF Below, Cache, BackByte
  <2>3. CacheKnown(o)' /\ BelowKnown(o)' /\ OpKnown(o)' /\ BackKnown(o)' /\ FilledKnown(o)'
    BY <1>2, <2>1, <2>2
       DEF ByteKnown, CacheKnown, BelowKnown, OpKnown, BackKnown, FilledKnown, SureAbove, SureBelow, Sure, Due,
           Copies, Pending, Clean, OpHolds, Growing
  <2>. QED  BY <2>3 DEF ByteKnown
<1>. QED  BY <1>3, <1>4, <1>5 DEF PagesInv

LEMMA write_end_failsKeeps ==
    ASSUME PagesInv, write_end_fails
    PROVE  PagesInv'
<1>1. PagesTyped /\ PagesPlaces
  BY DEF PagesInv
<1>2. /\ UNCHANGED <<kind, back, stores, isize, header, pages, uptodate, dirty, below, ops, holes, raced>>
      /\ op.pc = "end" /\ held' = held \ {Index(op.off)} /\ op' = NoOp /\ Index(op.off) # back.page
      /\ want' = Set(op.off..op.to - 1, Anything)
  BY <1>1 DEF write_end_fails, rest, Return, PagesPlaces, WriterHolds
<1>3. PagesTyped'
  <2>1. held' \subseteq Indices
    BY <1>1, <1>2 DEF PagesTyped
  <2>2. want' \in [Offsets -> Nat \cup {Anything}]
    BY <1>1, <1>2, SetTyped
  <2>. QED  BY <1>1, <1>2, <2>1, <2>2, NoOpTyped DEF PagesTyped
<1>4. PagesPlaces'
  BY <1>1, <1>2, NoOpTyped DEF PagesPlaces, Growing
<1>5. ASSUME NEW o \in Offsets PROVE ByteKnown(o)'
  <2>1. ByteKnown(o) /\ o \in Nat /\ op.off \in Nat /\ op.to \in Nat
    BY <1>1, OffsetPlace, OpTyped DEF PagesInv
  <2>2. /\ Below(o)' = Below(o) /\ Cache(o)' = Cache(o) /\ BackByte(o)' = BackByte(o) /\ op'.pc = "idle"
    BY <1>2, NoOpTyped DEF Below, Cache, BackByte
  <2>3. want'[o] = IF Copies(o) THEN Anything ELSE want[o]
    BY <1>2, <2>1, SetByte DEF Copies
  <2>4. CacheKnown(o)' /\ BelowKnown(o)' /\ OpKnown(o)' /\ BackKnown(o)' /\ FilledKnown(o)'
    BY <1>2, <2>1, <2>2, <2>3
       DEF ByteKnown, CacheKnown, BelowKnown, OpKnown, BackKnown, FilledKnown, SureAbove, SureBelow, Sure, Due,
           Copies, Pending, Clean, OpHolds, Growing
  <2>. QED  BY <2>4 DEF ByteKnown
<1>. QED  BY <1>3, <1>4, <1>5 DEF PagesInv

-----------------------------------------------------------------------------
(* A write begins: its page is as the file, or will be written whole.      *)
LEMMA write_beginKeeps ==
    ASSUME PagesInv, NEW w \in WriteRanges, write_begin(w[1], w[2])
    PROVE  PagesInv'
<1>1. PagesTyped /\ PagesPlaces /\ isize \in Nat /\ isize <= FileBytes
  BY OpTyped DEF PagesInv, PagesTyped
<1>2. PICK off \in Offsets, count \in Nat \ {0} : off = w[1] /\ count = w[2] /\ (off % PSize) + count <= PSize
  BY PagesConstants
<1>3. PICK g \in Indices : g = Index(off)
  BY OffsetPlace
<1>4. /\ off \in Nat /\ off < FileBytes /\ g \in Nat /\ Start(g) \in Nat /\ Start(g) <= FileBytes
      /\ PSize \in Nat \ {0} /\ (g = 0 => Start(g) = 0)
  <2>1. g \in Nat /\ Start(g) \in Nat /\ Start(g) + PSize <= FileBytes
    BY PageBytesOf
  <2>2. off \in Nat /\ off < FileBytes /\ PSize \in Nat \ {0} /\ FileBytes \in Nat
    BY PagesConstants
  <2>3. g = 0 => Start(g) = 0
    BY <2>2 DEF Start
  <2>. QED  BY <2>1, <2>2, <2>3
<1>. DEFINE fresh == kind = "encrypted" /\ Start(g) >= isize
            read == g \notin uptodate /\ ~fresh /\ (kind = "plain" \/ count < PSize)
            o1 == [NoOp EXCEPT !.off = off, !.n = count]
            page == IF g \in uptodate THEN pages[g]
                    ELSE IF fresh THEN [b \in 0..PSize - 1 |-> 0] ELSE IF read THEN ReadLower(g) ELSE pages[g]
<1>5. /\ UNCHANGED <<kind, back, stores, isize, header, dirty, below, want, holes, raced>>
      /\ g \notin held /\ op.pc = "idle" /\ ops' = ops + 1 /\ held' = held \cup {g} /\ op.then = "none"
  BY <1>1, <1>2, <1>3 DEF write_begin, Begin, rest, PagesPlaces
<1>6. op' = IF g # 0 /\ Start(g) > isize
            THEN [o1 EXCEPT !.pc = "grow", !.pos = isize, !.first = Start(g) - 1, !.end = Start(g),
                            !.old = isize, !.then = "write"]
            ELSE [o1 EXCEPT !.pc = "begun"]
  BY <1>2, <1>3 DEF write_begin, Begin
<1>7. /\ uptodate' = IF fresh \/ read THEN uptodate \cup {g} ELSE uptodate
      /\ g \in uptodate \/ ~(fresh \/ read) => pages' = pages
      /\ pages' = [pages EXCEPT ![g] = page]
  BY <1>1, <1>2, <1>3 DEF write_begin, PagesTyped
<1>8. /\ op' \in PagesOp /\ op'.off = off /\ op'.n = count
      /\ \/ /\ op'.pc = "grow" /\ op'.pos = isize /\ op'.first = op'.end - 1 /\ op'.end = Start(g)
            /\ op'.old = isize /\ op'.then = "write" /\ isize < Start(g)
         \/ op'.pc = "begun" /\ op'.then = "none" /\ Start(g) <= isize
  <2>1. o1 \in PagesOp /\ o1.off = off /\ o1.n = count /\ o1.pc = "idle" /\ o1.then = "none"
    BY <1>4, NoOpTyped DEF PagesOp
  <2>. HIDE DEF o1
  <2>2. CASE g # 0 /\ Start(g) > isize
    <3>1. Start(g) - 1 \in Nat
      BY <2>2, <1>1, <1>4
    <3>2. op' = [o1 EXCEPT !.pc = "grow", !.pos = isize, !.first = Start(g) - 1, !.end = Start(g),
                           !.old = isize, !.then = "write"]
      BY <1>6, <2>2
    <3>. QED  BY <2>1, <2>2, <3>1, <3>2, <1>1, <1>4 DEF PagesOp
  <2>3. CASE ~(g # 0 /\ Start(g) > isize)
    <3>1. op' = [o1 EXCEPT !.pc = "begun"]
      BY <1>6, <2>3
    <3>2. Start(g) <= isize
      BY <2>3, <1>1, <1>4
    <3>. QED  BY <2>1, <3>1, <3>2 DEF PagesOp
  <2>. QED  BY <2>2, <2>3
<1>9. page \in PageData
  <2>1. ReadLower(g) \in PageData /\ pages[g] \in PageData /\ [b \in 0..PSize - 1 |-> 0] \in PageData
    BY <1>1, LowerPage DEF PagesTyped, PageData
  <2>. QED  BY <2>1
<1>. HIDE DEF page
<1>10. pages' \in [Indices -> PageData] /\ \A o \in Offsets : Index(o) # g => Cache(o)' = Cache(o)
  BY <1>1, <1>7, <1>9, PageChanged
<1>11. \A o \in Offsets : Index(o) = g /\ g \in uptodate' =>
          \/ g \in uptodate /\ Cache(o)' = Cache(o)
          \/ g \notin uptodate /\ Cache(o)' = Below(o)
          \/ g \notin uptodate /\ Start(g) >= isize /\ kind = "encrypted"
  <2>1. CASE g \in uptodate
    BY <1>7, <2>1 DEF Cache
  <2>2. CASE g \notin uptodate /\ read
    <3>1. \A o \in Offsets : Index(o) = g => Cache(o)' = page[o % PSize]
      BY <1>1, <1>7, <1>9, PageChanged
    <3>2. page = ReadLower(g)
      BY <2>2 DEF page
    <3>. QED  BY <2>2, <3>1, <3>2, <1>1, LowerPage
  <2>3. CASE g \notin uptodate /\ ~read
    BY <2>3, <1>7
  <2>. QED  BY <2>1, <2>2, <2>3
<1>12. PagesTyped'
  <2>1. uptodate' \subseteq Indices /\ uptodate \subseteq uptodate' /\ held' \subseteq Indices
    BY <1>1, <1>5, <1>7 DEF PagesTyped
  <2>2. ops' \in Nat
    BY <1>1, <1>5 DEF PagesTyped
  <2>. QED  BY <1>1, <1>5, <1>8, <1>10, <2>1, <2>2 DEF PagesTyped
<1>13. back.page # g
  BY <1>1, <1>4, <1>5, BackPlace
<1>14. PagesPlaces'
  <2>1. WriterHolds'
    BY <1>2, <1>3, <1>4, <1>5, <1>8, <1>13 DEF WriterHolds
  <2>. QED  BY <1>1, <1>3, <1>4, <1>5, <1>8, <2>1 DEF PagesPlaces, Growing
<1>15. ASSUME NEW o \in Offsets PROVE ByteKnown(o)'
  <2>1. /\ ByteKnown(o) /\ o \in Nat /\ Start(Index(o)) \in Nat /\ Start(Index(o)) <= o
    BY OffsetPlace DEF PagesInv
  <2>2. Below(o)' = Below(o) /\ BackByte(o)' = BackByte(o)
    BY <1>5 DEF Below, BackByte
  <2>3. Clean(Index(o))' <=> Clean(Index(o))
    <3>1. ~OpHolds(Index(o)) /\ (OpHolds(g))'
      BY <1>3, <1>5, <1>8 DEF OpHolds, Growing
    <3>2. Index(o) # g => ~(OpHolds(Index(o)))'
      BY <1>3, <1>8 DEF OpHolds
    <3>. QED  BY <1>5, <3>1, <3>2 DEF Clean
  <2>4. ~Copies(o) /\ ~Copies(o)' /\ ~Pending(o) /\ ~Pending(o)' /\ op'.pc \notin {"end", "store"}
    BY <1>5, <1>8 DEF Copies, Pending
  <2>5. CacheKnown(o)'
    <3>1. SureAbove(o)' => SureAbove(o) /\ SureBelow(o) /\ Due(o)' = Due(o)
      BY <1>5, <2>4 DEF SureAbove, SureBelow, Sure, Due
    <3>2. CASE Index(o) = g
      <4>1. g \notin uptodate => g \notin dirty
        BY <1>1 DEF PagesTyped
      <4>2. SureBelow(o) => Start(Index(o)) < isize
        BY DEF SureBelow
      <4>3. g \notin uptodate /\ SureBelow(o) => Below(o) = Due(o)
        BY <4>1, <3>2, <1>5, <2>1, <2>4 DEF ByteKnown, BelowKnown, Clean
      <4>. QED  BY <1>1, <1>4, <1>11, <2>1, <3>1, <3>2, <4>2, <4>3 DEF ByteKnown, CacheKnown
    <3>3. CASE Index(o) # g
      BY <1>7, <1>10, <2>1, <3>1, <3>3 DEF ByteKnown, CacheKnown
    <3>. QED  BY <3>2, <3>3
  <2>6. BelowKnown(o)' /\ BackKnown(o)' /\ OpKnown(o)'
    BY <1>5, <2>1, <2>2, <2>3, <2>4 DEF ByteKnown, BelowKnown, BackKnown, OpKnown, SureBelow, Sure, Due
  <2>7. FilledKnown(o)'
    BY <1>1, <1>8, <2>1 DEF FilledKnown, Region, FillEnd, Growing
  <2>. QED  BY <2>5, <2>6, <2>7 DEF ByteKnown
<1>. QED  BY <1>12, <1>14, <1>15 DEF PagesInv

-----------------------------------------------------------------------------
(* The bytes of a page once some of a write were copied to it.             *)
LEMMA CopiedBytes ==
    ASSUME PagesTyped, PagesPlaces, op.pc = "begun", NEW g \in Indices, g = Index(op.off),
           NEW copied \in 0..op.n
    PROVE  /\ Copied(g, copied) \in PageData
           /\ \A o \in Offsets : Index(o) = g =>
                Copied(g, copied)[o % PSize] =
                  IF op.off <= o /\ o < op.off + copied THEN ops
                  ELSE IF kind = "encrypted" /\ Index(isize) = g /\ o >= isize /\ o >= op.off + copied THEN 0
                  ELSE IF isize = Start(g) /\ op.off # 0 THEN 0 ELSE Cache(o)
<1>1. /\ op.off \in Nat /\ copied \in Nat /\ isize \in Nat /\ ops \in Int /\ PSize \in Nat \ {0}
      /\ g \in Nat /\ Start(g) \in Nat /\ op.n \in Nat /\ copied <= op.n
      /\ pages[g] \in PageData
  <2>1. op.off \in Nat /\ op.n \in Nat /\ isize \in Nat
    BY OpTyped
  <2>2. g \in Nat /\ Start(g) \in Nat
    BY PageBytesOf
  <2>3. PSize \in Nat \ {0}
    BY PagesConstants
  <2>. QED  BY <2>1, <2>2, <2>3 DEF PagesTyped
<1>2. PICK from \in 0..PSize - 1 : from = op.off % PSize
  BY <1>1, ByteIndex
<1>3. op.off = Start(g) + from /\ from + copied <= PSize
  <2>1. op.off = Start(g) + from
    BY <1>1, <1>2, ByteIndex
  <2>2. from + op.n <= PSize
    BY <1>2 DEF PagesPlaces, WriterHolds
  <2>. QED  BY <2>1, <2>2, <1>1
<1>4. PICK m \in 0..PSize - 1 : m = isize % PSize
  BY <1>1, ByteIndex
<1>5. Index(isize) = g => isize = Start(g) + m
  BY <1>1, <1>4, ByteIndex
<1>. DEFINE base == IF isize = Start(g) /\ op.off # 0 THEN Zeroed(pages[g], 0, PSize) ELSE pages[g]
            new == [b \in DOMAIN base |-> IF b \in from..from + copied - 1 THEN ops ELSE base[b]]
<1>6. /\ base \in PageData
      /\ \A b \in 0..PSize - 1 : base[b] = IF isize = Start(g) /\ op.off # 0 THEN 0 ELSE pages[g][b]
  <2>1. /\ Zeroed(pages[g], 0, PSize) \in PageData
        /\ \A b \in 0..PSize - 1 : Zeroed(pages[g], 0, PSize)[b] = 0
    BY <1>1, ZeroedPage
  <2>. QED  BY <2>1, <1>1
<1>. HIDE DEF base
<1>7. /\ new \in PageData
      /\ \A b \in 0..PSize - 1 : new[b] = IF b \in from..from + copied - 1 THEN ops ELSE base[b]
  BY <1>1, <1>6 DEF PageData
<1>8. Copied(g, copied) = IF kind = "encrypted" /\ Index(isize) = g
                          THEN Zeroed(new, Greater(m, from + copied), PSize) ELSE new
  BY <1>2, <1>4 DEF Copied, base
<1>. HIDE DEF new
<1>9. /\ Zeroed(new, Greater(m, from + copied), PSize) \in PageData
      /\ \A b \in 0..PSize - 1 : Zeroed(new, Greater(m, from + copied), PSize)[b] =
                                   IF b >= m /\ b >= from + copied THEN 0 ELSE new[b]
  <2>1. \A b \in 0..PSize - 1 : b \in Greater(m, from + copied)..PSize - 1 <=> b >= m /\ b >= from + copied
    BY <1>1 DEF Greater
  <2>. QED  BY <2>1, <1>7, ZeroedPage
<1>10. ASSUME NEW o \in Offsets, Index(o) = g
       PROVE  Copied(g, copied)[o % PSize] =
                IF op.off <= o /\ o < op.off + copied THEN ops
                ELSE IF kind = "encrypted" /\ Index(isize) = g /\ o >= isize /\ o >= op.off + copied THEN 0
                ELSE IF isize = Start(g) /\ op.off # 0 THEN 0 ELSE Cache(o)
  <2>1. PICK b \in 0..PSize - 1 : b = o % PSize
    BY OffsetPlace
  <2>2. o = Start(g) + b
    BY <1>10, <2>1, OffsetPlace
  <2>3. /\ op.off <= o /\ o < op.off + copied <=> b \in from..from + copied - 1
        /\ o >= op.off + copied <=> b >= from + copied
    BY <2>2, <1>1, <1>3
  <2>4. Index(isize) = g => (o >= isize <=> b >= m)
    BY <2>2, <1>1, <1>5
  <2>5. new[b] = IF op.off <= o /\ o < op.off + copied THEN ops
                 ELSE IF isize = Start(g) /\ op.off # 0 THEN 0 ELSE Cache(o)
    BY <1>6, <1>7, <1>10, <2>1, <2>3 DEF Cache
  <2>6. Copied(g, copied)[b] = IF kind = "encrypted" /\ Index(isize) = g /\ o >= isize /\ o >= op.off + copied
                               THEN 0 ELSE new[b]
    BY <1>8, <1>9, <2>3, <2>4
  <2>7. o >= op.off + copied => ~(op.off <= o /\ o < op.off + copied)
    BY <2>2, <1>1
  <2>. QED  BY <2>1, <2>5, <2>6, <2>7
<1>. QED  BY <1>7, <1>8, <1>9, <1>10

LEMMA write_copyKeeps ==
    ASSUME PagesInv, NEW copied \in 0..op.n, write_copy(copied)
    PROVE  PagesInv'
<1>1. PagesTyped /\ PagesPlaces /\ op.pc = "begun"
  BY DEF PagesInv, write_copy
<1>2. /\ op.off \in Nat /\ op.n \in Nat /\ copied \in Nat /\ copied <= op.n /\ isize \in Nat /\ PSize \in Nat \ {0}
      /\ ops \in Nat
  BY <1>1, OpTyped, PagesConstants DEF PagesTyped
<1>3. PICK g \in Indices : g = Index(op.off)
  BY <1>1 DEF PagesPlaces, WriterHolds, PagesTyped
<1>4. /\ g \in held /\ g # back.page /\ Start(g) <= isize /\ Start(g) \in Nat /\ g \in Nat
      /\ (op.off % PSize) + op.n <= PSize /\ op.off < FileBytes
  BY <1>1, <1>3, PageBytesOf DEF PagesPlaces, WriterHolds
<1>5. PICK page \in PageData :
        /\ page = Copied(g, copied)
        /\ \A o \in Offsets : Index(o) = g =>
             page[o % PSize] = IF op.off <= o /\ o < op.off + copied THEN ops
                               ELSE IF kind = "encrypted" /\ Index(isize) = g /\ o >= isize /\ o >= op.off + copied
                               THEN 0 ELSE IF isize = Start(g) /\ op.off # 0 THEN 0 ELSE Cache(o)
  BY <1>1, <1>3, CopiedBytes
<1>6. /\ UNCHANGED <<kind, back, stores, isize, header, dirty, held, below, ops, raced>>
      /\ pages' = [pages EXCEPT ![g] = page] /\ uptodate' = uptodate \cup {g}
      /\ g \in uptodate \/ copied = PSize
      /\ want' = Set(op.off..op.off + copied - 1, ops) /\ holes' = holes \ (op.off..op.off + copied - 1)
      /\ op' = [op EXCEPT !.pc = "end", !.data = pages'[g], !.to = op.off + copied]
  BY <1>3, <1>5 DEF write_copy, rest
<1>7. /\ pages' \in [Indices -> PageData] /\ pages'[g] = page
      /\ \A o \in Offsets : Cache(o)' = IF Index(o) = g THEN page[o % PSize] ELSE Cache(o)
  BY <1>1, <1>5, <1>6, PageChanged DEF PagesTyped
<1>8. /\ op' \in PagesOp /\ op'.pc = "end" /\ op'.data = page /\ op'.to = op.off + copied
      /\ op'.off = op.off /\ op'.n = op.n /\ op'.then = op.then
  <2>1. op \in PagesOp /\ op' = [op EXCEPT !.pc = "end", !.data = page, !.to = op.off + copied]
    BY <1>1, <1>6, <1>7 DEF PagesTyped
  <2>2. op.off + copied \in Nat
    BY <1>2
  <2>. QED  BY <1>5, <2>1, <2>2 DEF PagesOp
<1>9. PagesTyped'
  <2>1. uptodate' \subseteq Indices /\ dirty' \subseteq uptodate'
    BY <1>1, <1>6 DEF PagesTyped
  <2>2. want' \in [Offsets -> Nat \cup {Anything}]
    BY <1>1, <1>2, <1>6, SetTyped
  <2>. QED  BY <1>1, <1>6, <1>7, <1>8, <2>1, <2>2 DEF PagesTyped
<1>10. PagesPlaces'
  BY <1>1, <1>2, <1>3, <1>4, <1>6, <1>8 DEF PagesPlaces, WriterHolds, Growing
<1>11. ASSUME NEW o \in Offsets PROVE ByteKnown(o)'
  <2>1. /\ ByteKnown(o) /\ o \in Nat /\ Start(Index(o)) \in Nat /\ Start(Index(o)) <= o
        /\ o < Start(Index(o)) + PSize
    BY OffsetPlace DEF PagesInv
  <2>2. Below(o)' = Below(o) /\ BackByte(o)' = BackByte(o) /\ OpByte(o)' = page[o % PSize]
    BY <1>6, <1>8 DEF Below, BackByte, OpByte
  <2>3. (Copies(o)' <=> op.off <= o /\ o < op.off + copied) /\ ~Copies(o) /\ ~Pending(o)
    BY <1>1, <1>8 DEF Copies, Pending
  <2>4. want'[o] = IF Copies(o)' THEN ops ELSE want[o]
    <3>1. PICK span : span = op.off..op.off + copied - 1
      OBVIOUS
    <3>2. want' = Set(span, ops)
      BY <1>6, <3>1
    <3>3. want'[o] = IF o \in span THEN ops ELSE want[o]
      BY <3>2, SetByte
    <3>4. o \in span <=> op.off <= o /\ o < op.off + copied
      BY <1>2, <2>1, <3>1
    <3>. QED  BY <2>3, <3>3, <3>4
  <2>5. Copies(o)' => Index(o) = g
    <3>1. PICK m \in 0..PSize - 1 : m = op.off % PSize
      BY <1>2, ByteIndex
    <3>2. op.off = Start(g) + m
      BY <1>2, <1>3, <3>1, ByteIndex
    <3>3. Copies(o)' => Start(g) <= o /\ o < Start(g) + PSize
      BY <1>2, <1>4, <2>1, <2>3, <3>1, <3>2
    <3>. QED  BY <3>3, <1>4, <2>1, PageStart
  <2>7. ~Copies(o)' => (o \in holes' <=> o \in holes)
    BY <1>2, <1>6, <2>1, <2>3
  <2>8. CacheKnown(o)'
    <3>1. CASE Copies(o)'
      BY <1>5, <1>7, <2>3, <2>4, <2>5, <3>1 DEF CacheKnown, Due
    <3>2. CASE ~Copies(o)' /\ Index(o) # g
      BY <1>3, <1>6, <1>7, <1>8, <2>1, <2>3, <2>4, <2>7, <3>2 DEF ByteKnown, CacheKnown, SureAbove, Sure, Due
    <3>3. CASE ~Copies(o)' /\ Index(o) = g
      <4>1. g \in uptodate
        <5>1. PICK m \in 0..PSize - 1 : m = op.off % PSize
          BY <1>2, ByteIndex
        <5>2. op.off = Start(g) + m
          BY <1>2, <1>3, <5>1, ByteIndex
        <5>3. copied # PSize
          BY <1>2, <1>4, <2>1, <2>3, <3>3, <5>1, <5>2
        <5>. QED  BY <1>6, <5>3
      <4>2. CASE o < isize
        <5>1. isize # Start(g)
          BY <3>3, <4>2, <2>1, <1>2
        <5>2. Cache(o)' = Cache(o)
          BY <1>2, <1>5, <1>7, <2>1, <2>3, <3>3, <4>2, <5>1
        <5>. QED  BY <1>2, <1>6, <2>1, <2>3, <2>4, <2>7, <3>3, <4>1, <4>2, <5>2
                  DEF ByteKnown, CacheKnown, SureAbove, Sure, Due
      <4>3. CASE o >= isize /\ kind = "plain"
        BY <1>2, <1>6, <2>1, <2>3, <3>3, <4>3 DEF CacheKnown, SureAbove, Sure
      <4>4. CASE o >= isize /\ kind = "encrypted"
        <5>1. Index(isize) = g
          BY <1>2, <1>4, <2>1, <3>3, <4>4, PageStart
        <5>2. Start(g) < isize /\ SureAbove(o)' => Cache(o) = 0
          BY <1>2, <1>6, <2>1, <2>3, <2>4, <2>7, <3>3, <4>1, <4>4
             DEF ByteKnown, CacheKnown, SureAbove, Sure, Due
        <5>3. o < op.off => op.off # 0
          BY <2>1, <1>2
        <5>4. SureAbove(o)' => Cache(o)' = 0
          BY <1>2, <1>4, <1>5, <1>7, <2>1, <2>3, <3>3, <4>4, <5>1, <5>2, <5>3
        <5>. QED  BY <1>2, <1>6, <2>1, <3>3, <4>4, <5>4 DEF CacheKnown, Due
      <4>. QED  BY <1>1, <1>2, <2>1, <4>2, <4>3, <4>4 DEF PagesTyped
    <3>. QED  BY <3>1, <3>2, <3>3
  <2>9. BelowKnown(o)' /\ BackKnown(o)'
    BY <1>3, <1>4, <1>6, <1>8, <2>1, <2>2, <2>3, <2>4, <2>5, <2>7, <1>1
       DEF ByteKnown, BelowKnown, BackKnown, SureBelow, Sure, Due, Pending, Clean, OpHolds, Growing
  <2>10. OpKnown(o)'
    BY <1>3, <1>6, <1>7, <1>8, <2>2, <2>8 DEF OpKnown, CacheKnown, Current
  <2>11. FilledKnown(o)'
    BY <1>8 DEF FilledKnown, Growing
  <2>. QED  BY <2>8, <2>9, <2>10, <2>11 DEF ByteKnown
<1>. QED  BY <1>9, <1>10, <1>11 DEF PagesInv

(* The page of a write is stored, and the size.                            *)
LEMMA write_endKeeps ==
    ASSUME PagesInv, write_end
    PROVE  PagesInv'
<1>1. PagesTyped /\ PagesPlaces /\ op.pc = "end"
  BY DEF PagesInv, write_end
<1>2. /\ op.off \in Nat /\ op.n \in Nat /\ op.to \in Nat /\ isize \in Nat /\ PSize \in Nat \ {0}
      /\ op.data \in PageData /\ Len(below) \in Nat /\ op.off <= op.to /\ op.to <= op.off + op.n
      /\ FileBytes \in Nat /\ isize <= FileBytes /\ Len(below) <= FileBytes
  BY <1>1, OpTyped, PagesConstants DEF PagesPlaces, PagesTyped
<1>3. PICK g \in Indices : g = Index(op.off)
  BY <1>1 DEF PagesPlaces, PagesTyped, WriterHolds
<1>4. /\ g \in held /\ g # back.page /\ Start(g) <= isize /\ Start(g) \in Nat /\ g \in Nat /\ g \in uptodate
      /\ Start(g) + PSize <= FileBytes /\ Start(g) <= op.off
  <2>1. Start(g) <= op.off
    BY <1>2, <1>3, ByteIndex
  <2>. QED  BY <2>1, <1>1, <1>3, PageBytesOf DEF PagesPlaces, WriterHolds
<1>5. op.to <= Start(g) + PSize
  <2>1. PICK m \in 0..PSize - 1 : m = op.off % PSize
    BY <1>2, ByteIndex
  <2>2. op.off = Start(g) + m /\ m + op.n <= PSize
    BY <1>1, <1>2, <1>3, <2>1, ByteIndex DEF PagesPlaces, WriterHolds
  <2>3. /\ op.to \in Nat /\ op.off \in Nat /\ op.n \in Nat /\ PSize \in Nat /\ Start(g) \in Nat
        /\ op.to <= op.off + op.n
    BY <1>2, <1>4
  <2>. QED  BY <2>2, <2>3
<1>6. /\ UNCHANGED <<kind, back, stores, pages, uptodate, dirty, ops, raced>>
      /\ IF kind = "plain" THEN WriteLower(Start(g), op.data, op.to - Start(g))
         ELSE WriteLower(Start(g), op.data, PSize)
      /\ isize' = IF kind = "plain" THEN Len(below') ELSE Greater(isize, op.to)
      /\ want' = [o \in Offsets |-> IF o \in isize..op.off - 1 /\ o < op.to /\ want[o] # Anything
                                    THEN 0 ELSE want[o]]
      /\ holes' = holes \cup {o \in isize..op.off - 1 : o < op.to}
      /\ StoreSize(isize') /\ held' = held \ {g} /\ op' = NoOp
  BY <1>3 DEF write_end, rest, Return
<1>7. /\ below' \in Seq(Int) /\ Len(below') <= FileBytes /\ isize' \in 0..FileBytes
      /\ kind = "plain" => /\ isize' = Len(below') /\ Len(below') >= Len(below)
                           /\ Len(below') <= Len(below) \/ Len(below') <= op.to
      /\ kind = "encrypted" => isize' = Greater(isize, op.to)
      /\ \A o \in Offsets :
           /\ Index(o) # g /\ (kind = "encrypted" \/ o < Len(below)) => Below(o)' = Below(o)
           /\ Index(o) = g /\ (kind = "encrypted" \/ o < op.to) => Below(o)' = OpByte(o)
           /\ o < Len(below) /\ o >= op.to /\ kind = "plain" => Below(o)' = Below(o)
  <2>1. CASE kind = "encrypted"
    <3>1. /\ below' \in Seq(Int) /\ Len(below') <= FileBytes
          /\ \A o \in Offsets : Below(o)' = IF Index(o) = g THEN op.data[o % PSize] ELSE Below(o)
      BY <1>1, <1>2, <1>6, <2>1, LowerPageWritten
    <3>2. isize' = Greater(isize, op.to) /\ isize' \in 0..FileBytes
      BY <1>2, <1>4, <1>5, <1>6, <2>1 DEF Greater
    <3>. QED  BY <2>1, <3>1, <3>2 DEF OpByte
  <2>2. CASE kind = "plain"
    <3>1. PICK count \in 0..PSize : count = op.to - Start(g)
      BY <1>2, <1>4, <1>5
    <3>2. /\ below' \in Seq(Int)
          /\ Len(below') = Greater(Len(below), IF count = 0 THEN 0 ELSE Start(g) + count)
          /\ \A o \in Nat : Below(o)' = IF Start(g) <= o /\ o < Start(g) + count THEN op.data[o - Start(g)]
                                        ELSE IF o < Len(below) THEN Below(o)
                                        ELSE IF o < Len(below') THEN Filler ELSE NoOne
      BY <1>1, <1>2, <1>4, <1>6, <2>2, <3>1, LowerWritten
    <3>3. /\ Len(below') <= FileBytes /\ Len(below') >= Len(below) /\ Start(g) + count = op.to
          /\ Len(below') <= Len(below) \/ Len(below') <= op.to
      <4>1. Start(g) + count = op.to
        BY <1>2, <1>4, <3>1
      <4>2. \/ count = 0 /\ Len(below') = Greater(Len(below), 0)
            \/ count # 0 /\ Len(below') = Greater(Len(below), op.to)
        BY <3>2, <4>1
      <4>. QED  BY <1>2, <1>4, <1>5, <4>1, <4>2 DEF Greater
    <3>4. isize' = Len(below') /\ isize' \in 0..FileBytes
      BY <1>2, <1>6, <2>2, <3>2, <3>3
    <3>5. ASSUME NEW o \in Offsets
          PROVE  /\ Index(o) # g /\ o < Len(below) => Below(o)' = Below(o)
                 /\ Index(o) = g /\ o < op.to => Below(o)' = OpByte(o)
                 /\ o < Len(below) /\ o >= op.to => Below(o)' = Below(o)
      <4>1. /\ o \in Nat /\ Start(Index(o)) <= o
        BY OffsetPlace
      <4>2. PICK m \in 0..PSize - 1 : m = o % PSize
        BY OffsetPlace
      <4>3. Index(o) = g => o = Start(g) + m
        BY <4>2, OffsetPlace
      <4>4. Index(o) # g => ~(Start(g) <= o /\ o < op.to)
        <5>1. Start(g) <= o /\ o < Start(g) + PSize => Index(o) = g
          BY <4>1, <1>4, PageStart
        <5>. QED  BY <4>1, <5>1, <1>2, <1>4, <1>5
      <4>5. Index(o) = g /\ o < op.to => Below(o)' = op.data[m]
        <5>1. Index(o) = g => o - Start(g) = m /\ Start(g) <= o
          BY <4>3, <1>4
        <5>. QED  BY <5>1, <4>1, <3>2, <3>3
      <4>6. Index(o) # g /\ o < Len(below) => Below(o)' = Below(o)
        BY <4>1, <4>4, <3>2, <3>3
      <4>7. o < Len(below) /\ o >= op.to => Below(o)' = Below(o)
        BY <4>1, <3>2, <3>3, <1>2
      <4>. QED  BY <4>2, <4>5, <4>6, <4>7 DEF OpByte
    <3>. QED  BY <2>2, <3>2, <3>3, <3>4, <3>5
  <2>. QED  BY <1>1, <2>1, <2>2 DEF PagesTyped
<1>8. PagesTyped'
  <2>1. held' \subseteq Indices
    BY <1>1, <1>6 DEF PagesTyped
  <2>2. header' \in 0..FileBytes
    BY <1>1, <1>6, <1>7, StoreSizeTyped
  <2>3. want' \in [Offsets -> Nat \cup {Anything}]
    BY <1>1, <1>6 DEF PagesTyped
  <2>. QED  BY <1>1, <1>6, <1>7, <2>1, <2>2, <2>3, NoOpTyped DEF PagesTyped
<1>9. PagesPlaces'
  <2>1. back # NoBack => back.page \in held'
    BY <1>1, <1>4, <1>6 DEF PagesPlaces
  <2>2. kind = "plain" => Len(below') <= isize'
    BY <1>7, <1>8, OpTyped DEF PagesTyped
  <2>. QED  BY <1>1, <1>6, <2>1, <2>2, NoOpTyped DEF PagesPlaces, Growing
<1>10. ASSUME NEW o \in Offsets PROVE ByteKnown(o)'
  <2>1. /\ ByteKnown(o) /\ o \in Nat /\ Start(Index(o)) \in Nat /\ Start(Index(o)) <= o
        /\ o < Start(Index(o)) + PSize /\ want[o] \in Nat \cup {Anything} /\ isize' \in Nat
    BY <1>1, <1>7, OffsetPlace, ByteTyped DEF PagesInv
  <2>2. Cache(o)' = Cache(o) /\ BackByte(o)' = BackByte(o) /\ op'.pc = "idle"
    BY <1>6, NoOpTyped DEF Cache, BackByte
  <2>3. want'[o] = IF isize <= o /\ o < op.off /\ want[o] # Anything THEN 0 ELSE want[o]
    BY <1>2, <1>6, <2>1
  <2>4. o \notin holes' => o \notin holes /\ ~(isize <= o /\ o < op.off)
    BY <1>2, <1>6, <2>1
  <2>5. Index(o) # g => o < Start(g) \/ Start(g) + PSize <= Start(Index(o))
    <3>2. Index(o) # g /\ g < Index(o) => Start(g) + PSize <= Start(Index(o))
      BY <1>4, OffsetPlace, PageStart
    <3>3. Index(o) # g /\ Index(o) < g => Start(Index(o)) + PSize <= Start(g)
      BY <1>4, OffsetPlace, PageStart
    <3>4. Index(o) \in Nat
      BY OffsetPlace
    <3>. QED  BY <3>2, <3>3, <3>4, <1>4, <1>2, <2>1
  <2>6. Index(o) = g => op.pc = "end" /\ Index(o) = Index(op.off)
    BY <1>1, <1>3
  <2>7. Copies(o) => Index(o) = g
    BY <1>1, <1>3, PendingPlace
  <2>8. ASSUME SureBelow(o)'
        PROVE  SureAbove(o) /\ (Index(o) # g => SureBelow(o)) /\ Due(o)' = Due(o)
    <3>1. CASE kind = "encrypted"
      <4>1. Sure(o) /\ Start(Index(o)) < isize' /\ isize' = Greater(isize, op.to)
        BY <3>1, <1>6, <1>7, <2>2, <2>3, <2>8 DEF SureBelow, Sure, Copies
      <4>2. ASSUME Index(o) # g PROVE Start(Index(o)) < isize
        <5>1. CASE o < Start(g)
          BY <5>1, <1>2, <1>4, <2>1
        <5>2. CASE Start(g) + PSize <= Start(Index(o))
          <6>1. op.to <= Start(Index(o))
            <7>1. /\ op.to \in Nat /\ Start(g) \in Nat /\ PSize \in Nat /\ Start(Index(o)) \in Nat
                  /\ op.to <= Start(g) + PSize
              BY <1>2, <1>4, <1>5, <2>1
            <7>. QED  BY <5>2, <7>1
          <6>. QED  BY <6>1, <4>1, <1>2, <2>1 DEF Greater
        <5>. QED  BY <2>5, <4>2, <5>1, <5>2
      <4>3. Due(o)' = Due(o)
        <5>1. Copies(o) <=> op.off <= o /\ o < op.to
          BY <1>1 DEF Copies
        <5>2. ~Copies(o)'
          BY <2>2 DEF Copies
        <5>3. want[o] # Anything /\ (o < isize' <=> o < isize \/ o < op.to)
          BY <4>1, <1>2, <2>1 DEF Greater, Sure
        <5>. QED  BY <5>1, <5>2, <5>3, <1>2, <2>1, <2>3 DEF Due
      <4>. QED  BY <4>1, <4>2, <4>3, <2>6 DEF SureAbove, SureBelow
    <3>2. CASE kind = "plain"
      <4>1. o < isize' /\ o \notin holes' /\ want'[o] # Anything /\ Index(o) \notin raced
        BY <3>2, <1>6, <2>2, <2>8 DEF SureBelow, Sure, Copies
      <4>2. Len(below) <= isize
        BY <3>2, <1>1 DEF PagesPlaces
      <4>3. o < isize \/ Copies(o)
        <5>1. o < isize \/ o < op.to
          BY <3>2, <4>1, <4>2, <1>2, <1>7, <2>1
        <5>. QED  BY <4>1, <5>1, <1>1, <1>2, <2>1, <2>4 DEF Copies
      <4>4. want'[o] = want[o] /\ o \notin holes
        BY <4>1, <2>3, <2>4
      <4>5. Sure(o) /\ Due(o) = want[o] /\ Due(o)' = want[o]
        BY <4>1, <4>3, <4>4, <3>2 DEF Sure, Due
      <4>6. Start(Index(o)) < isize \/ Index(o) = g
        BY <4>3, <2>1, <1>2, <2>7
      <4>. QED  BY <4>5, <4>6, <2>6 DEF SureAbove, SureBelow
    <3>. QED  BY <1>1, <3>1, <3>2 DEF PagesTyped
  <2>9. CacheKnown(o)'
    BY <1>6, <2>1, <2>2, <2>8 DEF ByteKnown, CacheKnown, SureAbove, SureBelow, Sure, Copies
  <2>10. BackKnown(o)'
    BY <1>4, <1>6, <2>1, <2>2, <2>8 DEF ByteKnown, BackKnown
  <2>11. BelowKnown(o)'
    <3>1. Clean(Index(o))' => Clean(Index(o))
      BY <1>1, <1>3, <1>6, <2>2 DEF Clean, OpHolds, Growing
    <3>2. CASE Index(o) = g /\ (kind = "encrypted" \/ o < op.to)
      <4>1. SureBelow(o)' /\ Clean(Index(o))' => OpByte(o) = Due(o)
        BY <1>1, <1>3, <2>1, <2>8, <3>1, <3>2 DEF ByteKnown, OpKnown, Current
      <4>. QED  BY <4>1, <3>2, <1>7, <2>8 DEF BelowKnown
    <3>3. CASE Index(o) # g /\ kind = "encrypted"
      <4>1. SureBelow(o)' /\ Clean(Index(o))' => Below(o) = Due(o)
        BY <1>1, <2>1, <2>7, <2>8, <3>1, <3>3 DEF ByteKnown, BelowKnown, Pending
      <4>. QED  BY <4>1, <3>3, <1>7, <2>8 DEF BelowKnown
    <3>4. CASE kind = "plain" /\ (Index(o) # g \/ o >= op.to)
      <4>1. ~Copies(o)
        BY <3>4, <2>7, <2>1, <1>2 DEF Copies
      <4>2. ASSUME SureBelow(o)', Clean(Index(o))' PROVE Below(o) = Due(o) /\ Due(o) = want[o] /\ want[o] # Anything
        <5>1. SureAbove(o) /\ o < isize
          BY <4>1, <4>2, <2>8, <3>4 DEF SureAbove, Sure
        <5>2. SureBelow(o) /\ Due(o) = want[o] /\ want[o] # Anything
          BY <5>1, <2>1, <1>2 DEF SureAbove, SureBelow, Sure, Due
        <5>. QED  BY <5>2, <4>1, <4>2, <1>1, <2>1, <3>1 DEF ByteKnown, BelowKnown, Pending
      <4>3. SureBelow(o)' /\ Clean(Index(o))' => o < Len(below)
        BY <4>2, <2>1 DEF Below, NoOne, Anything
      <4>. QED  BY <4>2, <4>3, <3>4, <1>7, <2>8 DEF BelowKnown
    <3>5. kind \in {"encrypted", "plain"}
      BY <1>1 DEF PagesTyped
    <3>. QED  BY <3>2, <3>3, <3>4, <3>5, <1>2, <2>1
  <2>12. OpKnown(o)' /\ FilledKnown(o)'
    BY <2>2 DEF OpKnown, FilledKnown, Growing
  <2>. QED  BY <2>9, <2>10, <2>11, <2>12 DEF ByteKnown
<1>. QED  BY <1>8, <1>9, <1>10 DEF PagesInv

-----------------------------------------------------------------------------
(* A turn of ecryptfs_write: zeros from pos on, in a page that is as the   *)
(* file.                                                                   *)
LEMMA grow_fillKeeps ==
    ASSUME PagesInv, grow_fill
    PROVE  PagesInv'
<1>1. PagesTyped /\ PagesPlaces /\ op.pc = "grow" /\ op.pos < op.end /\ Growing
  BY DEF PagesInv, grow_fill, Growing
<1>2. /\ op.off \in Nat /\ op.pos \in Nat /\ op.first \in Nat /\ op.end \in Nat /\ op.old \in Nat
      /\ isize \in Nat /\ PSize \in Nat \ {0} /\ op \in PagesOp
      /\ op.then \in {"none", "write", "truncate", "shrink"} /\ FileBytes \in Nat
  BY <1>1, OpTyped, PagesConstants DEF PagesTyped
<1>3. PICK g \in Indices : g = Index(op.pos)
  BY <1>1, TurnBounds
<1>4. PICK turn \in Nat : turn = Turn
  BY <1>1, TurnBounds
<1>5. /\ turn > 0 /\ op.pos + turn <= op.end /\ op.pos + turn <= Start(g) + PSize
      /\ op.then # "shrink" => op.pos <= op.first
      /\ op.pos < op.first => op.pos + turn <= op.first
      /\ op.pos >= op.first => op.pos + turn = op.end \/ op.pos + turn = Start(g) + PSize
  BY <1>1, <1>3, <1>4, TurnBounds
<1>6. /\ g \in Nat /\ Start(g) \in Nat /\ Start(g) <= op.pos /\ op.pos < Start(g) + PSize
  BY <1>2, <1>3, ByteIndex
<1>7. PICK from \in 0..PSize - 1 : from = op.pos % PSize
  BY <1>2, ByteIndex
<1>8. op.pos = Start(g) + from
  BY <1>2, <1>3, <1>7, ByteIndex
<1>9. PICK to \in Nat : to = IF op.pos < op.first \/ from = 0 THEN PSize ELSE from + turn
  BY <1>2
<1>10. from + turn <= to /\ to <= PSize /\ (to = PSize \/ (op.pos >= op.first /\ from # 0 /\ to = from + turn))
  BY <1>2, <1>5, <1>6, <1>8, <1>9
<1>11. PICK page \in PageData :
         /\ page = Zeroed(PageAt(g), from, to)
         /\ \A o \in Offsets : Index(o) = g =>
              page[o % PSize] = IF op.pos <= o /\ o < Start(g) + to THEN 0
                                ELSE IF g \in uptodate THEN Cache(o) ELSE Below(o)
  <2>1. ReadLower(g) \in PageData /\ \A o \in Offsets : Index(o) = g => ReadLower(g)[o % PSize] = Below(o)
    BY <1>1, LowerPage
  <2>2. PageAt(g) \in PageData
    BY <1>1, <2>1 DEF PageAt, PagesTyped
  <2>3. \A o \in Offsets : Index(o) = g => PageAt(g)[o % PSize] = IF g \in uptodate THEN Cache(o) ELSE Below(o)
    BY <2>1 DEF PageAt, Cache
  <2>4. /\ Zeroed(PageAt(g), from, to) \in PageData
        /\ \A b \in 0..PSize - 1 : Zeroed(PageAt(g), from, to)[b] = IF b \in from..to - 1 THEN 0 ELSE PageAt(g)[b]
    BY <2>2, ZeroedPage
  <2>5. ASSUME NEW o \in Offsets, Index(o) = g
        PROVE  Zeroed(PageAt(g), from, to)[o % PSize] =
                 IF op.pos <= o /\ o < Start(g) + to THEN 0 ELSE IF g \in uptodate THEN Cache(o) ELSE Below(o)
    <3>1. PICK b \in 0..PSize - 1 : b = o % PSize
      BY OffsetPlace
    <3>2. o = Start(g) + b
      BY <2>5, <3>1, OffsetPlace
    <3>3. b \in from..to - 1 <=> op.pos <= o /\ o < Start(g) + to
      BY <3>2, <1>2, <1>6, <1>8
    <3>. QED  BY <2>3, <2>4, <2>5, <3>1, <3>3
  <2>. QED  BY <2>4, <2>5
<1>12. /\ UNCHANGED <<kind, back, stores, isize, header, dirty, held, below, ops, holes, raced>>
       /\ pages' = [pages EXCEPT ![g] = page] /\ uptodate' = uptodate \cup {g} /\ g \notin held
       /\ want' = IF op.then = "shrink" THEN Set(Start(g) + from..Start(g) + to - 1, 0) ELSE want
       /\ op' = [op EXCEPT !.pc = "store", !.data = pages'[g]]
  BY <1>3, <1>4, <1>7, <1>9, <1>11 DEF grow_fill, rest
<1>13. /\ pages' \in [Indices -> PageData] /\ pages'[g] = page
       /\ \A o \in Offsets : Cache(o)' = IF Index(o) = g THEN page[o % PSize] ELSE Cache(o)
  BY <1>1, <1>11, <1>12, PageChanged DEF PagesTyped
<1>14. /\ op' \in PagesOp /\ op'.pc = "store" /\ op'.data = page /\ op'.pos = op.pos /\ op'.first = op.first
       /\ op'.end = op.end /\ op'.old = op.old /\ op'.then = op.then /\ op'.off = op.off /\ op'.n = op.n
  <2>1. op' = [op EXCEPT !.pc = "store", !.data = page]
    BY <1>12, <1>13
  <2>. QED  BY <1>2, <1>11, <2>1 DEF PagesOp
<1>15. Turn' = turn
  BY <1>4, <1>14 DEF Turn
<1>16. PagesTyped'
  <2>1. uptodate' \subseteq Indices /\ dirty' \subseteq uptodate'
    BY <1>1, <1>12 DEF PagesTyped
  <2>2. want' \in [Offsets -> Nat \cup {Anything}]
    BY <1>1, <1>12, SetTyped DEF PagesTyped
  <2>. QED  BY <1>1, <1>12, <1>13, <1>14, <2>1, <2>2 DEF PagesTyped
<1>17. PagesPlaces'
  BY <1>1, <1>3, <1>12, <1>14 DEF PagesPlaces, WriterHolds, Growing
<1>18. /\ op.then = "shrink" => /\ op.pos = op.off /\ op.end = Start(g) + PSize /\ to = PSize /\ op.pos < isize
                                /\ op.pos + turn = op.end /\ kind = "encrypted"
       /\ op.then # "shrink" => isize <= op.pos /\ op.first = op.end - 1
       /\ op.old = isize
  <2>1. op.then = "shrink" => /\ op.pos = op.off /\ op.end = Start(g) + PSize /\ op.first = op.off
                              /\ op.off < isize /\ kind = "encrypted"
    BY <1>1, <1>2, <1>3 DEF PagesPlaces
  <2>2. op.then # "shrink" => isize <= op.pos /\ op.first = op.end - 1
    BY <1>1 DEF PagesPlaces
  <2>3. op.old = isize
    BY <1>1 DEF PagesPlaces
  <2>. QED  BY <2>1, <2>2, <2>3, <1>2, <1>5, <1>6, <1>8, <1>9, <1>10
<1>19. ASSUME NEW o \in Offsets PROVE ByteKnown(o)'
  <2>1. /\ ByteKnown(o) /\ o \in Nat /\ Start(Index(o)) \in Nat /\ Start(Index(o)) <= o
        /\ o < Start(Index(o)) + PSize /\ Index(o) \in Nat
    BY OffsetPlace DEF PagesInv
  <2>2. Below(o)' = Below(o) /\ BackByte(o)' = BackByte(o) /\ OpByte(o)' = page[o % PSize]
    BY <1>12, <1>14 DEF Below, BackByte, OpByte
  <2>3. ~Copies(o) /\ ~Copies(o)' /\ ~Pending(o) /\ (Pending(o)' <=> op.then = "shrink" /\ op.pos <= o /\ o < op.end)
    BY <1>1, <1>14 DEF Copies, Pending
  <2>4. want'[o] = IF op.then = "shrink" /\ op.pos <= o /\ o < op.end THEN 0 ELSE want[o]
    <3>1. CASE op.then = "shrink"
      <4>1. o \in Start(g) + from..Start(g) + to - 1 <=> op.pos <= o /\ o < op.end
        BY <3>1, <1>2, <1>6, <1>8, <1>18, <2>1
      <4>2. PICK s : s = Start(g) + from..Start(g) + to - 1
        OBVIOUS
      <4>3. want' = Set(s, 0)
        BY <3>1, <4>2, <1>12
      <4>4. Set(s, 0)[o] = IF o \in s THEN 0 ELSE want[o]
        BY SetByte
      <4>. QED  BY <3>1, <4>1, <4>2, <4>3, <4>4
    <3>2. CASE op.then # "shrink"
      BY <3>2, <1>12
    <3>. QED  BY <3>1, <3>2
  <2>5. Clean(Index(o))' <=> Clean(Index(o))
    BY <1>1, <1>12, <1>14 DEF Clean, OpHolds, Growing
  <2>6. Index(o) = g => ~(back.page = Index(o))
    BY <1>1, <1>6, <1>12, BackPlace
  <2>7. op.pos <= o /\ o < op.end /\ op.then = "shrink" => Index(o) = g
    BY <2>1, <1>2, <1>6, <1>18, PageStart
  <2>8. CASE Index(o) = g
    <3>1. g \notin uptodate => Clean(g)
      BY <1>1, <1>12 DEF Clean, PagesTyped
    <3>2. Cache(o)' = IF op.pos <= o /\ o < Start(g) + to THEN 0 ELSE IF g \in uptodate THEN Cache(o) ELSE Below(o)
      BY <2>8, <1>11, <1>13
    <3>3. SureAbove(o)' => SureBelow(o) \/ (op.pos <= o /\ o < Start(g) + to)
      BY <1>1, <1>12, <1>14, <1>18, <1>2, <1>6, <2>1, <2>3, <2>4, <2>8 DEF SureAbove, SureBelow, Sure
    <3>4. SureAbove(o)' => Cache(o)' = Due(o)'
      <4>1. CASE op.pos <= o /\ o < Start(g) + to
        <5>1. op.then # "shrink" => ~(o < isize)
          BY <4>1, <1>2, <1>18, <2>1
        <5>2. op.then = "shrink" => want'[o] = 0
          BY <4>1, <1>2, <1>18, <2>1, <2>4
        <5>3. Due(o)' = 0
          BY <5>1, <5>2, <1>12, <2>3 DEF Due
        <5>. QED  BY <4>1, <5>3, <3>2
      <4>2. CASE ~(op.pos <= o /\ o < Start(g) + to)
        <5>1. Due(o)' = Due(o)
          BY <4>2, <1>2, <1>6, <1>12, <1>18, <2>1, <2>3, <2>4 DEF Due
        <5>2. SureBelow(o) => (IF g \in uptodate THEN Cache(o) ELSE Below(o)) = Due(o)
          BY <2>1, <2>3, <2>8, <3>1 DEF ByteKnown, CacheKnown, BelowKnown, SureAbove, SureBelow
        <5>. QED  BY <3>2, <3>3, <4>2, <5>1, <5>2
      <4>. QED  BY <4>1, <4>2
    <3>5. BelowKnown(o)'
      BY <1>12, <2>1, <2>2, <2>3, <2>4, <2>5 DEF ByteKnown, BelowKnown, SureBelow, Sure, Due
    <3>6. CacheKnown(o)' /\ OpKnown(o)' /\ BackKnown(o)'
      BY <1>12, <1>13, <2>2, <2>6, <2>8, <3>4 DEF CacheKnown, OpKnown, BackKnown
    <3>7. FilledKnown(o)'
      <4>1. ASSUME kind = "encrypted", Index(o) \notin raced, Region(o, op.pos)
            PROVE  Below(o) = 0 /\ (g \in uptodate => Cache(o) = 0)
        BY <1>1, <2>1, <2>8, <4>1 DEF ByteKnown, FilledKnown, FillEnd
      <4>2. Region(o, op.pos + turn) => Region(o, op.pos) \/ (op.pos <= o /\ o < Start(g) + to)
        BY <1>2, <1>6, <1>8, <1>10, <2>1, <2>8 DEF Region
      <4>3. ASSUME kind = "encrypted", Index(o) \notin raced, Region(o, op.pos + turn) PROVE Cache(o)' = 0
        BY <3>2, <4>1, <4>2, <4>3
      <4>4. FillEnd' = op.pos + turn
        BY <1>14, <1>15 DEF FillEnd
      <4>5. Region(o, op.pos)' <=> Region(o, op.pos)
        BY <1>14 DEF Region
      <4>6. Region(o, FillEnd)' <=> Region(o, op.pos + turn)
        BY <1>14, <4>4 DEF Region
      <4>7. Cache(o)' = OpByte(o)'
        BY <1>13, <2>2, <2>8
      <4>. QED  BY <1>12, <1>14, <2>2, <2>6, <2>8, <4>1, <4>3, <4>5, <4>6, <4>7 DEF FilledKnown
    <3>. QED  BY <3>5, <3>6, <3>7 DEF ByteKnown
  <2>9. CASE Index(o) # g
    <3>1. Cache(o)' = Cache(o) /\ want'[o] = want[o] /\ Due(o)' = Due(o) /\ (Index(o) \in uptodate' <=> Index(o) \in uptodate)
      BY <2>9, <1>12, <1>13, <2>3, <2>4, <2>7 DEF Due
    <3>2. SureBelow(o)' = SureBelow(o) /\ (SureAbove(o)' <=> SureAbove(o)) /\ ~Pending(o)'
      BY <2>9, <1>1, <1>12, <1>14, <2>3, <2>7, <3>1 DEF SureAbove, SureBelow, Sure
    <3>3. CacheKnown(o)' /\ BelowKnown(o)' /\ BackKnown(o)'
      BY <1>12, <2>1, <2>2, <2>3, <2>5, <3>1, <3>2 DEF ByteKnown, CacheKnown, BelowKnown, BackKnown
    <3>4. OpKnown(o)'
      BY <1>3, <1>14, <2>9 DEF OpKnown, Current
    <3>5. FilledKnown(o)'
      <4>1. Region(o, op.pos + turn) => Region(o, op.pos)
        BY <1>1, <1>3, <1>4, <2>9, RegionTurn
      <4>2. FillEnd' = op.pos + turn /\ FillEnd = op.pos
        BY <1>1, <1>14, <1>15 DEF FillEnd
      <4>3. Region(o, op.pos)' <=> Region(o, op.pos)
        BY <1>14 DEF Region
      <4>4. Region(o, FillEnd)' <=> Region(o, op.pos + turn)
        BY <1>14, <4>2 DEF Region
      <4>. QED  BY <1>1, <1>3, <1>12, <1>14, <2>1, <2>2, <2>9, <3>1, <4>1, <4>2, <4>3, <4>4 DEF ByteKnown, FilledKnown
    <3>. QED  BY <3>3, <3>4, <3>5 DEF ByteKnown
  <2>. QED  BY <2>8, <2>9
<1>. QED  BY <1>16, <1>17, <1>19 DEF PagesInv

(* The page of a turn is stored; of a plain file at most the last byte,    *)
(* which is behind the end of the file.                                    *)
LEMMA grow_storeKeeps ==
    ASSUME PagesInv, grow_store
    PROVE  PagesInv'
<1>1. PagesTyped /\ PagesPlaces /\ op.pc = "store" /\ Growing /\ op.pos < op.end
  BY DEF PagesInv, grow_store, Growing, PagesPlaces
<1>2. /\ op.off \in Nat /\ op.pos \in Nat /\ op.first \in Nat /\ op.end \in Nat /\ op.old \in Nat
      /\ isize \in Nat /\ PSize \in Nat \ {0} /\ op \in PagesOp /\ op.data \in PageData
      /\ op.then \in {"none", "write", "truncate", "shrink"} /\ FileBytes \in Nat
      /\ Len(below) \in Nat /\ Len(below) <= FileBytes
  BY <1>1, OpTyped, PagesConstants DEF PagesTyped
<1>3. PICK g \in Indices : g = Index(op.pos)
  BY <1>1, TurnBounds
<1>4. PICK turn \in Nat : turn = Turn
  BY <1>1, TurnBounds
<1>5. /\ turn > 0 /\ op.pos + turn <= op.end
      /\ op.then # "shrink" => op.pos <= op.first
      /\ op.pos < op.first => op.pos + turn <= op.first
      /\ op.pos >= op.first => op.pos + turn = op.end \/ op.pos + turn = Start(g) + PSize
  BY <1>1, <1>3, <1>4, TurnBounds
<1>6. /\ UNCHANGED <<kind, back, stores, isize, header, pages, uptodate, dirty, held, ops, want, holes, raced>>
      /\ IF kind = "plain" THEN WriteLower(op.pos, op.data, IF op.pos < op.first THEN 0 ELSE 1)
         ELSE WriteLower(Start(g), op.data, PSize)
      /\ op' = [op EXCEPT !.pc = "grow", !.pos = @ + Turn]
  BY <1>3 DEF grow_store, rest
<1>7. /\ op' \in PagesOp /\ op'.pc = "grow" /\ op'.pos = op.pos + turn /\ op'.first = op.first
      /\ op'.end = op.end /\ op'.old = op.old /\ op'.then = op.then /\ op'.off = op.off /\ op'.n = op.n
      /\ op'.data = op.data
  <2>1. op' = [op EXCEPT !.pc = "grow", !.pos = op.pos + turn] /\ op.pos + turn \in Nat
    BY <1>2, <1>4, <1>6
  <2>. QED  BY <1>2, <2>1 DEF PagesOp
<1>8. /\ op.then # "shrink" => op.first = op.end - 1 /\ isize < op.end /\ isize <= op.pos /\ op.end <= FileBytes
      /\ op.then = "shrink" => /\ op.pos = op.off /\ op.first = op.off /\ kind = "encrypted"
                               /\ op.end = Start(Index(op.off)) + PSize
      /\ op.old = isize /\ (kind = "plain" => Len(below) <= isize)
  BY <1>1, <1>2 DEF PagesPlaces
<1>9. /\ below' \in Seq(Int) /\ Len(below') <= FileBytes
      /\ kind = "encrypted" => \A o \in Offsets : Below(o)' = IF Index(o) = g THEN OpByte(o) ELSE Below(o)
      /\ kind = "plain" => /\ Len(below') <= isize \/ (op.pos + turn = op.end /\ Len(below') = op.end)
                           /\ \A o \in Offsets : o < Len(below) => Below(o)' = Below(o)
  <2>1. CASE kind = "encrypted"
    <3>1. /\ below' \in Seq(Int) /\ Len(below') <= FileBytes
          /\ \A o \in Offsets : Below(o)' = IF Index(o) = g THEN op.data[o % PSize] ELSE Below(o)
      BY <1>1, <1>2, <1>6, <2>1, LowerPageWritten
    <3>. QED  BY <2>1, <3>1 DEF OpByte
  <2>2. CASE kind = "plain"
    <3>1. op.then # "shrink" /\ op.pos <= op.first /\ op.first = op.end - 1
      BY <1>5, <1>8, <2>2
    <3>2. PICK count \in 0..PSize : count = IF op.pos < op.first THEN 0 ELSE 1
      BY <1>2
    <3>3. /\ below' \in Seq(Int)
          /\ Len(below') = Greater(Len(below), IF count = 0 THEN 0 ELSE op.pos + count)
          /\ \A o \in Nat : Below(o)' = IF op.pos <= o /\ o < op.pos + count THEN op.data[o - op.pos]
                                        ELSE IF o < Len(below) THEN Below(o)
                                        ELSE IF o < Len(below') THEN Filler ELSE NoOne
      <4>1. WriteLower(op.pos, op.data, count)
        BY <1>6, <2>2, <3>2
      <4>. QED  BY <1>1, <1>2, <4>1, LowerWritten
    <3>4. ASSUME NEW o \in Offsets, o < Len(below) PROVE Below(o)' = Below(o)
      <4>0. o \in Nat
        BY OffsetPlace
      <4>1. o \in Nat /\ ~(op.pos <= o)
        BY <1>2, <1>8, <2>2, <3>1, <3>4, <4>0
      <4>. QED  BY <3>3, <3>4, <4>1
    <3>5. CASE op.pos < op.first
      <4>1. Len(below') = Len(below)
        BY <3>2, <3>3, <3>5, <1>2 DEF Greater
      <4>. QED  BY <2>2, <3>3, <3>4, <4>1, <1>2, <1>8
    <3>6. CASE ~(op.pos < op.first)
      <4>1. op.pos + 1 = op.end /\ turn = 1
        BY <3>1, <3>6, <1>2, <1>5
      <4>2. Len(below') = op.end
        BY <3>1, <3>2, <3>3, <3>6, <4>1, <1>2, <1>8, <2>2 DEF Greater
      <4>. QED  BY <2>2, <3>1, <3>3, <3>4, <4>1, <4>2, <1>2, <1>8
    <3>. QED  BY <3>5, <3>6
  <2>. QED  BY <1>1, <2>1, <2>2 DEF PagesTyped
<1>10. PagesTyped'
  BY <1>1, <1>6, <1>7, <1>9 DEF PagesTyped
<1>11. PagesPlaces'
  <2>1. WriterHolds' <=> WriterHolds
    BY <1>6, <1>7 DEF WriterHolds
  <2>2. op.then = "shrink" => op.pos + turn = op.end
    BY <1>2, <1>3, <1>5, <1>8
  <2>3. kind = "plain" => Len(below') <= isize \/ (op.pos + turn = op.end /\ Len(below') = op.end)
    BY <1>9
  <2>. QED  BY <1>1, <1>2, <1>5, <1>6, <1>7, <1>8, <2>1, <2>2, <2>3 DEF PagesPlaces, Growing
<1>12. ASSUME NEW o \in Offsets PROVE ByteKnown(o)'
  <2>1. /\ ByteKnown(o) /\ o \in Nat /\ Start(Index(o)) \in Nat /\ Start(Index(o)) <= o
        /\ want[o] \in Nat \cup {Anything} /\ kind \in {"encrypted", "plain"}
    BY <1>1, OffsetPlace, ByteTyped DEF PagesInv, PagesTyped
  <2>2. Cache(o)' = Cache(o) /\ BackByte(o)' = BackByte(o)
    BY <1>6 DEF Cache, BackByte
  <2>3. /\ ~Copies(o) /\ ~Copies(o)' /\ ~Pending(o)' /\ (Pending(o) => Index(o) = g)
        /\ (Clean(Index(o))' <=> Clean(Index(o)))
    BY <1>1, <1>3, <1>6, <1>7, PendingPlace DEF Copies, Pending, Clean, OpHolds, Growing
  <2>4. (SureAbove(o)' <=> SureAbove(o)) /\ (SureBelow(o)' <=> SureBelow(o)) /\ Due(o)' = Due(o) /\ (SureBelow(o) => SureAbove(o))
    BY <1>1, <1>6, <1>7, <2>3 DEF SureAbove, SureBelow, Sure, Due
  <2>5. CacheKnown(o)' /\ BackKnown(o)' /\ OpKnown(o)'
    BY <1>6, <1>7, <2>1, <2>2, <2>4 DEF ByteKnown, CacheKnown, BackKnown, OpKnown
  <2>6. BelowKnown(o)'
    <3>1. CASE kind = "encrypted" /\ Index(o) = g
      BY <1>1, <1>3, <1>9, <2>1, <2>3, <2>4, <3>1 DEF ByteKnown, BelowKnown, OpKnown, Current
    <3>2. CASE kind = "encrypted" /\ Index(o) # g
      BY <1>9, <2>1, <2>3, <2>4, <3>2 DEF ByteKnown, BelowKnown
    <3>3. CASE kind = "plain"
      <4>1. ~Pending(o)
        BY <1>8, <2>3, <3>3 DEF Pending
      <4>2. ASSUME SureBelow(o), Clean(Index(o)) PROVE Below(o) = Due(o) /\ o < Len(below)
        <5>1. Below(o) = Due(o) /\ Due(o) = want[o] /\ want[o] # Anything
          BY <2>1, <2>3, <3>3, <4>1, <4>2 DEF ByteKnown, BelowKnown, SureBelow, Sure, Due
        <5>. QED  BY <5>1, <2>1 DEF Below, NoOne, Anything
      <4>. QED  BY <1>9, <2>3, <2>4, <3>3, <4>2 DEF BelowKnown
    <3>. QED  BY <2>1, <3>1, <3>2, <3>3
  <2>7. FilledKnown(o)'
    <3>1. FillEnd = op.pos + turn /\ FillEnd' = op.pos + turn /\ Growing'
      BY <1>1, <1>4, <1>7 DEF FillEnd, Growing
    <3>2. /\ Region(o, op.pos)' <=> Region(o, op.pos + turn)
          /\ Region(o, FillEnd)' <=> Region(o, op.pos + turn)
          /\ Region(o, FillEnd) <=> Region(o, op.pos + turn)
      BY <1>7, <3>1 DEF Region
    <3>3. Index(o) # g /\ Region(o, op.pos + turn) => Region(o, op.pos)
      BY <1>1, <1>3, <1>4, RegionTurn
    <3>. QED  BY <1>1, <1>3, <1>6, <1>7, <1>9, <2>1, <2>2, <3>2, <3>3 DEF ByteKnown, FilledKnown
  <2>. QED  BY <2>5, <2>6, <2>7 DEF ByteKnown
<1>. QED  BY <1>10, <1>11, <1>12 DEF PagesInv

LEMMA grow_failsKeeps ==
    ASSUME PagesInv, grow_fails
    PROVE  PagesInv'
<1>1. PagesTyped /\ PagesPlaces /\ Growing /\ op.pos < op.end
  BY DEF PagesInv, grow_fails, Growing, PagesPlaces
<1>2. /\ UNCHANGED <<kind, back, stores, isize, header, pages, uptodate, dirty, below, ops, holes, raced>>
      /\ held' = (IF op.then = "write" THEN held \ {Index(op.off)} ELSE held) /\ op' = NoOp
      /\ want' = IF op.then = "shrink" THEN Set({o \in Offsets : o >= op.off}, Anything) ELSE want
      /\ op.then = "write" => Index(op.off) # back.page
  BY <1>1 DEF grow_fails, rest, Fails, Return, PagesPlaces, WriterHolds
<1>3. op.off \in Nat /\ op.pos \in Nat /\ (op.pc = "store" /\ op.then = "shrink" => op.off <= op.pos)
  BY <1>1, OpTyped DEF PagesPlaces, Growing
<1>4. PagesTyped'
  <2>1. held' \subseteq Indices
    BY <1>1, <1>2 DEF PagesTyped
  <2>2. want' \in [Offsets -> Nat \cup {Anything}]
    BY <1>1, <1>2, SetTyped DEF PagesTyped
  <2>. QED  BY <1>1, <1>2, <2>1, <2>2, NoOpTyped DEF PagesTyped
<1>5. PagesPlaces'
  <2>1. back # NoBack => back.page \in held'
    BY <1>1, <1>2 DEF PagesPlaces
  <2>2. kind = "plain" => Len(below) <= isize
    BY <1>1, OpTyped DEF PagesPlaces
  <2>. QED  BY <1>1, <1>2, <2>1, <2>2, NoOpTyped DEF PagesPlaces, Growing
<1>6. ASSUME NEW o \in Offsets PROVE ByteKnown(o)'
  <2>1. ByteKnown(o) /\ o \in Nat
    BY OffsetPlace DEF PagesInv
  <2>2. /\ Below(o)' = Below(o) /\ Cache(o)' = Cache(o) /\ BackByte(o)' = BackByte(o) /\ op'.pc = "idle"
    BY <1>2, NoOpTyped DEF Below, Cache, BackByte
  <2>3. want'[o] = IF op.then = "shrink" /\ op.off <= o THEN Anything ELSE want[o]
    BY <1>2, <1>3, <2>1, SetByte
  <2>4. ~Copies(o) /\ ~Copies(o)' /\ ~Pending(o)' /\ (Pending(o) => op.then = "shrink" /\ op.off <= o)
    BY <1>1, <1>3, <2>1, <2>2 DEF Copies, Pending, Growing
  <2>5. Clean(Index(o))' => Clean(Index(o))
    BY <1>1, <1>2, <2>2 DEF Clean, OpHolds, Growing
  <2>6. SureAbove(o)' => SureAbove(o) /\ SureBelow(o) /\ SureBelow(o)' /\ Due(o)' = Due(o) /\ ~Pending(o)
    BY <1>2, <2>2, <2>3, <2>4 DEF SureAbove, SureBelow, Sure, Due
  <2>7. SureBelow(o)' => SureAbove(o)'
    BY DEF SureAbove, SureBelow
  <2>8. CacheKnown(o)' /\ BelowKnown(o)' /\ BackKnown(o)' /\ OpKnown(o)' /\ FilledKnown(o)'
    BY <1>2, <2>1, <2>2, <2>5, <2>6, <2>7
       DEF ByteKnown, CacheKnown, BelowKnown, OpKnown, BackKnown, FilledKnown, Growing
  <2>. QED  BY <2>8 DEF ByteKnown
<1>. QED  BY <1>4, <1>5, <1>6 DEF PagesInv

(* What was filled becomes part of the file.                               *)
LEMMA grow_endKeeps ==
    ASSUME PagesInv, grow_end
    PROVE  PagesInv'
<1>. DEFINE grown == op.pos > op.old
<1>1. PagesTyped /\ PagesPlaces /\ op.pc = "grow" /\ Growing
  BY DEF PagesInv, grow_end, Growing
<1>2. /\ op.off \in Nat /\ op.pos \in Nat /\ op.first \in Nat /\ op.end \in Nat /\ op.old \in Nat
      /\ isize \in Nat /\ PSize \in Nat \ {0} /\ op \in PagesOp
      /\ op.then \in {"none", "write", "truncate", "shrink"} /\ FileBytes \in Nat /\ isize <= FileBytes
  BY <1>1, OpTyped, PagesConstants DEF PagesTyped
<1>3. /\ op.then # "none" /\ op.old = isize /\ op.pos <= op.end
      /\ op.then # "shrink" => isize < op.end /\ op.end <= FileBytes
      /\ op.then = "write" => WriterHolds /\ op.end = Start(Index(op.off))
      /\ op.then = "shrink" => /\ op.off < isize /\ kind = "encrypted"
                               /\ op.end = Start(Index(op.off)) + PSize
      /\ kind = "plain" => Len(below) <= isize \/ (op.pos = op.end /\ Len(below) = op.end)
  BY <1>1 DEF PagesPlaces
<1>4. op.end <= FileBytes
  BY <1>2, <1>3, IndexInFile
<1>5. /\ UNCHANGED <<kind, back, stores, pages, uptodate, dirty, below, ops, raced>>
      /\ isize' = IF grown THEN op.pos ELSE isize
      /\ IF grown THEN StoreSize(op.pos) ELSE UNCHANGED header
      /\ want' = IF grown THEN Set(op.old..op.pos - 1, 0) ELSE want
      /\ holes' = IF grown THEN holes \cup (op.old..op.pos - 1) ELSE holes
      /\ \/ held' = (IF op.then = "write" THEN held \ {Index(op.off)} ELSE held) /\ op' = NoOp
         \/ /\ op' = [op EXCEPT !.pc = IF op.then = "write" THEN "begun" ELSE "setsize"]
            /\ held' = held /\ ~(op.pos < op.end) /\ op.then # "truncate"
  BY DEF grow_end, rest, Fails, Return
<1>6. /\ op' \in PagesOp /\ op'.pc \in {"idle", "begun", "setsize"}
      /\ \/ /\ op'.pc = "idle" /\ op'.then = "none"
            /\ held' = (IF op.then = "write" THEN held \ {Index(op.off)} ELSE held)
         \/ /\ op'.pc = (IF op.then = "write" THEN "begun" ELSE "setsize") /\ op'.then = op.then
            /\ op'.off = op.off /\ op'.n = op.n /\ op'.end = op.end
            /\ held' = held /\ op.pos = op.end /\ op.then \in {"write", "shrink"}
  <2>1. CASE op' = NoOp /\ held' = (IF op.then = "write" THEN held \ {Index(op.off)} ELSE held)
    BY <2>1, NoOpTyped
  <2>2. CASE /\ op' = [op EXCEPT !.pc = IF op.then = "write" THEN "begun" ELSE "setsize"]
             /\ held' = held /\ ~(op.pos < op.end) /\ op.then # "truncate"
    <3>1. op.pos = op.end /\ op.then \in {"write", "shrink"}
      BY <1>2, <1>3, <2>2
    <3>2. op' \in PagesOp
      BY <1>2, <2>2 DEF PagesOp
    <3>3. /\ op'.pc = (IF op.then = "write" THEN "begun" ELSE "setsize") /\ op'.then = op.then
          /\ op'.off = op.off /\ op'.n = op.n /\ op'.end = op.end
      BY <1>2, <2>2 DEF PagesOp
    <3>. QED  BY <2>2, <3>1, <3>2, <3>3
  <2>. QED  BY <1>5, <2>1, <2>2
<1>7. isize' \in 0..FileBytes /\ isize <= isize' /\ (op.pos = op.end => op.end <= isize')
  BY <1>2, <1>3, <1>4, <1>5
<1>8. PagesTyped'
  <2>1. held' \subseteq Indices
    BY <1>1, <1>6 DEF PagesTyped
  <2>2. header' \in 0..FileBytes
    <3>1. op.pos \in 0..FileBytes
      BY <1>2, <1>3, <1>4
    <3>. QED  BY <1>1, <1>5, <3>1, StoreSizeTyped DEF PagesTyped
  <2>3. want' \in [Offsets -> Nat \cup {Anything}]
    BY <1>1, <1>5, SetTyped DEF PagesTyped
  <2>. QED  BY <1>1, <1>5, <1>6, <1>7, <2>1, <2>2, <2>3 DEF PagesTyped
<1>9. PagesPlaces'
  <2>1. back # NoBack => back.page \in held'
    BY <1>1, <1>3, <1>6 DEF PagesPlaces, WriterHolds
  <2>2. kind = "plain" => Len(below) <= isize'
    BY <1>1, <1>2, <1>3, <1>7, OpTyped
  <2>3. op'.pc = "begun" => WriterHolds' /\ Start(Index(op.off)) <= isize' /\ op'.off = op.off /\ op'.then = "write"
    BY <1>3, <1>5, <1>6, <1>7 DEF WriterHolds
  <2>4. op'.then = "shrink" => op'.off = op.off /\ op'.off < isize' /\ op'.end = op.end /\ op.then = "shrink"
    BY <1>2, <1>3, <1>6, <1>7
  <2>5. op'.pc = "setsize" => op'.then = "shrink" /\ op'.end <= isize'
    BY <1>6, <1>7
  <2>. QED  BY <1>1, <1>3, <1>5, <1>6, <2>1, <2>2, <2>3, <2>4, <2>5 DEF PagesPlaces, Growing
<1>10. ASSUME NEW o \in Offsets PROVE ByteKnown(o)'
  <2>1. /\ ByteKnown(o) /\ o \in Nat /\ Start(Index(o)) \in Nat /\ Start(Index(o)) <= o
        /\ kind \in {"encrypted", "plain"}
    BY <1>1, OffsetPlace DEF PagesInv, PagesTyped
  <2>2. /\ Below(o)' = Below(o) /\ Cache(o)' = Cache(o) /\ BackByte(o)' = BackByte(o)
    BY <1>5 DEF Below, Cache, BackByte
  <2>3. ~Copies(o) /\ ~Copies(o)' /\ ~Pending(o) /\ ~Pending(o)'
    BY <1>1, <1>6 DEF Copies, Pending
  <2>4. want'[o] = IF grown /\ op.old <= o /\ o < op.pos THEN 0 ELSE want[o]
    <3>1. PICK span : span = op.old..op.pos - 1
      OBVIOUS
    <3>2. want' = IF grown THEN Set(span, 0) ELSE want
      BY <1>5, <3>1
    <3>3. want'[o] = IF grown /\ o \in span THEN 0 ELSE want[o]
      BY <3>2, SetByte
    <3>4. o \in span <=> op.old <= o /\ o < op.pos
      BY <1>2, <2>1, <3>1
    <3>. QED  BY <3>3, <3>4
  <2>5. o \notin holes' => o \notin holes /\ ~(grown /\ op.old <= o /\ o < op.pos)
    BY <1>2, <1>5, <2>1
  <2>6. Clean(Index(o))' => Clean(Index(o))
    BY <1>1, <1>5, <1>6 DEF Clean, OpHolds, Growing
  <2>7. (SureAbove(o)' <=> SureBelow(o)') /\ (SureBelow(o) => SureAbove(o))
    BY <1>6 DEF SureAbove, SureBelow
  <2>8. ASSUME SureBelow(o)'
        PROVE  \/ SureBelow(o) /\ Due(o)' = Due(o)
               \/ kind = "encrypted" /\ Index(o) \notin raced /\ Region(o, op.pos) /\ Due(o)' = 0
    <3>1. want'[o] # Anything /\ Index(o) \notin raced /\ Start(Index(o)) < isize'
      BY <1>5, <2>8 DEF SureBelow, Sure
    <3>2. Due(o) = (IF o < isize THEN want[o] ELSE 0) /\ Due(o)' = IF o < isize' THEN want'[o] ELSE 0
      BY <2>3 DEF Due
    <3>3. CASE kind = "encrypted" /\ grown
      <4>1. CASE Region(o, op.pos)
        <5>1. Due(o)' = 0
          BY <1>5, <2>4, <3>2, <3>3, <4>1 DEF Region
        <5>. QED  BY <3>1, <3>3, <4>1, <5>1
      <4>2. CASE ~Region(o, op.pos)
        <5>1. ~(op.old <= o /\ o < op.pos) /\ Start(Index(o)) < isize
          BY <1>2, <1>3, <1>5, <2>1, <3>1, <3>3, <4>2 DEF Region
        <5>2. want'[o] = want[o] /\ (o < isize' <=> o < isize)
          BY <1>2, <1>3, <1>5, <2>1, <2>4, <3>3, <5>1
        <5>. QED  BY <3>1, <3>2, <3>3, <5>1, <5>2 DEF SureBelow, Sure
      <4>. QED  BY <4>1, <4>2
    <3>4. CASE kind = "encrypted" /\ ~grown
      BY <1>5, <2>4, <3>1, <3>2, <3>4 DEF SureBelow, Sure
    <3>5. CASE kind = "plain"
      <4>1. o < isize' /\ o \notin holes'
        BY <1>5, <2>3, <2>8, <3>5 DEF SureBelow, Sure
      <4>2. o < isize /\ o \notin holes /\ want'[o] = want[o]
        BY <1>2, <1>3, <1>5, <2>1, <2>4, <2>5, <4>1
      <4>. QED  BY <1>2, <2>1, <3>1, <3>2, <4>1, <4>2 DEF SureBelow, Sure
    <3>. QED  BY <2>1, <3>3, <3>4, <3>5
  <2>9. FillEnd = op.pos
    BY <1>1 DEF FillEnd
  <2>10. CacheKnown(o)'
    BY <1>1, <1>5, <2>1, <2>2, <2>7, <2>8, <2>9 DEF ByteKnown, CacheKnown, FilledKnown
  <2>11. BelowKnown(o)'
    BY <1>1, <2>1, <2>2, <2>3, <2>6, <2>8 DEF ByteKnown, BelowKnown, FilledKnown
  <2>12. BackKnown(o)'
    BY <1>1, <1>5, <2>1, <2>2, <2>8, <2>9 DEF ByteKnown, BackKnown, FilledKnown
  <2>13. OpKnown(o)' /\ FilledKnown(o)'
    BY <1>6 DEF OpKnown, FilledKnown, Growing
  <2>. QED  BY <2>10, <2>11, <2>12, <2>13 DEF ByteKnown
<1>. QED  BY <1>8, <1>9, <1>10 DEF PagesInv

-----------------------------------------------------------------------------
(* The first state, and a step that changes nothing.                       *)
LEMMA PagesInitKnown == PagesInit => PagesInv
<1>. SUFFICES ASSUME PagesInit PROVE PagesInv
  OBVIOUS
<1>1. /\ kind \in {"encrypted", "plain"} /\ isize = 0 /\ header = 0 /\ below = << >>
      /\ pages = [g \in Indices |-> Uninitialised] /\ uptodate = {} /\ dirty = {} /\ held = {}
      /\ op = NoOp /\ back = NoBack /\ ops = 0 /\ stores = 0 /\ want = [o \in Offsets |-> 0]
  BY PagesConstants DEF PagesInit
<1>2. below \in Seq(Int) /\ Len(below) = 0 /\ FileBytes \in Nat
  BY <1>1, PagesConstants
<1>3. back \in [page : Int, data : PageData]
  BY <1>1, UninitialisedPage DEF NoBack
<1>4. PagesTyped
  <2>1. want \in [Offsets -> Nat \cup {Anything}] /\ pages \in [Indices -> PageData]
    BY <1>1, UninitialisedPage
  <2>. QED  BY <1>1, <1>2, <1>3, <2>1, NoOpTyped DEF PagesTyped
<1>5. PagesPlaces
  BY <1>1, <1>2, NoOpTyped DEF PagesPlaces, Growing
<1>6. ASSUME NEW o \in Offsets PROVE ByteKnown(o)
  <2>1. Index(o) \in Nat /\ Start(Index(o)) \in Nat /\ op.pc = "idle"
    BY <1>1, OffsetPlace, NoOpTyped
  <2>2. back.page # Index(o) /\ ~(Start(Index(o)) < isize)
    BY <1>1, <2>1 DEF NoBack
  <2>. QED  BY <1>1, <2>1, <2>2
            DEF ByteKnown, CacheKnown, BelowKnown, OpKnown, BackKnown, FilledKnown, SureBelow, Growing
<1>. QED  BY <1>4, <1>5, <1>6 DEF PagesInv

LEMMA PagesStepKeeps == PagesInv /\ [PagesNext]_pagesVars => PagesInv'
<1>. SUFFICES ASSUME PagesInv, [PagesNext]_pagesVars PROVE PagesInv'
  OBVIOUS
<1>1. CASE \E w \in WriteRanges : write_begin(w[1], w[2])
  BY <1>1, write_beginKeeps
<1>2. CASE \E copied \in 0..op.n : write_copy(copied)
  BY <1>2, write_copyKeeps
<1>3. CASE write_copy_short \/ write_end \/ write_end_fails
  BY <1>3, write_copy_shortKeeps, write_endKeeps, write_end_failsKeeps
<1>4. CASE \E to \in Truncations : truncate(to) \/ truncate_plain(to)
  BY <1>4, truncateKeeps, truncate_plainKeeps
<1>5. CASE grow_fill \/ grow_store \/ grow_fails \/ grow_end
  BY <1>5, grow_fillKeeps, grow_storeKeeps, grow_failsKeeps, grow_endKeeps
<1>6. CASE truncate_setsize
  BY <1>6, truncate_setsizeKeeps
<1>7. CASE \E o \in Offsets : mapped_store(o)
  BY <1>7, mapped_storeKeeps
<1>8. CASE \E g \in Indices : writepage(g) \/ readpage(g) \/ reclaim_page(g)
  BY <1>8, writepageKeeps, readpageKeeps, reclaim_pageKeeps
<1>9. CASE writepage_end \/ writepage_fails \/ reopen
  BY <1>9, writepage_endKeeps, writepage_failsKeeps, reopenKeeps
<1>10. CASE UNCHANGED pagesVars
  <2>1. UNCHANGED <<kind, isize, header, pages, uptodate, dirty, held, below, op, back, ops, stores, want, holes, raced>>
    BY <1>10 DEF pagesVars
  <2>2. PagesTyped' /\ PagesPlaces'
    BY <2>1 DEF PagesInv, PagesTyped, PagesPlaces, WriterHolds, Growing
  <2>3. ASSUME NEW o \in Offsets PROVE ByteKnown(o)'
    <3>1. ByteKnown(o)
      BY DEF PagesInv
    <3>. QED  BY <2>1, <3>1
              DEF ByteKnown, CacheKnown, BelowKnown, OpKnown, BackKnown, FilledKnown, SureAbove, SureBelow, Sure,
                  Due, Copies, Pending, Clean, OpHolds, Growing, Current, Region, FillEnd, Turn, Below, Cache,
                  OpByte, BackByte
  <2>. QED  BY <2>2, <2>3 DEF PagesInv
<1>. QED  BY <1>1, <1>2, <1>3, <1>4, <1>5, <1>6, <1>7, <1>8, <1>9, <1>10 DEF PagesNext

(* A settled page is clean, or it is up to date.                           *)
LEMMA KnownIsHeld == PagesInv => HoldsFile
<1>. SUFFICES ASSUME PagesInv, NEW o \in 0..isize - 1, Settled(Index(o)), want[o] # Anything,
                     ~(kind = "plain" /\ o \in holes)
              PROVE  ByteAt(o) = want[o]
  BY DEF HoldsFile
<1>1. PagesTyped /\ PagesPlaces /\ isize \in Nat /\ isize <= FileBytes
  BY PagesConstants DEF PagesInv, PagesTyped
<1>2. o \in Nat /\ o < isize /\ o \in Offsets
  BY <1>1, PagesConstants
<1>3. /\ Index(o) \in Indices /\ Start(Index(o)) \in Nat /\ Start(Index(o)) < isize /\ ByteKnown(o)
  BY <1>1, <1>2, OffsetPlace DEF PagesInv
<1>4. /\ Index(o) \notin held /\ Index(o) \notin raced /\ ~(op.pc = "store" /\ Index(op.pos) = Index(o))
  BY DEF Settled, Referenced
<1>5. SureAbove(o) /\ SureBelow(o) /\ Due(o) = want[o]
  BY <1>2, <1>3, <1>4 DEF SureAbove, SureBelow, Sure, Due
<1>6. CASE Index(o) \in uptodate
  BY <1>3, <1>5, <1>6 DEF ByteAt, ByteKnown, CacheKnown, Cache
<1>7. CASE Index(o) \notin uptodate
  <2>1. Clean(Index(o))
    BY <1>1, <1>4, <1>7 DEF Clean, PagesTyped
  <2>2. ~Pending(o)
    <3>1. Copies(o) => Index(o) \in held
      BY <1>1, <1>2, PendingPlace DEF PagesPlaces, WriterHolds
    <3>. QED  BY <1>1, <1>2, <1>4, <3>1, PendingPlace
  <2>3. ReadLower(Index(o))[o % PSize] = Below(o)
    BY <1>1, <1>2, <1>3, LowerPage
  <2>. QED  BY <1>3, <1>5, <1>7, <2>1, <2>2, <2>3 DEF ByteAt, ByteKnown, BelowKnown
<1>. QED  BY <1>6, <1>7

(* Whatever writes, truncations, stores through mappings, faults, write-   *)
(* back and reclaim do, in any order and whichever of them fail: what a    *)
(* page, the lower file, ecryptfs_write and ecryptfs_writepage have of a   *)
(* byte is what it should be.                                              *)
THEOREM PagesInvAlways == PagesSpec => []PagesInv
<1>. QED  BY PagesInitKnown, PagesStepKeeps, PTL DEF PagesSpec

(* The file holds what was written, stored and zeroed, whether a page is   *)
(* cached or was reclaimed and is decrypted again by ecryptfs_readpage.    *)
THEOREM FileAlwaysHeld == PagesSpec => []HoldsFile
<1>. QED  BY PagesInvAlways, KnownIsHeld, PTL

-----------------------------------------------------------------------------
(* Read-ahead.                                                             *)
Frame == [index : Places \cup {Nothing}, added : BOOLEAN, locked : BOOLEAN, uptodate : BOOLEAN,
          dirty : BOOLEAN, data : Nat \cup {Nothing}]
RaCall == [pc : {"idle", "add", "crypt", "finish", "dead"}, pages : Seq(Frames), pgs : Seq(Frames), ok : BOOLEAN]

ReadaheadTyped ==
  /\ frame \in [Frames -> Frame] /\ slot \in [Places -> Frames \cup {Nothing}]
  /\ ra \in [Readers -> RaCall]
  /\ stored \in [Places -> Nat] /\ newest \in [Places -> Nat] /\ changes \in Nat

NoRepeat(s) == \A k, j \in DOMAIN s : s[k] = s[j] => k = j
Of(t) == In(ra[t].pages) \cup In(ra[t].pgs)
New(f) == frame[f].index \in Places /\ ~frame[f].locked /\ ~frame[f].uptodate /\ ~frame[f].dirty

(* A call has pages of its own, not in the cache until it adds them.       *)
OwnPages(t) ==
  /\ NoRepeat(ra[t].pages) /\ NoRepeat(ra[t].pgs) /\ In(ra[t].pages) \cap In(ra[t].pgs) = {}
  /\ ra[t].pc = "idle" <=> ra[t] = NoCall
  /\ ra[t].pc # "idle" => ra[t].pages # << >> \/ ra[t].pgs # << >>
  /\ ra[t].pc \notin {"idle", "add"} => ra[t].pages = << >>
  /\ \A f \in In(ra[t].pages) : New(f) /\ ~frame[f].added
  /\ \A f \in In(ra[t].pgs) : /\ frame[f].index \in Places /\ ~frame[f].uptodate /\ ~frame[f].dirty
                              /\ frame[f].locked <=> frame[f].added
OthersPages == \A t, u \in Readers : t # u => Of(t) \cap Of(u) = {}

(* A page that was read for the call has the stored contents.              *)
ReadPages(t) ==
  ra[t].pc = "crypt" \/ (ra[t].pc = "finish" /\ ra[t].ok)
  => \A f \in In(ra[t].pgs) : frame[f].added /\ f \notin unread => frame[f].data = stored[frame[f].index]

(* The cache and the pages know of each other.                             *)
InPlace ==
  /\ \A g \in Places : InCache(g) => frame[slot[g]].index = g /\ frame[slot[g]].added
  /\ \A f \in Frames : frame[f].added => frame[f].index \in Places /\ slot[frame[f].index] = f

(* What is not dirty is stored.                                            *)
NewestAt(g) ==
  /\ ~InCache(g) => stored[g] = newest[g]
  /\ InCache(g) =>
       LET f == frame[slot[g]]
       IN /\ ~f.dirty => stored[g] = newest[g]
          /\ f.dirty => f.uptodate /\ slot[g] \notin unread
          /\ f.uptodate /\ slot[g] \notin unread => f.data = newest[g]
          /\ f.locked => \E t \in Readers : slot[g] \in In(ra[t].pgs)
Newest == \A g \in Places : NewestAt(g)

ReadaheadIInv == /\ ReadaheadTyped /\ OthersPages /\ InPlace /\ Newest
                 /\ \A t \in Readers : OwnPages(t) /\ ReadPages(t)

-----------------------------------------------------------------------------
LEMMA InSet == ASSUME NEW S, NEW s \in Seq(S) PROVE In(s) \subseteq S
  BY DEF In

LEMMA TailIn ==
    ASSUME NEW S, NEW s \in Seq(S), s # << >>, NoRepeat(s)
    PROVE  /\ Tail(s) \in Seq(S) /\ NoRepeat(Tail(s))
           /\ Head(s) \in S /\ Head(s) \in In(s)
           /\ In(Tail(s)) = In(s) \ {Head(s)}
<1>1. /\ Len(s) \in Nat /\ Len(s) > 0 /\ DOMAIN s = 1..Len(s) /\ Head(s) = s[1]
      /\ Tail(s) \in Seq(S) /\ Len(Tail(s)) = Len(s) - 1 /\ DOMAIN Tail(s) = 1..Len(s) - 1
      /\ \A k \in 1..Len(s) - 1 : Tail(s)[k] = s[k + 1]
  BY EmptySeq
<1>2. NoRepeat(Tail(s))
  BY <1>1 DEF NoRepeat
<1>3. ASSUME NEW x \in In(s), x # s[1] PROVE x \in In(Tail(s))
  <2>1. PICK k \in 1..Len(s) : x = s[k]
    BY <1>1 DEF In
  <2>2. k - 1 \in 1..Len(s) - 1 /\ x = Tail(s)[k - 1]
    BY <2>1, <1>1, <1>3
  <2>. QED  BY <2>2, <1>1 DEF In
<1>4. ASSUME NEW x \in In(Tail(s)) PROVE x \in In(s) /\ x # s[1]
  <2>1. PICK k \in 1..Len(s) - 1 : x = s[k + 1]
    BY <1>1 DEF In
  <2>2. k + 1 \in 1..Len(s) /\ k + 1 # 1 /\ 1 \in 1..Len(s)
    BY <2>1, <1>1
  <2>. QED  BY <2>1, <2>2, <1>1 DEF In, NoRepeat
<1>5. Head(s) \in S /\ Head(s) \in In(s)
  BY <1>1 DEF In
<1>6. In(Tail(s)) = In(s) \ {Head(s)}
  BY <1>1, <1>3, <1>4
<1>. QED  BY <1>1, <1>2, <1>5, <1>6

LEMMA AppendIn ==
    ASSUME NEW S, NEW s \in Seq(S), NEW x \in S
    PROVE  /\ Append(s, x) \in Seq(S) /\ In(Append(s, x)) = In(s) \cup {x} /\ Append(s, x) # << >>
           /\ NoRepeat(s) /\ x \notin In(s) => NoRepeat(Append(s, x))
<1>1. /\ Len(s) \in Nat /\ DOMAIN s = 1..Len(s) /\ DOMAIN Append(s, x) = 1..Len(s) + 1
      /\ \A k \in 1..Len(s) : Append(s, x)[k] = s[k]
      /\ Append(s, x)[Len(s) + 1] = x /\ Append(s, x) \in Seq(S) /\ Append(s, x) # << >>
  BY EmptySeq
<1>2. ASSUME NEW y \in In(s) \cup {x} PROVE y \in In(Append(s, x))
  <2>1. CASE y = x
    BY <2>1, <1>1 DEF In
  <2>2. CASE y \in In(s)
    <3>1. PICK k \in 1..Len(s) : y = s[k]
      BY <2>2, <1>1 DEF In
    <3>2. k \in 1..Len(s) + 1 /\ y = Append(s, x)[k]
      BY <3>1, <1>1
    <3>. QED  BY <3>2, <1>1 DEF In
  <2>. QED  BY <2>1, <2>2
<1>3. ASSUME NEW y \in In(Append(s, x)) PROVE y \in In(s) \cup {x}
  <2>1. PICK k \in 1..Len(s) + 1 : y = Append(s, x)[k]
    BY <1>1 DEF In
  <2>2. k \in 1..Len(s) \/ k = Len(s) + 1
    BY <2>1, <1>1
  <2>. QED  BY <2>1, <2>2, <1>1 DEF In
<1>4. ASSUME NoRepeat(s), x \notin In(s), NEW k \in 1..Len(s) + 1, NEW j \in 1..Len(s) + 1,
             Append(s, x)[k] = Append(s, x)[j]
      PROVE  k = j
  <2>1. /\ k \in 1..Len(s) \/ k = Len(s) + 1
        /\ j \in 1..Len(s) \/ j = Len(s) + 1
    BY <1>1
  <2>. QED  BY <2>1, <1>4, <1>1 DEF In, NoRepeat
<1>. QED  BY <1>1, <1>2, <1>3, <1>4 DEF NoRepeat

LEMMA ReadaheadIInvTyped == ReadaheadIInv => ReadaheadTyped
  BY DEF ReadaheadIInv

(* A place whose page is left alone is left alone.                         *)
LEMMA PlaceApart ==
    ASSUME NEW g \in Places, NewestAt(g), slot'[g] = slot[g], stored'[g] = stored[g], newest'[g] = newest[g],
           InCache(g) => /\ frame'[slot[g]] = frame[slot[g]]
                         /\ slot[g] \in unread' <=> slot[g] \in unread
                         /\ frame[slot[g]].locked =>
                              \A t \in Readers : slot[g] \in In(ra[t].pgs) => slot[g] \in In(ra'[t].pgs)
    PROVE  NewestAt(g)'
<1>1. CASE InCache(g)
  <2>1. InCache(g)' /\ frame'[slot'[g]] = frame[slot[g]] /\ (slot'[g] \in unread' <=> slot[g] \in unread)
    BY <1>1 DEF InCache
  <2>2. frame[slot[g]].locked => \E t \in Readers : slot'[g] \in In(ra'[t].pgs)
    BY <1>1 DEF NewestAt
  <2>. QED  BY <2>1, <2>2, <1>1 DEF NewestAt
<1>2. CASE ~InCache(g)
  BY <1>2 DEF NewestAt, InCache
<1>. QED  BY <1>1, <1>2

(* A call whose pages are left alone is left alone.                        *)
LEMMA Apart ==
    ASSUME NEW u \in Readers, OwnPages(u), ReadPages(u), ra'[u] = ra[u],
           \A f \in Of(u) : frame'[f] = frame[f] /\ (f \in unread => f \in unread'),
           \A f \in In(ra[u].pgs) : frame[f].added => stored'[frame[f].index] = stored[frame[f].index]
    PROVE  OwnPages(u)' /\ ReadPages(u)' /\ Of(u)' = Of(u)
<1>1. Of(u)' = Of(u) /\ In(ra[u].pages) \subseteq Of(u) /\ In(ra[u].pgs) \subseteq Of(u)
      /\ In(ra[u].pages)' = In(ra[u].pages) /\ In(ra[u].pgs)' = In(ra[u].pgs)
  BY DEF Of, In
<1>2. OwnPages(u)'
  BY <1>1 DEF OwnPages, New, NoRepeat, NoCall
<1>3. ReadPages(u)'
  BY <1>1 DEF ReadPages
<1>. QED  BY <1>1, <1>2, <1>3

LEMMA OfTyped ==
    ASSUME ReadaheadIInv, NEW u \in Readers
    PROVE  /\ ra[u] \in RaCall /\ Of(u) \subseteq Frames /\ \A f \in Of(u) : frame[f].index \in Places
           /\ In(ra[u].pages) \subseteq Of(u) /\ In(ra[u].pgs) \subseteq Of(u)
<1>1. ra[u] \in RaCall
  BY DEF ReadaheadIInv, ReadaheadTyped
<1>2. In(ra[u].pages) \subseteq Frames /\ In(ra[u].pgs) \subseteq Frames
  BY <1>1, InSet DEF RaCall
<1>3. \A f \in Of(u) : frame[f].index \in Places
  BY DEF ReadaheadIInv, OwnPages, Of, New
<1>. QED  BY <1>1, <1>2, <1>3 DEF Of

(* A page that rests in the cache belongs to no call.                      *)
LEMMA RestingApart ==
    ASSUME ReadaheadIInv, NEW g \in Places, InCache(g),
           ~frame[slot[g]].locked \/ frame[slot[g]].uptodate \/ frame[slot[g]].dirty
    PROVE  slot[g] \in Frames /\ \A u \in Readers : slot[g] \notin Of(u)
  BY DEF ReadaheadIInv, ReadaheadTyped, InPlace, InCache, OwnPages, Of, New

-----------------------------------------------------------------------------
LEMMA ReadpagesKeeps ==
    ASSUME ReadaheadIInv, NEW t \in Readers, NEW list \in Seq(Places), list # << >>, NoRepeat(list), readpages(t, list)
    PROVE  ReadaheadIInv'
<1>1. PICK f \in [In(list) -> Free] :
         /\ \A g, h \in In(list) : f[g] = f[h] => g = h
         /\ frame' = [x \in Frames |-> IF \E g \in In(list) : f[g] = x
                                       THEN [Unused EXCEPT !.index = CHOOSE g \in In(list) : f[g] = x]
                                       ELSE frame[x]]
         /\ ra' = [ra EXCEPT ![t] = [NoCall EXCEPT !.pc = "add", !.pages = [k \in DOMAIN list |-> f[list[k]]]]]
  BY DEF readpages
<1>2. /\ ra[t] = NoCall /\ \A g \in In(list) : slot[g] = Nothing
      /\ UNCHANGED <<slot, stored, changes, newest, unread, faulted>>
      /\ In(list) \subseteq Places
  BY InSet DEF readpages
<1>3. \A g \in In(list) : f[g] \in Frames /\ frame[f[g]] = Unused
  BY <1>1 DEF Free
<1>4. \A g \in In(list) : frame'[f[g]] = [Unused EXCEPT !.index = g]
  <2>. SUFFICES ASSUME NEW g \in In(list) PROVE frame'[f[g]] = [Unused EXCEPT !.index = g]
    OBVIOUS
  <2>1. (CHOOSE h \in In(list) : f[h] = f[g]) = g
    BY <1>1
  <2>. QED  BY <2>1, <1>1, <1>3
<1>5. \A x \in Frames : frame[x].index \in Places => frame'[x] = frame[x]
  <2>. SUFFICES ASSUME NEW x \in Frames, frame[x].index \in Places PROVE frame'[x] = frame[x]
    OBVIOUS
  <2>1. ~\E g \in In(list) : f[g] = x
    BY <1>3, ReadaheadAssumption DEF Unused
  <2>. QED  BY <2>1, <1>1
<1>6. \A u \in Readers \ {t} : ra'[u] = ra[u]
  BY <1>1
<1>. DEFINE taken == [k \in DOMAIN list |-> f[list[k]]]
<1>7. /\ taken \in Seq(Frames) /\ taken # << >> /\ NoRepeat(taken) /\ DOMAIN taken = DOMAIN list
      /\ In(taken) = {f[g] : g \in In(list)}
  <2>1. /\ Len(list) \in Nat /\ DOMAIN list = 1..Len(list) /\ Len(list) # 0
        /\ \A k \in 1..Len(list) : list[k] \in In(list)
    BY EmptySeq DEF In
  <2>2. taken \in [1..Len(list) -> Frames]
    BY <2>1, <1>3
  <2>3. taken \in Seq(Frames) /\ Len(taken) = Len(list)
    BY <2>2, <2>1
  <2>4. NoRepeat(taken)
    BY <2>1, <1>1 DEF NoRepeat
  <2>5. In(taken) = {f[g] : g \in In(list)}
    <3>1. In(taken) = {taken[k] : k \in 1..Len(list)}
      BY <2>1 DEF In
    <3>2. In(list) = {list[k] : k \in 1..Len(list)}
      BY <2>1 DEF In
    <3>3. \A k \in 1..Len(list) : taken[k] = f[list[k]] /\ list[k] \in In(list)
      BY <2>1
    <3>. HIDE DEF taken
    <3>4. ASSUME NEW x \in In(taken)
          PROVE  x \in {f[g] : g \in In(list)}
      <4>1. PICK k \in 1..Len(list) : x = taken[k]
        BY <3>1
      <4>. QED  BY <4>1, <3>3
    <3>5. ASSUME NEW g \in In(list)
          PROVE  f[g] \in In(taken)
      <4>1. PICK k \in 1..Len(list) : g = list[k]
        BY <3>2
      <4>2. f[g] = taken[k]
        BY <4>1, <3>3
      <4>. QED  BY <4>2, <3>1
    <3>. QED  BY <3>4, <3>5
  <2>. QED  BY <2>1, <2>3, <2>4, <2>5
<1>8. ra'[t] = [pc |-> "add", pages |-> taken, pgs |-> << >>, ok |-> TRUE]
  BY <1>1, <1>7, ReadaheadIInvTyped DEF NoCall, ReadaheadTyped
<1>. HIDE DEF taken
<1>9. In(<< >>) = {} /\ NoRepeat(<< >>)
  BY DEF In, NoRepeat
<1>10. ReadaheadTyped'
  <2>1. frame' \in [Frames -> Frame]
    BY <1>1, <1>2, <1>3, <1>4, ReadaheadIInvTyped DEF Frame, Unused, ReadaheadTyped
  <2>2. ra'[t] \in RaCall
    BY <1>7, <1>8 DEF RaCall
  <2>3. ra' \in [Readers -> RaCall]
    BY <2>2, <1>1, ReadaheadIInvTyped DEF ReadaheadTyped
  <2>. QED  BY <2>1, <2>3, <1>2, ReadaheadIInvTyped DEF ReadaheadTyped
<1>11. \A u \in Readers : Of(u) \subseteq Frames /\ \A x \in Of(u) : frame[x].index \in Places
  BY OfTyped
<1>12. ASSUME NEW u \in Readers \ {t} PROVE OwnPages(u)' /\ ReadPages(u)' /\ Of(u)' = Of(u)
  <2>1. \A x \in Of(u) : frame'[x] = frame[x] /\ (x \in unread => x \in unread')
    BY <1>2, <1>5, <1>11
  <2>2. stored' = stored /\ OwnPages(u) /\ ReadPages(u)
    BY <1>2 DEF ReadaheadIInv
  <2>3. u \in Readers /\ ra'[u] = ra[u] /\ \A f_1 \in In(ra[u].pgs) : stored'[frame[f_1].index] = stored[frame[f_1].index]
    BY <2>2, <1>6
  <2>. QED  BY <2>1, <2>2, <2>3, Apart
<1>13. Of(t)' = In(taken) /\ \A x \in In(taken) : x \in Frames /\ frame[x].index \notin Places
  <2>1. Of(t)' = In(taken)
    BY <1>8, <1>9 DEF Of
  <2>2. \A x \in In(taken) : x \in Frames /\ frame[x].index \notin Places
    BY <1>3, <1>7, ReadaheadAssumption DEF Unused
  <2>. QED  BY <2>1, <2>2
<1>14. OthersPages'
  BY <1>11, <1>12, <1>13 DEF OthersPages, ReadaheadIInv
<1>15. OwnPages(t)' /\ ReadPages(t)'
  <2>1. \A x \in In(taken) : New(x)' /\ ~frame'[x].added
    <3>. SUFFICES ASSUME NEW g \in In(list) PROVE New(f[g])' /\ ~frame'[f[g]].added
      BY <1>7
    <3>. QED  BY <1>2, <1>4 DEF New, Unused
  <2>. QED  BY <2>1, <1>7, <1>8, <1>9 DEF OwnPages, ReadPages, NoCall
<1>16. InPlace'
  <2>1. \A g \in Places : InCache(g) => slot[g] \in Frames /\ frame[slot[g]].index \in Places
    BY DEF ReadaheadIInv, ReadaheadTyped, InPlace, InCache
  <2>2. \A x \in Frames : frame'[x].added => frame'[x] = frame[x]
    BY <1>1, <1>3, <1>4 DEF Unused
  <2>. QED  BY <2>1, <2>2, <1>2, <1>5 DEF InPlace, InCache, ReadaheadIInv
<1>17. Newest'
  <2>1. \A g \in Places : InCache(g) => slot[g] \in Frames /\ frame[slot[g]].index \in Places
    BY DEF ReadaheadIInv, ReadaheadTyped, InPlace, InCache
  <2>2. ra[t].pgs = << >>
    BY <1>2 DEF NoCall
  <2>3. \A g \in Places, u \in Readers : InCache(g) /\ slot[g] \in In(ra[u].pgs) => slot[g] \in In(ra'[u].pgs)
    BY <2>2, <1>6, <1>9
  <2>4. ASSUME NEW g \in Places PROVE NewestAt(g)'
    BY <2>1, <2>3, <1>2, <1>5, PlaceApart DEF Newest, ReadaheadIInv
  <2>. QED  BY <2>4 DEF Newest
<1>. QED  BY <1>10, <1>12, <1>14, <1>15, <1>16, <1>17 DEF ReadaheadIInv

(* A step of one call that keeps to its own pages.                         *)
LEMMA OthersApart ==
    ASSUME ReadaheadIInv, NEW t \in Readers, \A u \in Readers \ {t} : ra'[u] = ra[u],
           \A f \in Frames : f \notin Of(t) => frame'[f] = frame[f] /\ (f \in unread => f \in unread'),
           stored' = stored, Of(t)' \subseteq Of(t)
    PROVE  /\ \A u \in Readers \ {t} : OwnPages(u)' /\ ReadPages(u)'
           /\ OthersPages'
<1>1. ASSUME NEW u \in Readers \ {t} PROVE OwnPages(u)' /\ ReadPages(u)' /\ Of(u)' = Of(u)
  <2>1. Of(u) \cap Of(t) = {} /\ OwnPages(u) /\ ReadPages(u)
    BY DEF ReadaheadIInv, OthersPages
  <2>2. \A f \in Of(u) : frame'[f] = frame[f] /\ (f \in unread => f \in unread')
    BY <2>1, OfTyped
  <2>3. u \in Readers /\ ra'[u] = ra[u] /\ \A f \in In(ra[u].pgs) : stored'[frame[f].index] = stored[frame[f].index]
    OBVIOUS
  <2>. QED  BY <2>1, <2>2, <2>3, Apart
<1>2. OthersPages'
  BY <1>1 DEF OthersPages, ReadaheadIInv
<1>. QED  BY <1>1, <1>2

LEMMA AddKeeps ==
    ASSUME ReadaheadIInv, NEW t \in Readers, add(t)
    PROVE  ReadaheadIInv'
<1>f. PICK f : f = Head(ra[t].pages)
  OBVIOUS
<1>g. PICK g : g = frame[f].index
  OBVIOUS
<1>1. /\ ra[t].pc = "add" /\ ra[t].pages # << >> /\ ra \in [Readers -> RaCall] /\ ra[t] \in RaCall
      /\ ra' = [ra EXCEPT ![t].pages = Tail(@), ![t].pgs = Append(@, f)]
      /\ UNCHANGED <<stored, reads, changes, newest, unread, faulted>>
  BY <1>f, OfTyped, ReadaheadIInvTyped DEF add, Added, ReadaheadTyped
<1>2. /\ OwnPages(t) /\ ReadaheadTyped /\ ra[t].pages \in Seq(Frames) /\ ra[t].pgs \in Seq(Frames)
      /\ NoRepeat(ra[t].pages) /\ NoRepeat(ra[t].pgs)
  BY <1>1, ReadaheadIInvTyped DEF ReadaheadIInv, RaCall, OwnPages
<1>3. /\ Tail(ra[t].pages) \in Seq(Frames) /\ NoRepeat(Tail(ra[t].pages)) /\ f \in Frames /\ f \in In(ra[t].pages)
      /\ In(Tail(ra[t].pages)) = In(ra[t].pages) \ {f}
  BY <1>1, <1>2, <1>f, TailIn
<1>4. f \notin In(ra[t].pgs) /\ New(f) /\ ~frame[f].added /\ g \in Places
  BY <1>2, <1>3, <1>g DEF OwnPages, New
<1>5. /\ Append(ra[t].pgs, f) \in Seq(Frames) /\ In(Append(ra[t].pgs, f)) = In(ra[t].pgs) \cup {f}
      /\ Append(ra[t].pgs, f) # << >> /\ NoRepeat(Append(ra[t].pgs, f))
  BY <1>2, <1>3, <1>4, AppendIn
<1>6. /\ ra'[t].pc = "add" /\ ra'[t].pages = Tail(ra[t].pages) /\ ra'[t].pgs = Append(ra[t].pgs, f)
      /\ \A u \in Readers \ {t} : ra'[u] = ra[u]
      /\ ra' \in [Readers -> RaCall]
  BY <1>1, <1>3, <1>5 DEF RaCall
<1>7. \/ slot[g] = Nothing /\ slot' = [slot EXCEPT ![g] = f]
            /\ frame' = [frame EXCEPT ![f].added = TRUE, ![f].locked = TRUE]
      \/ UNCHANGED <<slot, frame>>
  BY <1>f, <1>g DEF add
<1>8. frame[f] \in Frame
  BY <1>2, <1>3 DEF ReadaheadTyped
<1>9. CASE slot[g] = Nothing /\ slot' = [slot EXCEPT ![g] = f]
             /\ frame' = [frame EXCEPT ![f].added = TRUE, ![f].locked = TRUE]
  <2>1. /\ frame'[f] \in Frame /\ frame'[f].index = g /\ frame'[f].added /\ frame'[f].locked
        /\ ~frame'[f].uptodate /\ ~frame'[f].dirty /\ \A x \in Frames \ {f} : frame'[x] = frame[x]
        /\ frame' \in [Frames -> Frame]
    BY <1>2, <1>3, <1>4, <1>8, <1>9, <1>g DEF ReadaheadTyped, Frame, New
  <2>2. /\ slot'[g] = f /\ \A h \in Places \ {g} : slot'[h] = slot[h]
        /\ slot' \in [Places -> Frames \cup {Nothing}]
    BY <1>2, <1>3, <1>4, <1>9 DEF ReadaheadTyped
  <2>3. Of(t)' = Of(t) /\ f \in Of(t)
    BY <1>3, <1>5, <1>6 DEF Of
  <2>4. (\A u \in Readers \ {t} : OwnPages(u)' /\ ReadPages(u)') /\ OthersPages'
    BY <2>1, <2>3, <1>1, <1>6, OthersApart
  <2>5. OwnPages(t)' /\ ReadPages(t)'
    <3>1. \A x \in In(ra'[t].pages) : New(x)' /\ ~frame'[x].added
      BY <1>2, <1>3, <1>6, <2>1, OfTyped DEF OwnPages, New
    <3>2. \A x \in In(ra'[t].pgs) : /\ frame'[x].index \in Places /\ ~frame'[x].uptodate /\ ~frame'[x].dirty
                                    /\ frame'[x].locked <=> frame'[x].added
      BY <1>2, <1>4, <1>5, <1>6, <2>1, OfTyped DEF OwnPages
    <3>. QED  BY <1>2, <1>3, <1>4, <1>5, <1>6, <3>1, <3>2 DEF OwnPages, ReadPages, NoCall
  <2>6. \A h \in Places : InCache(h) => slot[h] \in Frames /\ slot[h] # f
    BY <1>2, <1>4 DEF ReadaheadIInv, ReadaheadTyped, InPlace, InCache
  <2>7. InPlace'
    BY <2>1, <2>2, <2>6, <1>4, <1>9, <1>3, ReadaheadAssumption DEF InPlace, ReadaheadIInv, InCache
  <2>8. Newest'
    <3>1. \A u \in Readers : In(ra[u].pgs) \subseteq In(ra'[u].pgs)
      BY <1>5, <1>6
    <3>2. f \in In(ra'[t].pgs)
      BY <1>5, <1>6
    <3>3. ASSUME NEW h \in Places \ {g} PROVE NewestAt(h)'
      <4>1. NewestAt(h) /\ slot'[h] = slot[h] /\ (InCache(h) => frame'[slot[h]] = frame[slot[h]])
        BY <2>1, <2>2, <2>6 DEF Newest, ReadaheadIInv
      <4>. QED  BY <4>1, <3>1, <1>1, PlaceApart
    <3>4. NewestAt(g)'
      <4>1. stored[g] = newest[g] /\ ~frame'[f].dirty /\ ~frame'[f].uptodate
        BY <2>1, <1>4, <1>9 DEF Newest, NewestAt, ReadaheadIInv, InCache
      <4>. QED  BY <3>2, <4>1, <2>2, <1>1 DEF NewestAt
    <3>. QED  BY <3>3, <3>4 DEF Newest
  <2>9. ReadaheadTyped'
    BY <2>1, <2>2, <1>1, <1>2, <1>6 DEF ReadaheadTyped
  <2>. QED  BY <2>4, <2>5, <2>7, <2>8, <2>9 DEF ReadaheadIInv
<1>10. CASE UNCHANGED <<slot, frame>>
  <2>3. Of(t)' = Of(t)
    BY <1>3, <1>5, <1>6 DEF Of
  <2>4. (\A u \in Readers \ {t} : OwnPages(u)' /\ ReadPages(u)') /\ OthersPages'
    BY <2>3, <1>1, <1>6, <1>10, OthersApart
  <2>5. OwnPages(t)' /\ ReadPages(t)'
    <3>1. \A x \in In(ra'[t].pages) : New(x)' /\ ~frame'[x].added
      BY <1>2, <1>3, <1>6, <1>10 DEF OwnPages, New
    <3>2. \A x \in In(ra'[t].pgs) : /\ frame'[x].index \in Places /\ ~frame'[x].uptodate /\ ~frame'[x].dirty
                                    /\ frame'[x].locked <=> frame'[x].added
      BY <1>2, <1>4, <1>5, <1>6, <1>10 DEF OwnPages, New
    <3>. QED  BY <1>2, <1>3, <1>4, <1>5, <1>6, <3>1, <3>2 DEF OwnPages, ReadPages, NoCall
  <2>7. InPlace'
    BY <1>10 DEF InPlace, ReadaheadIInv, InCache
  <2>8. Newest'
    <3>1. \A u \in Readers : In(ra[u].pgs) \subseteq In(ra'[u].pgs)
      BY <1>5, <1>6
    <3>2. ASSUME NEW h \in Places PROVE NewestAt(h)'
      <4>1. NewestAt(h) /\ slot'[h] = slot[h] /\ frame'[slot[h]] = frame[slot[h]]
        BY <1>10 DEF Newest, ReadaheadIInv
      <4>. QED  BY <4>1, <3>1, <1>1, PlaceApart
    <3>. QED  BY <3>2 DEF Newest
  <2>9. ReadaheadTyped'
    BY <1>10, <1>1, <1>2, <1>6 DEF ReadaheadTyped
  <2>. QED  BY <2>4, <2>5, <2>7, <2>8, <2>9 DEF ReadaheadIInv
<1>. QED  BY <1>7, <1>9, <1>10

LEMMA DecryptKeeps ==
    ASSUME ReadaheadIInv, NEW t \in Readers,
           decrypt_pages_read(t) \/ decrypt_pages_nomem(t) \/ decrypt_pages_crypt(t)
    PROVE  ReadaheadIInv'
<1>1. /\ ra \in [Readers -> RaCall] /\ ra[t] \in RaCall /\ OwnPages(t) /\ ReadPages(t) /\ ReadaheadTyped
      /\ ra[t].pages \in Seq(Frames) /\ ra[t].pgs \in Seq(Frames)
  BY OfTyped, ReadaheadIInvTyped DEF ReadaheadTyped, ReadaheadIInv, RaCall
<1>2. /\ UNCHANGED <<slot, stored, reads, changes, newest>>
      /\ ra[t].pc = "crypt" \/ (ra[t].pc = "add" /\ ra[t].pages = << >>)
  BY DEF decrypt_pages_read, decrypt_pages_nomem, decrypt_pages_crypt
<1>3. PICK to \in {"crypt", "finish", "dead"}, ok \in BOOLEAN : ra' = [ra EXCEPT ![t].pc = to, ![t].ok = ok]
  <2>1. CASE decrypt_pages_read(t)
    <3>1. PICK to \in {"crypt", "dead"} : ra' = [ra EXCEPT ![t].pc = to]
      BY <2>1 DEF decrypt_pages_read
    <3>2. ra' = [ra EXCEPT ![t].pc = to, ![t].ok = ra[t].ok] /\ ra[t].ok \in BOOLEAN
      BY <3>1, <1>1 DEF RaCall
    <3>. QED  BY <3>2
  <2>2. CASE decrypt_pages_nomem(t)
    BY <2>2 DEF decrypt_pages_nomem
  <2>3. CASE decrypt_pages_crypt(t)
    BY <2>3 DEF decrypt_pages_crypt
  <2>. QED  BY <2>1, <2>2, <2>3
<1>4. /\ ra'[t].pc = to /\ ra'[t].ok = ok /\ ra'[t].pages = ra[t].pages /\ ra'[t].pgs = ra[t].pgs
      /\ \A u \in Readers \ {t} : ra'[u] = ra[u]
      /\ ra' \in [Readers -> RaCall]
  BY <1>1, <1>3 DEF RaCall
<1>5. /\ frame' \in [Frames -> Frame] /\ \A f \in Frames : f \notin In(ra[t].pgs) => frame'[f] = frame[f]
      /\ \A f \in Frames : f \notin In(ra[t].pgs) => (f \in unread' <=> f \in unread)
      /\ \A f \in Frames : f \in unread => f \in unread'
      /\ \A f \in In(ra[t].pgs) :
           /\ frame'[f].index = frame[f].index /\ frame'[f].added = frame[f].added /\ frame'[f].locked = frame[f].locked
           /\ frame'[f].uptodate = frame[f].uptodate /\ frame'[f].dirty = frame[f].dirty
           /\ to = "crypt" \/ (to = "finish" /\ ok) =>
                (frame[f].added /\ f \notin unread' => frame'[f].data = stored[frame[f].index])
  <2>1. CASE decrypt_pages_read(t)
    <3>1. CASE UNCHANGED <<frame, unread>> /\ ra' = [ra EXCEPT ![t].pc = "dead"]
      <4>1. to = "dead"
        BY <3>1, <1>1, <1>4 DEF RaCall
      <4>. QED  BY <3>1, <4>1, <1>1 DEF ReadaheadTyped
    <3>2. CASE \E unlucky \in SUBSET In(ra[t].pgs) :
                 /\ frame' = [f \in Frames |-> IF f \in In(ra[t].pgs) \ unlucky
                                               THEN [frame[f] EXCEPT !.data = stored[frame[f].index]]
                                               ELSE frame[f]]
                 /\ unread' = unread \cup unlucky
      <4>1. PICK unlucky \in SUBSET In(ra[t].pgs) :
                 /\ frame' = [f \in Frames |-> IF f \in In(ra[t].pgs) \ unlucky
                                               THEN [frame[f] EXCEPT !.data = stored[frame[f].index]]
                                               ELSE frame[f]]
                 /\ unread' = unread \cup unlucky
        BY <3>2
      <4>2. ASSUME NEW f \in In(ra[t].pgs)
            PROVE  /\ f \in Frames /\ frame[f] \in Frame /\ stored[frame[f].index] \in Nat
                   /\ frame'[f] = IF f \in unlucky THEN frame[f] ELSE [frame[f] EXCEPT !.data = stored[frame[f].index]]
        BY <4>1, <1>1, OfTyped DEF ReadaheadTyped
      <4>3. ASSUME NEW f \in In(ra[t].pgs)
            PROVE  /\ frame'[f] \in Frame
                   /\ frame'[f].index = frame[f].index /\ frame'[f].added = frame[f].added /\ frame'[f].locked = frame[f].locked
                   /\ frame'[f].uptodate = frame[f].uptodate /\ frame'[f].dirty = frame[f].dirty
                   /\ f \notin unread' => frame'[f].data = stored[frame[f].index]
        BY <4>2, <4>1 DEF Frame
      <4>4. ASSUME NEW f \in Frames, f \notin In(ra[t].pgs) PROVE frame'[f] = frame[f] /\ frame[f] \in Frame
        BY <4>1, <4>4, <1>1 DEF ReadaheadTyped
      <4>5. frame' \in [Frames -> Frame]
        <5>1. \A f \in Frames : frame'[f] \in Frame
          BY <4>3, <4>4
        <5>. QED  BY <5>1, <4>1
      <4>. QED  BY <4>1, <4>3, <4>4, <4>5
    <3>. QED  BY <2>1, <3>1, <3>2 DEF decrypt_pages_read
  <2>2. CASE decrypt_pages_nomem(t)
    <3>1. ra' = [ra EXCEPT ![t].pc = "finish", ![t].ok = FALSE] /\ UNCHANGED <<frame, unread>>
      BY <2>2 DEF decrypt_pages_nomem
    <3>2. to = "finish" /\ ~ok
      BY <3>1, <1>1, <1>4 DEF RaCall
    <3>. QED  BY <3>1, <3>2, <1>1 DEF ReadaheadTyped
  <2>3. CASE decrypt_pages_crypt(t)
    <3>1. UNCHANGED <<frame, unread>> /\ ra[t].pc = "crypt"
      BY <2>3 DEF decrypt_pages_crypt
    <3>. QED  BY <3>1, <1>1 DEF ReadaheadTyped, ReadPages
  <2>. QED  BY <2>1, <2>2, <2>3
<1>6. Of(t)' = Of(t) /\ In(ra[t].pgs) \subseteq Of(t) /\ Of(t) \subseteq Frames
  BY <1>4, OfTyped DEF Of
<1>7. (\A u \in Readers \ {t} : OwnPages(u)' /\ ReadPages(u)') /\ OthersPages'
  BY <1>2, <1>4, <1>5, <1>6, OthersApart
<1>8. OwnPages(t)'
  <2>1. ra'[t].pages = << >> /\ ra'[t].pgs # << >> /\ In(<< >>) = {} /\ ra'[t].pc # "idle"
    BY <1>1, <1>2, <1>4 DEF OwnPages, In
  <2>2. ra'[t] # NoCall
    BY <2>1 DEF NoCall
  <2>3. \A f \in In(ra'[t].pgs) : /\ frame'[f].index \in Places /\ ~frame'[f].uptodate /\ ~frame'[f].dirty
                                  /\ frame'[f].locked <=> frame'[f].added
    BY <1>1, <1>4, <1>5 DEF OwnPages
  <2>. QED  BY <2>1, <2>2, <2>3, <1>1, <1>4 DEF OwnPages
<1>9. ReadPages(t)'
  BY <1>2, <1>4, <1>5 DEF ReadPages
<1>10. \A f \in Frames : frame'[f].index = frame[f].index /\ frame'[f].added = frame[f].added
  BY <1>5
<1>11. InPlace'
  <2>1. InPlace /\ \A g \in Places : InCache(g) => slot[g] \in Frames
    BY <1>1 DEF ReadaheadIInv, InCache, ReadaheadTyped
  <2>. QED  BY <2>1, <1>2, <1>10 DEF InPlace, InCache
<1>12. Newest'
  <2>1. ASSUME NEW g \in Places PROVE NewestAt(g)'
    <3>0. NewestAt(g) /\ slot'[g] = slot[g] /\ (InCache(g) => slot[g] \in Frames)
      BY <1>1, <1>2 DEF Newest, ReadaheadIInv, InCache, ReadaheadTyped
    <3>1. \A u \in Readers : In(ra'[u].pgs) = In(ra[u].pgs)
      BY <1>4
    <3>2. CASE InCache(g) => slot[g] \notin In(ra[t].pgs)
      BY <3>0, <3>1, <3>2, <1>2, <1>5, PlaceApart
    <3>3. CASE InCache(g) /\ slot[g] \in In(ra[t].pgs)
      <4>1. ~frame[slot[g]].dirty /\ ~frame[slot[g]].uptodate
        BY <3>3, <1>1 DEF OwnPages
      <4>2. ~frame'[slot'[g]].dirty /\ ~frame'[slot'[g]].uptodate /\ slot'[g] \in In(ra'[t].pgs)
        BY <4>1, <3>0, <3>1, <3>3, <1>5
      <4>3. stored'[g] = newest'[g]
        BY <4>1, <3>0, <3>3, <1>2 DEF NewestAt
      <4>. QED  BY <4>2, <4>3 DEF NewestAt
    <3>. QED  BY <3>2, <3>3
  <2>. QED  BY <2>1 DEF Newest
<1>13. ReadaheadTyped'
  BY <1>1, <1>2, <1>4, <1>5 DEF ReadaheadTyped
<1>. QED  BY <1>7, <1>8, <1>9, <1>11, <1>12, <1>13 DEF ReadaheadIInv

LEMMA FinishKeeps ==
    ASSUME ReadaheadIInv, NEW t \in Readers, finish(t)
    PROVE  ReadaheadIInv'
<1>1. /\ ra \in [Readers -> RaCall] /\ ra[t] \in RaCall /\ OwnPages(t) /\ ReadPages(t) /\ ReadaheadTyped
      /\ ra[t].pages \in Seq(Frames) /\ ra[t].pgs \in Seq(Frames) /\ InPlace /\ Newest
  BY OfTyped, ReadaheadIInvTyped DEF ReadaheadTyped, ReadaheadIInv, RaCall
<1>2. /\ UNCHANGED <<slot, stored, reads, changes, newest>>
      /\ ra[t].pc = "finish" /\ ra[t].pages = << >> /\ ra[t].pgs # << >> /\ NoRepeat(ra[t].pgs)
  BY <1>1 DEF finish, OwnPages
<1>3. PICK f : f = Head(ra[t].pgs)
  OBVIOUS
<1>4. /\ Tail(ra[t].pgs) \in Seq(Frames) /\ NoRepeat(Tail(ra[t].pgs)) /\ f \in Frames /\ f \in In(ra[t].pgs)
      /\ In(Tail(ra[t].pgs)) = In(ra[t].pgs) \ {f}
  BY <1>1, <1>2, <1>3, TailIn
<1>5. In(<< >>) = {} /\ NoRepeat(<< >>)
  BY DEF In, NoRepeat
<1>6. /\ \A u \in Readers \ {t} : ra'[u] = ra[u]
      /\ ra' \in [Readers -> RaCall]
      /\ ra'[t].pages = << >> /\ In(ra'[t].pgs) = In(ra[t].pgs) \ {f} /\ NoRepeat(ra'[t].pgs)
      /\ ra'[t].pc = "idle" <=> ra'[t] = NoCall
      /\ ra'[t].pc # "idle" => ra'[t].pgs # << >> /\ ra'[t].pc = "finish" /\ ra'[t].ok = ra[t].ok
  <2>1. CASE Len(ra[t].pgs) = 1
    <3>1. ra'[t] = NoCall /\ ra' = [ra EXCEPT ![t] = NoCall]
      BY <2>1, <1>1 DEF finish
    <3>2. NoCall \in RaCall
      BY DEF NoCall, RaCall
    <3>3. Tail(ra[t].pgs) = << >>
      BY <2>1, <1>1, <1>2
    <3>4. In(ra[t].pgs) \ {f} = {}
      BY <3>3, <1>4, <1>5
    <3>. QED  BY <3>1, <3>2, <3>4, <1>1, <1>5 DEF NoCall
  <2>2. CASE Len(ra[t].pgs) # 1
    <3>1. ra' = [ra EXCEPT ![t].pgs = Tail(ra[t].pgs)]
      BY <2>2 DEF finish
    <3>2. /\ ra'[t].pc = "finish" /\ ra'[t].pages = << >> /\ ra'[t].pgs = Tail(ra[t].pgs) /\ ra'[t].ok = ra[t].ok
          /\ ra'[t] \in RaCall /\ ra' \in [Readers -> RaCall] /\ \A u \in Readers \ {t} : ra'[u] = ra[u]
      BY <3>1, <1>1, <1>2, <1>4 DEF RaCall
    <3>3. Tail(ra[t].pgs) # << >>
      <4>1. /\ Len(ra[t].pgs) \in Nat /\ Len(ra[t].pgs) # 0 /\ Len(ra[t].pgs) # 1
            /\ Len(Tail(ra[t].pgs)) = Len(ra[t].pgs) - 1
        BY <2>2, <1>1, <1>2, EmptySeq
      <4>2. Len(Tail(ra[t].pgs)) # Len(<< >>)
        BY <4>1
      <4>. QED  BY <4>2
    <3>. QED  BY <3>2, <3>3, <1>4 DEF NoCall
  <2>. QED  BY <2>1, <2>2
<1>7. /\ frame[f] \in Frame /\ frame[f].index \in Places /\ ~frame[f].uptodate /\ ~frame[f].dirty
      /\ frame[f].locked <=> frame[f].added
      /\ frame' = [frame EXCEPT ![f] = IF frame[f].added THEN [frame[f] EXCEPT !.uptodate = ra[t].ok, !.locked = FALSE]
                                       ELSE Unused]
      /\ unread' = IF frame[f].added THEN unread ELSE unread \ {f}
  BY <1>1, <1>3, <1>4 DEF finish, OwnPages, ReadaheadTyped
<1>8. /\ \A x \in Frames \ {f} : frame'[x] = frame[x] /\ (x \in unread' <=> x \in unread)
      /\ frame'[f].added <=> frame[f].added
      /\ frame[f].added => frame'[f].index = frame[f].index /\ (f \in unread' <=> f \in unread)
      /\ frame'[f] \in Frame
  <2>1. CASE frame[f].added
    BY <2>1, <1>1, <1>4, <1>7 DEF ReadaheadTyped, Frame, RaCall
  <2>2. CASE ~frame[f].added
    BY <2>2, <1>1, <1>4, <1>7 DEF ReadaheadTyped, Frame, Unused
  <2>. QED  BY <2>1, <2>2
<1>9. f \in Of(t) /\ Of(t)' \subseteq Of(t)
  BY <1>4, <1>5, <1>6 DEF Of
<1>10. (\A u \in Readers \ {t} : OwnPages(u)' /\ ReadPages(u)') /\ OthersPages'
  BY <1>2, <1>6, <1>8, <1>9, OthersApart
<1>11. OwnPages(t)' /\ ReadPages(t)'
  <2>1. ASSUME NEW x \in In(ra'[t].pgs)
        PROVE  /\ x \in In(ra[t].pgs) /\ frame'[x] = frame[x] /\ (x \in unread' <=> x \in unread)
    BY <1>6, <1>8, OfTyped
  <2>2. \A x \in In(ra'[t].pgs) : /\ frame'[x].index \in Places /\ ~frame'[x].uptodate /\ ~frame'[x].dirty
                                  /\ frame'[x].locked <=> frame'[x].added
    BY <2>1, <1>1 DEF OwnPages
  <2>3. OwnPages(t)'
    BY <2>2, <1>5, <1>6 DEF OwnPages
  <2>4. ReadPages(t)'
    BY <2>1, <1>1, <1>2, <1>6 DEF ReadPages
  <2>. QED  BY <2>3, <2>4
<1>12. InPlace'
  <2>1. \A g \in Places : InCache(g) => slot[g] \in Frames
    BY <1>1 DEF InCache, ReadaheadTyped
  <2>2. \A g \in Places : InCache(g) => frame'[slot[g]].index = g /\ frame'[slot[g]].added
    BY <2>1, <1>1, <1>8 DEF InPlace
  <2>3. \A x \in Frames : frame'[x].added => frame'[x].index \in Places /\ slot[frame'[x].index] = x
    BY <1>1, <1>8 DEF InPlace
  <2>. QED  BY <2>2, <2>3, <1>2 DEF InPlace, InCache
<1>13. Newest'
  <2>1. ASSUME NEW g \in Places PROVE NewestAt(g)'
    <3>0. NewestAt(g) /\ slot'[g] = slot[g] /\ (InCache(g) => slot[g] \in Frames /\ frame[slot[g]].index = g /\ frame[slot[g]].added)
      BY <1>1, <1>2 DEF Newest, InCache, ReadaheadTyped, InPlace
    <3>1. \A u \in Readers, x \in Frames \ {f} : x \in In(ra[u].pgs) => x \in In(ra'[u].pgs)
      BY <1>6
    <3>2. CASE InCache(g) => slot[g] # f
      BY <3>0, <3>1, <3>2, <1>2, <1>8, PlaceApart
    <3>3. CASE InCache(g) /\ slot[g] = f
      <4>1. frame'[f] = [frame[f] EXCEPT !.uptodate = ra[t].ok, !.locked = FALSE] /\ unread' = unread
        BY <3>0, <3>3, <1>1, <1>7 DEF ReadaheadTyped
      <4>2. /\ frame'[f].uptodate = ra[t].ok /\ ~frame'[f].locked /\ ~frame'[f].dirty
            /\ frame'[f].data = frame[f].data
        BY <4>1, <1>7 DEF Frame
      <4>3. stored[g] = newest[g]
        BY <3>0, <3>3, <1>7 DEF NewestAt
      <4>4. ra[t].ok /\ f \notin unread => frame[f].data = stored[g]
        BY <3>0, <3>3, <1>1, <1>2, <1>4 DEF ReadPages
      <4>5. slot'[g] = f /\ InCache(g)'
        BY <3>0, <3>3 DEF InCache
      <4>. QED  BY <4>1, <4>2, <4>3, <4>4, <4>5, <1>2 DEF NewestAt
    <3>. QED  BY <3>2, <3>3
  <2>. QED  BY <2>1 DEF Newest
<1>14. ReadaheadTyped'
  <2>1. frame' \in [Frames -> Frame]
    BY <1>1, <1>7, <1>8 DEF ReadaheadTyped
  <2>. QED  BY <2>1, <1>1, <1>2, <1>6 DEF ReadaheadTyped
<1>. QED  BY <1>10, <1>11, <1>12, <1>13, <1>14 DEF ReadaheadIInv

-----------------------------------------------------------------------------
LEMMA PageStepKeeps ==
    ASSUME ReadaheadIInv, NEW g \in Places, fault(g) \/ change(g) \/ writeback(g) \/ reclaimed(g)
    PROVE  ReadaheadIInv'
<1>1. /\ ReadaheadTyped /\ InPlace /\ Newest /\ NewestAt(g) /\ UNCHANGED ra
      /\ InCache(g) /\ (~frame[slot[g]].locked \/ frame[slot[g]].uptodate \/ frame[slot[g]].dirty)
      /\ slot[g] \in Frames
  <2>1. UNCHANGED ra /\ InCache(g) /\ (~frame[slot[g]].locked \/ frame[slot[g]].uptodate \/ frame[slot[g]].dirty)
    BY DEF fault, change, writeback, reclaimed, Resting
  <2>. QED  BY <2>1, RestingApart DEF ReadaheadIInv, Newest
<1>2. PICK f \in Frames : f = slot[g]
  BY <1>1
<1>3. /\ frame[f].index = g /\ frame[f].added /\ frame[f] \in Frame
      /\ \A u \in Readers : f \notin Of(u)
  BY <1>1, <1>2, RestingApart DEF InPlace, ReadaheadTyped
<1>4. /\ \A x \in Frames \ {f} : frame'[x] = frame[x] /\ (x \in unread' <=> x \in unread)
      /\ \A h \in Places \ {g} : slot'[h] = slot[h] /\ stored'[h] = stored[h] /\ newest'[h] = newest[h]
      /\ frame' \in [Frames -> Frame] /\ slot' \in [Places -> Frames \cup {Nothing}]
      /\ stored' \in [Places -> Nat] /\ newest' \in [Places -> Nat] /\ changes' \in Nat
      /\ \/ slot'[g] = f /\ frame'[f].index = g /\ frame'[f].added
         \/ slot'[g] = Nothing /\ ~frame'[f].added
      /\ slot'[g] = f /\ frame'[f].locked => frame[f].locked
      /\ slot'[g] = f /\ frame'[f].uptodate /\ f \notin unread' => frame'[f].data = newest'[g]
      /\ slot'[g] = f /\ frame'[f].dirty => frame'[f].uptodate /\ f \notin unread'
      /\ slot'[g] = Nothing \/ ~frame'[f].dirty => stored'[g] = newest'[g]
  <2>1. CASE fault(g)
    <3>1. /\ frame' = [frame EXCEPT ![f].uptodate = TRUE, ![f].data = stored[g]]
          /\ unread' = unread \ {f} /\ ~frame[f].uptodate
          /\ UNCHANGED <<slot, stored, changes, newest>>
      BY <2>1, <1>2 DEF fault
    <3>2. /\ frame'[f] \in Frame /\ frame'[f].index = g /\ frame'[f].added /\ frame'[f].locked = frame[f].locked
          /\ frame'[f].dirty = frame[f].dirty /\ frame'[f].data = stored[g]
          /\ frame' \in [Frames -> Frame] /\ \A x \in Frames \ {f} : frame'[x] = frame[x]
      BY <3>1, <1>1, <1>3 DEF ReadaheadTyped, Frame
    <3>3. ~frame[f].dirty /\ stored[g] = newest[g]
      BY <3>1, <1>1, <1>2 DEF NewestAt
    <3>. QED  BY <3>1, <3>2, <3>3, <1>1, <1>2 DEF ReadaheadTyped
  <2>2. CASE change(g)
    <3>1. /\ changes' = changes + 1 /\ frame' = [frame EXCEPT ![f].dirty = TRUE, ![f].data = changes']
          /\ newest' = [newest EXCEPT ![g] = changes'] /\ unread' = unread \ {f} /\ frame[f].uptodate
          /\ UNCHANGED <<slot, stored>>
      BY <2>2, <1>2 DEF change
    <3>2. changes' \in Nat
      BY <3>1, <1>1 DEF ReadaheadTyped
    <3>3. frame' = [frame EXCEPT ![f] = [frame[f] EXCEPT !.dirty = TRUE, !.data = changes']]
      BY <3>1
    <3>4. /\ frame'[f] = [frame[f] EXCEPT !.dirty = TRUE, !.data = changes']
          /\ \A x \in Frames \ {f} : frame'[x] = frame[x]
      BY <3>3, <1>1 DEF ReadaheadTyped
    <3>5. /\ frame'[f] \in Frame /\ frame'[f].index = g /\ frame'[f].added /\ frame'[f].locked = frame[f].locked
          /\ frame'[f].dirty /\ frame'[f].uptodate /\ frame'[f].data = changes'
      <4>1. PICK r \in Frame : r = frame[f]
        BY <1>3
      <4>6. PICK s : s = frame'[f]
        OBVIOUS
      <4>2. PICK v \in Nat : v = changes'
        BY <3>2
      <4>3. s = [r EXCEPT !.dirty = TRUE, !.data = v]
        BY <3>4, <4>1, <4>2, <4>6
      <4>4. /\ s \in Frame /\ s.index = r.index /\ s.added = r.added /\ s.locked = r.locked
            /\ s.dirty = TRUE /\ s.uptodate = r.uptodate /\ s.data = v
        <5>1. s = [index |-> r.index, added |-> r.added, locked |-> r.locked, uptodate |-> r.uptodate,
                   dirty |-> TRUE, data |-> v]
          BY <4>3 DEF Frame
        <5>. QED  BY <5>1 DEF Frame
      <4>5. r.index = g /\ r.added /\ r.uptodate
        BY <4>1, <1>3, <3>1
      <4>. QED  BY <4>1, <4>2, <4>4, <4>5, <4>6
    <3>6. frame' \in [Frames -> Frame]
      BY <3>3, <3>4, <3>5, <1>1 DEF ReadaheadTyped
    <3>. QED  BY <3>1, <3>2, <3>4, <3>5, <3>6, <1>1, <1>2, ReadaheadAssumption DEF ReadaheadTyped
  <2>3. CASE writeback(g)
    <3>1. /\ stored' = [stored EXCEPT ![g] = frame[f].data] /\ frame' = [frame EXCEPT ![f].dirty = FALSE]
          /\ frame[f].dirty /\ UNCHANGED <<slot, newest, changes, unread>>
      BY <2>3, <1>2 DEF writeback
    <3>2. /\ frame'[f] \in Frame /\ frame'[f].index = g /\ frame'[f].added /\ frame'[f].locked = frame[f].locked
          /\ ~frame'[f].dirty /\ frame'[f].uptodate = frame[f].uptodate /\ frame'[f].data = frame[f].data
          /\ frame' \in [Frames -> Frame] /\ \A x \in Frames \ {f} : frame'[x] = frame[x]
      BY <3>1, <1>1, <1>3 DEF ReadaheadTyped, Frame
    <3>3. frame[f].data = newest[g] /\ newest[g] \in Nat
      BY <3>1, <1>1, <1>2 DEF NewestAt, ReadaheadTyped
    <3>4. stored' \in [Places -> Nat] /\ stored'[g] = newest[g] /\ \A h \in Places \ {g} : stored'[h] = stored[h]
      BY <3>1, <3>3, <1>1 DEF ReadaheadTyped
    <3>. QED  BY <3>1, <3>2, <3>3, <3>4, <1>1, <1>2 DEF ReadaheadTyped
  <2>4. CASE reclaimed(g)
    <3>1. /\ frame' = [frame EXCEPT ![f] = Unused] /\ slot' = [slot EXCEPT ![g] = Nothing] /\ unread' = unread \ {f}
          /\ ~frame[f].dirty /\ UNCHANGED <<stored, newest, changes>>
      BY <2>4, <1>2 DEF reclaimed
    <3>2. /\ frame' \in [Frames -> Frame] /\ \A x \in Frames \ {f} : frame'[x] = frame[x]
          /\ ~frame'[f].added /\ slot'[g] = Nothing /\ slot' \in [Places -> Frames \cup {Nothing}]
          /\ \A h \in Places \ {g} : slot'[h] = slot[h]
      BY <3>1, <1>1, <1>3 DEF ReadaheadTyped, Frame, Unused
    <3>3. stored[g] = newest[g]
      BY <3>1, <1>1, <1>2 DEF NewestAt
    <3>. QED  BY <3>1, <3>2, <3>3, <1>1, <1>2, ReadaheadAssumption DEF ReadaheadTyped
  <2>. QED  BY <2>1, <2>2, <2>3, <2>4
<1>5. ASSUME NEW u \in Readers PROVE OwnPages(u)' /\ ReadPages(u)' /\ Of(u)' = Of(u)
  <2>1. \A x \in Of(u) : frame'[x] = frame[x] /\ (x \in unread => x \in unread')
    BY <1>3, <1>4, OfTyped
  <2>2. ASSUME NEW x \in In(ra[u].pgs), frame[x].added PROVE stored'[frame[x].index] = stored[frame[x].index]
    <3>1. x \in Frames /\ x # f /\ frame[x].index \in Places
      BY <1>3, OfTyped
    <3>2. slot[frame[x].index] = x
      BY <3>1, <2>2, <1>1 DEF InPlace
    <3>. QED  BY <3>1, <3>2, <1>2, <1>4
  <2>3. OwnPages(u) /\ ReadPages(u) /\ ra'[u] = ra[u]
    BY <1>1 DEF ReadaheadIInv
  <2>. QED  BY <2>1, <2>2, <2>3, Apart
<1>6. OthersPages'
  BY <1>5 DEF OthersPages, ReadaheadIInv
<1>7. \A h \in Places \ {g} : InCache(h) => slot[h] \in Frames /\ slot[h] # f
  BY <1>1, <1>3 DEF InPlace, InCache, ReadaheadTyped
<1>8. InPlace'
  <2>1. \A h \in Places : slot'[h] # Nothing => frame'[slot'[h]].index = h /\ frame'[slot'[h]].added
    BY <1>1, <1>4, <1>7 DEF InPlace, InCache
  <2>2. ASSUME NEW x \in Frames, frame'[x].added PROVE frame'[x].index \in Places /\ slot'[frame'[x].index] = x
    <3>1. CASE x = f
      BY <2>2, <3>1, <1>4
    <3>2. CASE x # f
      <4>1. frame'[x] = frame[x] /\ frame[x].index \in Places /\ slot[frame[x].index] = x
        BY <2>2, <3>2, <1>1, <1>4 DEF InPlace
      <4>2. frame[x].index # g
        BY <4>1, <3>2, <1>2
      <4>. QED  BY <4>1, <4>2, <1>4
    <3>. QED  BY <3>1, <3>2
  <2>. QED  BY <2>1, <2>2 DEF InPlace, InCache
<1>9. Newest'
  <2>1. ASSUME NEW h \in Places \ {g} PROVE NewestAt(h)'
    <3>1. NewestAt(h) /\ slot'[h] = slot[h] /\ stored'[h] = stored[h] /\ newest'[h] = newest[h]
      BY <1>1, <1>4 DEF Newest
    <3>2. InCache(h) => frame'[slot[h]] = frame[slot[h]] /\ (slot[h] \in unread' <=> slot[h] \in unread)
      BY <1>4, <1>7
    <3>. QED  BY <3>1, <3>2, <1>1, PlaceApart
  <2>2. NewestAt(g)'
    <3>1. CASE slot'[g] = f
      <4>1. frame'[f].locked => \E u \in Readers : f \in In(ra'[u].pgs)
        BY <3>1, <1>1, <1>2, <1>4 DEF NewestAt
      <4>. QED  BY <3>1, <4>1, <1>4 DEF NewestAt, InCache
    <3>2. CASE slot'[g] = Nothing
      BY <3>2, <1>4 DEF NewestAt, InCache
    <3>. QED  BY <3>1, <3>2, <1>4
  <2>. QED  BY <2>1, <2>2 DEF Newest
<1>10. ReadaheadTyped'
  BY <1>1, <1>4 DEF ReadaheadTyped
<1>. QED  BY <1>5, <1>6, <1>8, <1>9, <1>10 DEF ReadaheadIInv

LEMMA ReadaheadStepKeeps == ReadaheadIInv /\ [ReadaheadNext]_readaheadVars => ReadaheadIInv'
<1>. SUFFICES ASSUME ReadaheadIInv, [ReadaheadNext]_readaheadVars PROVE ReadaheadIInv'
  OBVIOUS
<1>1. ASSUME NEW t \in Readers, NEW g \in Places, readpages(t, <<g>>) PROVE ReadaheadIInv'
  <2>1. <<g>> \in Seq(Places) /\ <<g>> # << >> /\ NoRepeat(<<g>>)
    BY DEF NoRepeat
  <2>. QED  BY <1>1, <2>1, ReadpagesKeeps
<1>2. ASSUME NEW t \in Readers, NEW g \in Places, g + 1 \in Places, readpages(t, <<g, g + 1>>) PROVE ReadaheadIInv'
  <2>1. <<g, g + 1>> \in Seq(Places) /\ <<g, g + 1>> # << >>
    BY <1>2
  <2>2. g \in Nat /\ g # g + 1
    BY ReadaheadAssumption
  <2>3. NoRepeat(<<g, g + 1>>)
    BY <2>2 DEF NoRepeat
  <2>. QED  BY <1>2, <2>1, <2>3, ReadpagesKeeps
<1>3. ASSUME NEW t \in Readers, add(t) PROVE ReadaheadIInv'
  BY <1>3, AddKeeps
<1>4. ASSUME NEW t \in Readers, decrypt_pages_read(t) \/ decrypt_pages_nomem(t) \/ decrypt_pages_crypt(t)
      PROVE  ReadaheadIInv'
  BY <1>4, DecryptKeeps
<1>5. ASSUME NEW t \in Readers, finish(t) PROVE ReadaheadIInv'
  BY <1>5, FinishKeeps
<1>6. ASSUME NEW g \in Places, fault(g) \/ change(g) \/ writeback(g) \/ reclaimed(g) PROVE ReadaheadIInv'
  BY <1>6, PageStepKeeps
<1>7. CASE UNCHANGED readaheadVars
  <2>1. UNCHANGED <<frame, slot, ra, stored, changes, newest, unread>>
    BY <1>7 DEF readaheadVars
  <2>2. \A u \in Readers : OwnPages(u)' /\ ReadPages(u)' /\ Of(u)' = Of(u)
    BY <2>1, Apart DEF ReadaheadIInv
  <2>3. InPlace' /\ Newest'
    BY <2>1 DEF ReadaheadIInv, InPlace, InCache, Newest, NewestAt
  <2>4. ReadaheadTyped' /\ OthersPages'
    BY <2>1, <2>2 DEF ReadaheadIInv, ReadaheadTyped, OthersPages
  <2>. QED  BY <2>2, <2>3, <2>4 DEF ReadaheadIInv
<1>. QED  BY <1>1, <1>2, <1>3, <1>4, <1>5, <1>6, <1>7 DEF ReadaheadNext

LEMMA ReadaheadInitHolds == ReadaheadInit => ReadaheadIInv
<1>. SUFFICES ASSUME ReadaheadInit PROVE ReadaheadIInv
  OBVIOUS
<1>1. In(<< >>) = {} /\ NoRepeat(<< >>)
  BY DEF In, NoRepeat
<1>2. \A t \in Readers : Of(t) = {} /\ OwnPages(t) /\ ReadPages(t)
  BY <1>1 DEF ReadaheadInit, NoCall, Of, OwnPages, ReadPages
<1>3. ReadaheadTyped
  <2>1. << >> \in Seq(Frames)
    OBVIOUS
  <2>2. NoCall \in RaCall /\ Unused \in Frame
    BY <2>1 DEF NoCall, RaCall, Unused, Frame
  <2>. QED  BY <2>2 DEF ReadaheadInit, ReadaheadTyped
<1>4. InPlace /\ Newest
  BY DEF ReadaheadInit, InPlace, InCache, Newest, NewestAt, Unused
<1>. QED  BY <1>2, <1>3, <1>4 DEF ReadaheadIInv, OthersPages

(* The pages of a call are its own, a page in the cache knows its place,   *)
(* and what is not dirty is stored, after every step of readpages, fault,  *)
(* store, write-back and reclaim, for all numbers of tasks and pages.      *)
THEOREM ReadaheadIInvAlways == ReadaheadSpec => []ReadaheadIInv
<1>. QED  BY ReadaheadInitHolds, ReadaheadStepKeeps, PTL DEF ReadaheadSpec

(* Tasks that read ahead at the same time, and stores, leave the file as   *)
(* it was stored: an up to date page has the newest contents unless its    *)
(* lower read failed, and is locked only while its call has it.            *)
THEOREM ReadsAheadCorrectly == ReadaheadSpec => []ReadAheadCorrect
<1>1. ReadaheadIInv => ReadAheadCorrect
  BY DEF ReadaheadIInv, InPlace, Newest, NewestAt, InCache, ReadAheadCorrect
<1>. QED  BY <1>1, ReadaheadIInvAlways, PTL

=============================================================================
