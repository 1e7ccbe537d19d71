--------------------------- MODULE FatNamesProofs ---------------------------
(***************************************************************************)
(* The theorems of FatNames: every file keeps its names, and the directory *)
(* tells and holds what was made, for any set of names, size of directory, *)
(* buffer and number of calls, wherever the power fails.                   *)
(***************************************************************************)
EXTENDS FatNames, SequenceTheorems, FiniteSetTheorems, WellFoundedInduction, TLAPS

\* A nonempty set of natural numbers has a smallest one.
LEMMA LeastIs ==
  ASSUME NEW S \in SUBSET Nat, S # {}
  PROVE  Min(S) \in S /\ \A y \in S : Min(S) <= y
<1>1. IsWellFoundedOn(OpToRel(<, Nat), Nat)
  BY NatLessThanWellFounded
<1>2. PICK x \in S : \A y \in S : ~(<<y, x>> \in OpToRel(<, Nat))
  BY <1>1, WFMin
<1>3. \A y \in S : ~(y < x)
  BY <1>2 DEF OpToRel
<1>4. \E n \in S : \A m \in S : n <= m
  BY <1>3
<1> QED BY <1>4 DEF Min

-----------------------------------------------------------------------------
(* Names in a directory.                                                   *)

\* A lower case letter and its capital; what the buffer of long names holds.
Up(x) == IF x < 10 THEN x + 10 ELSE x
BufChars == Characters \cup {Term}
BufType(b) == b \in [0 .. MaxName -> BufChars]

\* What the constants are.
LEMMA NamesAre ==
  /\ PartLen \in Nat \ {0} /\ BodyLen \in Nat \ {0} /\ PerSector \in Nat \ {0}
  /\ SlotCount \in Nat \ {0} /\ MaxName \in Nat /\ MaxNumber \in Nat
  /\ MaxName <= 254 * PartLen
  /\ \A n \in NameSet : n \in Seq(Characters) /\ Len(n) \in 1 .. MaxName
BY NamesAssumption

\* A name and its characters.
LEMMA NameIs ==
  ASSUME NEW name \in NameSet
  PROVE  /\ Len(name) \in 1 .. MaxName /\ DOMAIN name = 1 .. Len(name)
         /\ \A i \in 1 .. Len(name) : name[i] \in Characters
BY NamesAre

\* Products that the provers should not multiply out.
LEMMA Multiplied ==
  ASSUME NEW a \in Int, NEW b \in Int, NEW p \in Nat \ {0}
  PROVE  /\ a * p \in Int /\ (a + 1) * p = a * p + p /\ (a - 1) * p = a * p - p
         /\ a < b => a * p + p <= b * p
         /\ 0 * p = 0 /\ 1 * p = p
         /\ a \in Nat => a * p \in Nat
<1>1. /\ a * p \in Int /\ (a + 1) * p = a * p + p /\ (a - 1) * p = a * p - p
      /\ 0 * p = 0 /\ 1 * p = p /\ (a \in Nat => a * p \in Nat)
  OBVIOUS
<1>2. ASSUME a < b PROVE a * p + p <= b * p
  <2>1. PICK k \in Nat : b = a + 1 + k
    <3>1. b - a - 1 \in Nat /\ b = a + 1 + (b - a - 1)
      BY <1>2
    <3> QED BY <3>1
  <2>2. b * p = a * p + p + k * p /\ k * p >= 0
    BY <2>1
  <2> QED BY <2>2
<1> QED BY <1>1, <1>2

\* The greatest multiple that is not above a number.
LEMMA Divided ==
  ASSUME NEW i \in Nat, NEW p \in Nat \ {0}
  PROVE  /\ i \div p \in Nat /\ i % p \in 0 .. p - 1
         /\ i = (i \div p) * p + (i % p)
<1>1. i = p * (i \div p) + (i % p) /\ i % p \in 0 .. p - 1 /\ i \div p \in Int
  OBVIOUS
<1>2. i \div p >= 0
  OBVIOUS
<1> QED BY <1>1, <1>2

\* The entries that a name takes up.
LEMMA PartsIs ==
  ASSUME NEW name \in NameSet
  PROVE  /\ Parts(name) \in 1 .. 254 /\ Parts(name) \in Nat \ {0}
         /\ Parts(name) \in 1 .. Parts(name)
         /\ (Parts(name) - 1) * PartLen < Len(name) /\ Len(name) <= Parts(name) * PartLen
<1> DEFINE l == Len(name)
           p == PartLen
           i == l + p - 1
           q == i \div p
<1>1. l \in Nat \ {0} /\ p \in Nat \ {0} /\ l <= 254 * p
  BY NamesAre
<1>2. Parts(name) = q
  BY DEF Parts
<1> HIDE DEF l, p
<1>3. i \in Nat
  BY <1>1
<1> HIDE DEF i
<1>4. q \in Nat /\ i % p \in 0 .. p - 1 /\ i = q * p + (i % p)
  BY <1>1, <1>3, Divided
<1> HIDE DEF q
<1>5. q * p \in Nat /\ q * p <= i /\ i < q * p + p
  BY <1>1, <1>3, <1>4, Multiplied
<1>6. (q - 1) * p = q * p - p
  BY <1>1, <1>4, Multiplied
<1>7. (q - 1) * p < l /\ l <= q * p
  BY <1>1, <1>5, <1>6 DEF i
<1>8. q # 0
  <2> SUFFICES ASSUME q = 0 PROVE FALSE
    OBVIOUS
  <2>1. q * p = 0
    BY <1>1, Multiplied
  <2> QED BY <2>1, <1>1, <1>7
<1>9. ~ (254 < q)
  <2> SUFFICES ASSUME 254 < q PROVE FALSE
    OBVIOUS
  <2>1. 254 * p + p <= q * p /\ 254 * p \in Int
    BY <1>1, <1>4, Multiplied
  <2> QED BY <2>1, <1>1, <1>5, <1>6, <1>7
<1>10. q \in 1 .. 254 /\ q \in Nat \ {0} /\ q \in 1 .. q
  BY <1>4, <1>8, <1>9
<1> QED BY <1>2, <1>7, <1>10 DEF l, p

\* The places of an entry.
LEMMA PlaceIs ==
  ASSUME NEW k \in Nat \ {0}, NEW s \in Int
  PROVE  /\ Place(k, s) \in Int /\ Place(k, s) = Place(k, 1) + s - 1
         /\ Place(k, 1) = (k - 1) * PartLen /\ Place(k, 1) \in Nat
         /\ Place(k + 1, 1) = Place(k, 1) + PartLen
         /\ Place(k, PartLen) + 1 = k * PartLen
         /\ s >= 1 => Place(k, s) \in Nat
<1>1. PartLen \in Nat \ {0}
  BY NamesAre
<1>2. (k - 1) * PartLen \in Nat /\ k * PartLen = (k - 1) * PartLen + PartLen
  BY <1>1, Multiplied
<1>3. (k + 1) - 1 = k
  OBVIOUS
<1> QED BY <1>1, <1>2, <1>3 DEF Place

\* Every place of a name is in one of its entries.
LEMMA Placed ==
  ASSUME NEW name \in NameSet, NEW i \in 0 .. Parts(name) * PartLen - 1
  PROVE  \E k \in 1 .. Parts(name), s \in 1 .. PartLen : Place(k, s) = i
<1>1. PartLen \in Nat \ {0} /\ Parts(name) \in 1 .. 254
  BY NamesAre, PartsIs
<1>2. i \in Nat
  BY <1>1, Multiplied
<1> DEFINE q == i \div PartLen
           r == i % PartLen
<1>3. q \in Nat /\ r \in 0 .. PartLen - 1 /\ i = q * PartLen + r
  BY <1>1, <1>2, Divided
<1> HIDE DEF q, r
<1>4. q < Parts(name)
  <2> SUFFICES ASSUME Parts(name) <= q PROVE FALSE
    BY <1>1, <1>3
  <2>1. Parts(name) * PartLen <= q * PartLen
    <3>1. CASE Parts(name) = q
      BY <3>1, <1>1, <1>3, Multiplied
    <3>2. CASE Parts(name) < q
      <4>1. Parts(name) * PartLen + PartLen <= q * PartLen
        BY <3>2, <1>1, <1>3, Multiplied
      <4> QED BY <4>1, <1>1, <1>3, Multiplied
    <3> QED BY <3>1, <3>2, <1>1, <1>3
  <2>2. q * PartLen \in Int /\ Parts(name) * PartLen \in Int
    BY <1>1, <1>3, Multiplied
  <2> QED BY <2>1, <2>2, <1>1, <1>3
<1>5. Place(q + 1, r + 1) = i /\ q + 1 \in 1 .. Parts(name) /\ r + 1 \in 1 .. PartLen
  <2>1. (q + 1) - 1 = q
    BY <1>3
  <2>2. Place(q + 1, r + 1) = q * PartLen + (r + 1) - 1
    BY <2>1 DEF Place
  <2> QED BY <2>2, <1>1, <1>2, <1>3, <1>4, Multiplied
<1> QED BY <1>5

\* Names that are the same in other letters.
LEMMA SameIs ==
  ASSUME NEW m \in NameSet, NEW n \in NameSet
  PROVE  SameName(m, n) <=> Len(m) = Len(n) /\ \A i \in 1 .. Len(m) : Up(m[i]) = Up(n[i])
<1>1. /\ DOMAIN m = 1 .. Len(m) /\ DOMAIN n = 1 .. Len(n)
      /\ Len(m) \in Nat /\ Len(n) \in Nat
  BY NameIs
<1>2. /\ Upper(m) = [i \in 1 .. Len(m) |-> Up(m[i])]
      /\ Upper(n) = [i \in 1 .. Len(n) |-> Up(n[i])]
  BY <1>1 DEF Upper, Up
<1>3. CASE SameName(m, n)
  <2>1. Upper(m) = Upper(n)
    BY <1>3 DEF SameName
  <2>2. 1 .. Len(m) = 1 .. Len(n)
    BY <2>1, <1>2
  <2>3. Len(m) = Len(n)
    <3>1. \A a, c \in Nat : 1 .. a = 1 .. c => a = c
      <4> SUFFICES ASSUME NEW a \in Nat, NEW c \in Nat, 1 .. a = 1 .. c PROVE a = c
        OBVIOUS
      <4>1. (a \in 1 .. a \/ a = 0) /\ (c \in 1 .. c \/ c = 0)
        OBVIOUS
      <4>2. (a \in 1 .. c \/ a = 0) /\ (c \in 1 .. a \/ c = 0)
        BY <4>1
      <4> QED BY <4>2
    <3> QED BY <3>1, <2>2, <1>1
  <2>4. \A i \in 1 .. Len(m) : Upper(m)[i] = Up(m[i]) /\ Upper(n)[i] = Up(n[i])
    BY <2>3, <1>2
  <2> QED BY <1>3, <2>1, <2>3, <2>4
<1>4. CASE Len(m) = Len(n) /\ \A i \in 1 .. Len(m) : Up(m[i]) = Up(n[i])
  <2>1. Upper(m) = Upper(n)
    BY <1>2, <1>4
  <2> QED BY <1>4, <2>1 DEF SameName
<1> QED BY <1>3, <1>4

\* Two characters are compared as capitals.
LEMMA UpIs ==
  ASSUME NEW x, NEW y
  PROVE  Upper(<<x>>) = Upper(<<y>>) <=> Up(x) = Up(y)
<1>1. DOMAIN <<x>> = {1} /\ DOMAIN <<y>> = {1} /\ <<x>>[1] = x /\ <<y>>[1] = y
  OBVIOUS
<1>2. Upper(<<x>>) = [i \in {1} |-> Up(x)] /\ Upper(<<y>>) = [i \in {1} |-> Up(y)]
  BY <1>1 DEF Upper, Up
<1>3. Upper(<<x>>)[1] = Up(x) /\ Upper(<<y>>)[1] = Up(y)
  BY <1>2
<1> QED BY <1>2, <1>3

\* The end of a name is no character's capital.
LEMMA TermIs ==
  ASSUME NEW x \in BufChars
  PROVE  Up(x) = Up(Term) <=> x = Term
BY DEF BufChars, Characters, Term, Up

\* The places in the entries of a name.
LEMMA PlacesAreNumbers ==
  ASSUME NEW name \in NameSet, NEW k \in 1 .. Parts(name)
  PROVE  /\ k \in Nat \ {0}
         /\ \A s \in 1 .. PartLen : Place(k, s) \in Nat /\ Place(k, s) = Place(k, 1) + s - 1
<1>1. k \in Nat \ {0}
  BY PartsIs
<1>2. ASSUME NEW s \in 1 .. PartLen PROVE Place(k, s) \in Nat /\ Place(k, s) = Place(k, 1) + s - 1
  <2>1. s \in Int /\ s >= 1
    BY NamesAre
  <2> QED BY <1>1, <2>1, PlaceIs
<1> QED BY <1>1, <1>2

\* An entry of a long name.
LEMMA PartIs ==
  ASSUME NEW name \in NameSet, NEW k \in 1 .. Parts(name), NEW sum,
         NEW e, e = put_lfn(name, k, sum)
  PROVE  /\ e.kind = "lfn" /\ e.ord = k /\ e.sum = sum /\ (e.last <=> k = Parts(name))
         /\ \A s \in 1 .. PartLen :
              e.chars[s] = IF Place(k, s) < Len(name) THEN name[Place(k, s) + 1]
                           ELSE IF Place(k, s) = Len(name) THEN Term ELSE Filler
         /\ e.chars \in [1 .. PartLen -> Characters \cup {Term, Filler}]
         /\ Used(e) = {s \in 1 .. PartLen : Place(k, s) <= Len(name)}
         /\ Term \in ToSet(e.chars) <=> \E s \in 1 .. PartLen : Place(k, s) = Len(name)
<1>1. /\ Len(name) \in 1 .. MaxName /\ MaxName \in Nat /\ DOMAIN name = 1 .. Len(name)
      /\ \A i \in 1 .. Len(name) : name[i] \in Characters
      /\ k \in Nat \ {0} /\ PartLen \in Nat \ {0}
  BY NameIs, NamesAre, PartsIs
<1>2. /\ e.kind = "lfn" /\ e.ord = k /\ e.sum = sum /\ (e.last <=> k = Parts(name))
      /\ e.chars = [s \in 1 .. PartLen |->
            IF Place(k, s) < Len(name) THEN name[Place(k, s) + 1]
            ELSE IF Place(k, s) = Len(name) THEN Term ELSE Filler]
  BY DEF put_lfn
<1>3. \A s \in 1 .. PartLen : Place(k, s) \in Nat
  BY PlacesAreNumbers
<1>4. \A s \in 1 .. PartLen :
         /\ Place(k, s) < Len(name) => name[Place(k, s) + 1] \in Characters
         /\ e.chars[s] = IF Place(k, s) < Len(name) THEN name[Place(k, s) + 1]
                         ELSE IF Place(k, s) = Len(name) THEN Term ELSE Filler
  BY <1>1, <1>2, <1>3
<1>5. e.chars \in [1 .. PartLen -> Characters \cup {Term, Filler}]
  BY <1>2, <1>4
<1>6. Term # Filler /\ \A x \in Characters : x # Term /\ x # Filler
  BY DEF Term, Filler, Characters
<1>7. \A s \in 1 .. PartLen : /\ e.chars[s] # Filler <=> Place(k, s) <= Len(name)
                              /\ e.chars[s] = Term <=> Place(k, s) = Len(name)
  <2> SUFFICES ASSUME NEW s \in 1 .. PartLen
               PROVE /\ e.chars[s] # Filler <=> Place(k, s) <= Len(name)
                     /\ e.chars[s] = Term <=> Place(k, s) = Len(name)
    OBVIOUS
  <2>1. CASE Place(k, s) < Len(name)
    <3>1. e.chars[s] \in Characters
      BY <2>1, <1>4
    <3> QED BY <2>1, <3>1, <1>1, <1>3, <1>6
  <2>2. CASE ~ (Place(k, s) < Len(name))
    BY <2>2, <1>1, <1>3, <1>4, <1>6
  <2> QED BY <2>1, <2>2
<1>8. Used(e) = {s \in 1 .. PartLen : Place(k, s) <= Len(name)}
  BY <1>7 DEF Used
<1>9. Term \in ToSet(e.chars) <=> \E s \in 1 .. PartLen : Place(k, s) = Len(name)
  <2>1. DOMAIN e.chars = 1 .. PartLen
    BY <1>5
  <2> QED BY <1>7, <2>1 DEF ToSet
<1> QED BY <1>2, <1>4, <1>5, <1>8, <1>9

\* A name in the buffer.
LEMMA InBufferIs ==
  ASSUME NEW b, BufType(b), NEW name \in NameSet
  PROVE  /\ BufType(InBuffer(b, name))
         /\ \A i \in 0 .. Len(name) - 1 : InBuffer(b, name)[i] = name[i + 1]
         /\ InBuffer(b, name)[Len(name)] = Term
<1>1. /\ Len(name) \in 1 .. MaxName /\ MaxName \in Nat
      /\ \A i \in 1 .. Len(name) : name[i] \in Characters
  BY NameIs, NamesAre
<1>2. \A i \in 0 .. MaxName : InBuffer(b, name)[i] =
         IF i < Len(name) THEN name[i + 1] ELSE IF i = Len(name) THEN Term ELSE b[i]
  BY DEF InBuffer
<1>3. \A i \in 0 .. MaxName : InBuffer(b, name)[i] \in BufChars
  BY <1>1, <1>2 DEF BufType, BufChars
<1>4. InBuffer(b, name) = [i \in 0 .. MaxName |-> InBuffer(b, name)[i]]
  BY DEF InBuffer
<1>5. BufType(InBuffer(b, name))
  BY <1>3, <1>4 DEF BufType
<1> QED BY <1>1, <1>2, <1>5

\* The part k of a name is in the buffer.
PartMatches(b, name, k) ==
  /\ \A s \in 1 .. PartLen : Place(k, s) < Len(name) => Up(name[Place(k, s) + 1]) = Up(b[Place(k, s)])
  /\ \A s \in 1 .. PartLen : Place(k, s) = Len(name) => b[Len(name)] = Term
  /\ k = Parts(name) => b[Len(name)] = Term

\* What cmp_lfn finds out.
LEMMA CmpIs ==
  ASSUME NEW name \in NameSet, NEW k \in 1 .. Parts(name), NEW sum, NEW b, BufType(b)
  PROVE  cmp_lfn(b, put_lfn(name, k, sum)) <=> PartMatches(b, name, k)
<1> DEFINE e == put_lfn(name, k, sum)
           l == Len(name)
<1>1. /\ l \in 1 .. MaxName /\ MaxName \in Nat /\ PartLen \in Nat \ {0}
      /\ k \in Nat \ {0} /\ Parts(name) \in 1 .. 254
      /\ (Parts(name) - 1) * PartLen < l /\ l <= Parts(name) * PartLen
  BY NameIs, NamesAre, PartsIs
<1>2. /\ e.ord = k /\ (e.last <=> k = Parts(name))
      /\ \A s \in 1 .. PartLen :
           e.chars[s] = IF Place(k, s) < l THEN name[Place(k, s) + 1]
                        ELSE IF Place(k, s) = l THEN Term ELSE Filler
      /\ Used(e) = {s \in 1 .. PartLen : Place(k, s) <= l}
      /\ Term \in ToSet(e.chars) <=> \E s \in 1 .. PartLen : Place(k, s) = l
  BY PartIs
<1>3. cmp_lfn(b, e) <=>
        /\ \A s \in Used(e) : Place(k, s) <= MaxName /\ Up(e.chars[s]) = Up(b[Place(k, s)])
        /\ e.last /\ Term \notin ToSet(e.chars) => b[Place(k, PartLen) + 1] = Term
  BY <1>2, UpIs, ZenonT(40) DEF cmp_lfn
<1> HIDE DEF e, l
<1>4. \A s \in 1 .. PartLen : Place(k, s) \in Nat /\ Place(k, s) = Place(k, 1) + s - 1
  BY PlacesAreNumbers
<1>5. (\A s \in Used(e) : Place(k, s) <= MaxName /\ Up(e.chars[s]) = Up(b[Place(k, s)])) <=>
        /\ \A s \in 1 .. PartLen : Place(k, s) < l => Up(name[Place(k, s) + 1]) = Up(b[Place(k, s)])
        /\ \A s \in 1 .. PartLen : Place(k, s) = l => b[l] = Term
  <2>1. b[l] \in BufChars
    BY <1>1 DEF BufType
  <2>2. Up(b[l]) = Up(Term) <=> b[l] = Term
    BY <2>1, TermIs
  <2>3. \A s \in 1 .. PartLen :
          (s \in Used(e) => Place(k, s) <= MaxName /\ Up(e.chars[s]) = Up(b[Place(k, s)])) <=>
            /\ Place(k, s) < l => Up(name[Place(k, s) + 1]) = Up(b[Place(k, s)])
            /\ Place(k, s) = l => b[l] = Term
    <3> SUFFICES ASSUME NEW s \in 1 .. PartLen
                 PROVE (s \in Used(e) => Place(k, s) <= MaxName /\ Up(e.chars[s]) = Up(b[Place(k, s)])) <=>
                        /\ Place(k, s) < l => Up(name[Place(k, s) + 1]) = Up(b[Place(k, s)])
                        /\ Place(k, s) = l => b[l] = Term
      OBVIOUS
    <3>1. CASE Place(k, s) < l
      BY <3>1, <1>1, <1>2, <1>4
    <3>2. CASE Place(k, s) = l
      BY <3>2, <1>1, <1>2, <1>4, <2>2
    <3>3. CASE Place(k, s) > l
      BY <3>3, <1>1, <1>2, <1>4
    <3> QED BY <3>1, <3>2, <3>3, <1>1, <1>4
  <2>4. Used(e) \subseteq 1 .. PartLen
    BY <1>2
  <2> QED BY <2>3, <2>4
<1>6. k = Parts(name) =>
        (Term \notin ToSet(e.chars) => Place(k, PartLen) + 1 = l)
  <2> SUFFICES ASSUME k = Parts(name), Term \notin ToSet(e.chars), l < Place(k, PartLen) + 1 PROVE FALSE
    <3>1. k = Parts(name) => Place(k, PartLen) + 1 = Parts(name) * PartLen
      BY <1>1, PlaceIs
    <3>2. Parts(name) * PartLen \in Int
      BY <1>1, Multiplied
    <3> QED BY <3>1, <3>2, <1>1
  <2>1. Place(k, 1) = (Parts(name) - 1) * PartLen /\ Place(k, 1) \in Nat
    BY <1>1, PlaceIs
  <2>2. Place(k, PartLen) = Place(k, 1) + PartLen - 1 /\ Place(k, 1) < l
    BY <1>1, <2>1, PlaceIs
  <2>3. l - Place(k, 1) + 1 \in 1 .. PartLen
    <3>1. l \in Nat /\ PartLen \in Nat /\ Place(k, 1) \in Nat
      BY <1>1, <2>1
    <3>2. l < Place(k, 1) + PartLen - 1 + 1
      BY <2>2
    <3> QED BY <3>1, <3>2, <2>2
  <2>4. Place(k, l - Place(k, 1) + 1) = l
    BY <2>1, <2>3, <1>1, <1>4
  <2> QED BY <2>3, <2>4, <1>2
<1>7. cmp_lfn(b, e) <=> PartMatches(b, name, k)
  <2>1. cmp_lfn(b, e) <=>
          /\ \A s \in 1 .. PartLen : Place(k, s) < l => Up(name[Place(k, s) + 1]) = Up(b[Place(k, s)])
          /\ \A s \in 1 .. PartLen : Place(k, s) = l => b[l] = Term
          /\ k = Parts(name) /\ Term \notin ToSet(e.chars) => b[Place(k, PartLen) + 1] = Term
    BY <1>2, <1>3, <1>5
  <2>2. (\A s \in 1 .. PartLen : Place(k, s) = l => b[l] = Term) =>
          ((k = Parts(name) /\ Term \notin ToSet(e.chars) => b[Place(k, PartLen) + 1] = Term)
             <=> (k = Parts(name) => b[l] = Term))
    BY <1>2, <1>6
  <2> QED BY <2>1, <2>2 DEF PartMatches, l
<1> QED BY <1>7 DEF e

\* All parts of a name are in the buffer if and only if it is the name there.
LEMMA AllMatch ==
  ASSUME NEW name \in NameSet, NEW n \in NameSet, NEW c, BufType(c), NEW b, b = InBuffer(c, n)
  PROVE  (\A k \in 1 .. Parts(name) : PartMatches(b, name, k)) <=> SameName(n, name)
<1>1. /\ Len(name) \in 1 .. MaxName /\ Len(n) \in 1 .. MaxName /\ MaxName \in Nat
      /\ \A i \in 1 .. Len(n) : n[i] \in Characters
      /\ \A i \in 1 .. Len(name) : name[i] \in Characters
      /\ Parts(name) \in 1 .. 254 /\ Len(name) <= Parts(name) * PartLen
      /\ Parts(name) * PartLen \in Nat /\ PartLen \in Nat \ {0}
  <2>1. /\ Len(name) \in 1 .. MaxName /\ Len(n) \in 1 .. MaxName /\ MaxName \in Nat
        /\ \A i \in 1 .. Len(n) : n[i] \in Characters
        /\ \A i \in 1 .. Len(name) : name[i] \in Characters
        /\ PartLen \in Nat \ {0}
    BY NameIs, NamesAre
  <2>2. Parts(name) \in 1 .. 254 /\ Len(name) <= Parts(name) * PartLen
    BY PartsIs
  <2>3. Parts(name) \in Nat
    BY PartsIs
  <2>4. Parts(name) * PartLen \in Nat
    BY <2>1, <2>3, Multiplied
  <2> QED BY <2>1, <2>2, <2>4
<1>2. /\ BufType(b) /\ b[Len(n)] = Term
      /\ \A i \in 0 .. Len(n) - 1 : b[i] = n[i + 1]
  BY InBufferIs
<1>3. \A k \in 1 .. Parts(name), s \in 1 .. PartLen : Place(k, s) \in Nat
  BY PlacesAreNumbers
<1>4. \A x \in Characters : Up(x) # Up(Term) /\ x # Term
  BY DEF Up, Characters, Term
<1>5. ASSUME \A k \in 1 .. Parts(name) : PartMatches(b, name, k) PROVE SameName(n, name)
  <2>1. b[Len(name)] = Term
    <3>1. Parts(name) \in 1 .. Parts(name)
      BY PartsIs
    <3> QED BY <3>1, <1>5 DEF PartMatches
  <2>2. \A i \in 0 .. Len(name) - 1 : Up(name[i + 1]) = Up(b[i])
    <3> SUFFICES ASSUME NEW i \in 0 .. Len(name) - 1 PROVE Up(name[i + 1]) = Up(b[i])
      OBVIOUS
    <3>1. i \in 0 .. Parts(name) * PartLen - 1
      BY <1>1
    <3>2. PICK k \in 1 .. Parts(name), s \in 1 .. PartLen : Place(k, s) = i
      BY <3>1, Placed
    <3> QED BY <3>2, <1>1, <1>5 DEF PartMatches
  <2>3. ~ (Len(n) < Len(name))
    <3> SUFFICES ASSUME Len(n) < Len(name) PROVE FALSE
      OBVIOUS
    <3>1. Len(n) \in 0 .. Len(name) - 1 /\ name[Len(n) + 1] \in Characters
      BY <1>1
    <3>2. Up(name[Len(n) + 1]) = Up(Term)
      BY <3>1, <2>2, <1>2
    <3> QED BY <3>1, <3>2, <1>4
  <2>4. ~ (Len(name) < Len(n))
    <3> SUFFICES ASSUME Len(name) < Len(n) PROVE FALSE
      OBVIOUS
    <3>1. Len(name) \in 0 .. Len(n) - 1 /\ n[Len(name) + 1] \in Characters
      BY <1>1
    <3> QED BY <3>1, <2>1, <1>2, <1>4
  <2>5. Len(n) = Len(name)
    BY <2>3, <2>4, <1>1
  <2>6. \A i \in 1 .. Len(n) : Up(n[i]) = Up(name[i])
    <3> SUFFICES ASSUME NEW i \in 1 .. Len(n) PROVE Up(n[i]) = Up(name[i])
      OBVIOUS
    <3>1. i - 1 \in 0 .. Len(name) - 1 /\ (i - 1) + 1 = i
      BY <2>5, <1>1
    <3> QED BY <3>1, <2>2, <2>5, <1>2
  <2> QED BY <2>5, <2>6, SameIs
<1>6. ASSUME SameName(n, name) PROVE \A k \in 1 .. Parts(name) : PartMatches(b, name, k)
  <2>1. Len(n) = Len(name) /\ \A i \in 1 .. Len(n) : Up(n[i]) = Up(name[i])
    BY <1>6, SameIs
  <2> SUFFICES ASSUME NEW k \in 1 .. Parts(name) PROVE PartMatches(b, name, k)
    OBVIOUS
  <2>2. ASSUME NEW s \in 1 .. PartLen, Place(k, s) < Len(name)
        PROVE  Up(name[Place(k, s) + 1]) = Up(b[Place(k, s)])
    <3>1. Place(k, s) \in 0 .. Len(n) - 1 /\ Place(k, s) + 1 \in 1 .. Len(n)
      BY <1>1, <1>3, <2>1, <2>2
    <3> QED BY <3>1, <1>2, <2>1
  <2> QED BY <2>1, <2>2, <1>2 DEF PartMatches
<1> QED BY <1>5, <1>6

\* Names that are the same have short names that are the same.
LEMMA SameShort ==
  ASSUME NEW m \in NameSet, NEW n \in NameSet, SameName(m, n)
  PROVE  /\ Fits(m) <=> Fits(n)
         /\ Fits(m) => ShortName(m) = ShortName(n)
         /\ SameName(n, m)
<1>1. Len(m) = Len(n) /\ \A i \in 1 .. Len(m) : Up(m[i]) = Up(n[i])
  BY SameIs
<1>2. /\ Len(m) \in Nat /\ Len(n) \in Nat /\ BodyLen \in Nat \ {0}
      /\ m \in Seq(Characters) /\ n \in Seq(Characters)
  BY NamesAre, NameIs
<1>3. Fits(m) <=> Fits(n)
  BY <1>1 DEF Fits
<1>4. Fits(m) => ShortName(m) = ShortName(n)
  <2> SUFFICES ASSUME Fits(m) PROVE ShortName(m) = ShortName(n)
    OBVIOUS
  <2> DEFINE r == Min({BodyLen, Len(m)})
  <2>1. r \in 0 .. Len(m) /\ ShortName(m) = Upper(SubSeq(m, 1, r)) /\ ShortName(n) = Upper(SubSeq(n, 1, r))
    <3>1. {BodyLen, Len(m)} \in SUBSET Nat /\ {BodyLen, Len(m)} # {}
      BY <1>2
    <3>2. r \in {BodyLen, Len(m)} /\ \A y \in {BodyLen, Len(m)} : r <= y
      BY <3>1, LeastIs
    <3> HIDE DEF r
    <3>3. r \in 0 .. Len(m)
      BY <3>2, <1>2
    <3> QED BY <3>3, <1>1 DEF r, ShortName
  <2> HIDE DEF r
  <2>2. /\ SubSeq(m, 1, r) = [i \in 1 .. r |-> m[i]] /\ SubSeq(n, 1, r) = [i \in 1 .. r |-> n[i]]
    BY <1>1, <1>2, <2>1
  <2>3. /\ Upper(SubSeq(m, 1, r)) = [i \in 1 .. r |-> Up(m[i])]
        /\ Upper(SubSeq(n, 1, r)) = [i \in 1 .. r |-> Up(n[i])]
    BY <2>2 DEF Upper, Up
  <2> QED BY <2>1, <2>3, <1>1
<1>5. SameName(n, m)
  BY DEF SameName
<1> QED BY <1>3, <1>4, <1>5

\* The checksum of a short name when there are c values.
SumOf(c, fn) == FoldLeft(LAMBDA sum, x : (2 * sum + x) % c, 0, fn)

\* The sum of the model is the one for the number of values of now.
LEMMA SumIs == ASSUME NEW fn PROVE sum_sfn(fn) = SumOf(checksums, fn)
BY Zenon DEF sum_sfn, SumOf

\* The places of entries, and what can stand there.
Slots0 == 1 .. SlotCount
Kinds == {"end", "deleted", "short", "lfn"}

\* A directory; its files have the numbers 1 to n.
EntryOK(e, n) ==
  /\ e.kind \in Kinds
  /\ e.kind = "short" => e.file \in 1 .. n
  /\ e.kind = "lfn" => e.chars \in [1 .. PartLen -> Characters \cup {Term, Filler}]
DirOK(d, n) == d = [i \in Slots0 |-> d[i]] /\ \A i \in Slots0 : EntryOK(d[i], n)

\* Behind an entry that was never used there is none in use.
EndsLast(d) == \A i, j \in Slots0 : i < j /\ d[i].kind = "end" => d[j].kind = "end"

\* The entries of a file and where they stand.
Size(name) == IF NeedsLfn(name) THEN Parts(name) + 1 ELSE 1
Stands(c, d, f, p, fn) ==
  /\ p \in 0 .. SlotCount - Size(f.name)
  /\ \A k \in 1 .. Size(f.name) - 1 : d[p + k] = put_lfn(f.name, Size(f.name) - k, SumOf(c, fn))
  /\ d[p + Size(f.name)] = Short(fn, f.file)
  /\ Fits(f.name) => fn = ShortName(f.name)

\* A file has the entries of the parts of its name, if it has any, and a short one.
LEMMA SizeIs ==
  ASSUME NEW name \in NameSet
  PROVE  /\ Size(name) \in Nat \ {0} /\ Size(name) - 1 \in 0 .. 254
         /\ Size(name) > 1 => Size(name) - 1 = Parts(name)
         /\ Size(name) = 1 => ~NeedsLfn(name) /\ Fits(name)
         /\ Size(name) > 1 <=> NeedsLfn(name)
<1>1. Parts(name) \in 1 .. 254
  BY PartsIs
<1>2. ~NeedsLfn(name) => Fits(name)
  BY DEF NeedsLfn
<1>3. CASE NeedsLfn(name)
  <2>1. Size(name) = Parts(name) + 1
    BY <1>3 DEF Size
  <2> QED BY <1>1, <1>3, <2>1
<1>4. CASE ~NeedsLfn(name)
  <2>1. Size(name) = 1
    BY <1>4 DEF Size
  <2> QED BY <1>2, <1>4, <2>1
<1> QED BY <1>3, <1>4

\* The entries of a file that stands in the directory.
Standing(c, d, f, p, fn, m) ==
  /\ p \in Nat /\ m \in Nat \ {0} /\ m - 1 \in 0 .. 254 /\ p + m <= SlotCount
  /\ \A k \in 1 .. m - 1 :
       /\ d[p + k].kind = "lfn" /\ d[p + k].ord = m - k /\ d[p + k].sum = SumOf(c, fn)
       /\ d[p + k].last <=> k = 1
       /\ \A b : BufType(b) => (cmp_lfn(b, d[p + k]) <=> PartMatches(b, f.name, m - k))
  /\ d[p + m].kind = "short" /\ d[p + m].fn = fn /\ d[p + m].file = f.file

\* The entries of a file are those that put_lfn and the short entry make.
LEMMA StandsIs ==
  ASSUME NEW c, NEW d, NEW f, f.name \in NameSet, NEW p, NEW fn, Stands(c, d, f, p, fn)
  PROVE  Standing(c, d, f, p, fn, Size(f.name))
<1> DEFINE m == Size(f.name)
<1>1. m \in Nat \ {0} /\ m - 1 \in 0 .. 254 /\ (m > 1 => m - 1 = Parts(f.name))
  BY SizeIs
<1>2. p \in 0 .. SlotCount - m /\ SlotCount \in Nat /\ d[p + m] = Short(fn, f.file)
  BY NamesAre DEF Stands
<1>3. ASSUME NEW k \in 1 .. m - 1
      PROVE  /\ d[p + k].kind = "lfn" /\ d[p + k].ord = m - k /\ d[p + k].sum = SumOf(c, fn)
             /\ d[p + k].last <=> k = 1
             /\ \A b : BufType(b) => (cmp_lfn(b, d[p + k]) <=> PartMatches(b, f.name, m - k))
  <2>1. d[p + k] = put_lfn(f.name, m - k, SumOf(c, fn))
    BY DEF Stands
  <2>2. m - k \in 1 .. Parts(f.name) /\ (m - k = Parts(f.name) <=> k = 1)
    BY <1>1
  <2> QED BY <2>1, <2>2, PartIs, CmpIs
<1> HIDE DEF m
<1> QED BY <1>1, <1>2, <1>3 DEF Short, Standing, m

-----------------------------------------------------------------------------
(* Searching.                                                              *)

\* A search, and when a short entry ends it.
IsSearch(a) ==
  /\ a.stop \in BOOLEAN
  /\ a = [i |-> a.i, stop |-> a.stop, at |-> a.at, ord |-> a.ord, sum |-> a.sum, blk |-> a.blk]
Hit(a, e, fn, by) == (a.ord = 0 /\ a.sum = sum_sfn(e.fn)) \/ ("short" \in by /\ e.fn = fn)

\* What dir_find makes of an entry: z is the search behind it.
Visited(buf, fn, by, a, e, z) ==
  /\ IsSearch(z)
  /\ a.stop = TRUE => z = a
  /\ a.stop = FALSE =>
       /\ e.kind = "end" => z.stop = TRUE /\ z.at = a.at /\ z.blk = a.blk
       /\ e.kind = "deleted" \/ (e.kind = "short" /\ ~Hit(a, e, fn, by)) =>
            z.stop = FALSE /\ z.i = a.i + 1 /\ z.at = a.at /\ z.ord = None /\ z.blk = Nowhere
       /\ e.kind = "short" /\ Hit(a, e, fn, by) => z.stop = TRUE /\ z.at = a.i /\ z.blk = a.blk
       /\ e.kind = "lfn" /\ "long" \notin by =>
            z.stop = FALSE /\ z.i = a.i + 1 /\ z.at = a.at /\ z.ord = a.ord /\ z.blk = a.blk
       /\ e.kind = "lfn" /\ "long" \in by =>
            /\ z.stop = FALSE /\ z.i = a.i + 1 /\ z.at = a.at
            /\ z.blk = (IF e.last THEN a.i ELSE a.blk)
            /\ z.sum = (IF e.last THEN e.sum ELSE a.sum)
            /\ z.ord = (IF (e.last \/ e.ord = a.ord) /\ e.sum = z.sum /\ cmp_lfn(buf, e)
                        THEN e.ord - 1 ELSE None)

\* One step of dir_find is one of the cases of Visited.
LEMMA VisitIs ==
  ASSUME NEW buf, NEW fn, NEW by, NEW a, IsSearch(a), NEW e, e.kind \in Kinds,
         NEW z, z = Visit(buf, fn, by, a, e)
  PROVE  Visited(buf, fn, by, a, e, z)
<1> USE DEF Visited
<1> DEFINE next == [a EXCEPT !.i = @ + 1]
           reset == [next EXCEPT !.ord = None, !.blk = Nowhere]
           count == [CountDown(Begun(a, e), e, cmp_lfn(buf, e)) EXCEPT !.i = @ + 1]
<1>1. CASE a.stop = TRUE
  BY <1>1 DEF Visit
<1>2. CASE a.stop = FALSE /\ e.kind = "end"
  <2>1. z = [a EXCEPT !.stop = TRUE]
    BY <1>2 DEF Visit
  <2> QED BY <1>2, <2>1 DEF IsSearch
<1>3. CASE a.stop = FALSE /\ e.kind = "deleted"
  <2>1. z = reset
    BY <1>3 DEF Visit
  <2> QED BY <1>3, <2>1 DEF IsSearch
<1>4. CASE a.stop = FALSE /\ e.kind = "short"
  <2>1. z = IF Hit(a, e, fn, by) THEN [a EXCEPT !.stop = TRUE, !.at = a.i] ELSE reset
    BY <1>4 DEF Visit, Hit, Complete
  <2> QED BY <1>4, <2>1 DEF IsSearch
<1>5. CASE a.stop = FALSE /\ e.kind = "lfn" /\ "long" \notin by
  <2>1. z = next
    BY <1>5 DEF Visit
  <2> QED BY <1>5, <2>1 DEF IsSearch
<1>6. CASE a.stop = FALSE /\ e.kind = "lfn" /\ "long" \in by
  <2>1. z = count
    BY <1>6 DEF Visit
  <2> DEFINE g == Begun(a, e)
  <2>2. /\ IsSearch(g) /\ g.i = a.i /\ g.stop = FALSE /\ g.at = a.at
        /\ g.ord = (IF e.last THEN e.ord ELSE a.ord) /\ g.sum = (IF e.last THEN e.sum ELSE a.sum)
        /\ g.blk = (IF e.last THEN a.i ELSE a.blk)
    BY <1>6 DEF Begun, IsSearch
  <2> HIDE DEF g
  <2>3. z = [[g EXCEPT !.ord = IF e.ord = g.ord /\ e.sum = g.sum /\ cmp_lfn(buf, e)
                               THEN @ - 1 ELSE None] EXCEPT !.i = @ + 1]
    BY <2>1 DEF CountDown, g
  <2>4. /\ z = [i |-> g.i + 1, stop |-> g.stop, at |-> g.at, sum |-> g.sum, blk |-> g.blk,
                ord |-> IF e.ord = g.ord /\ e.sum = g.sum /\ cmp_lfn(buf, e)
                        THEN g.ord - 1 ELSE None]
    BY <2>2, <2>3 DEF IsSearch
  <2>5. z.ord = (IF (e.last \/ e.ord = a.ord) /\ e.sum = z.sum /\ cmp_lfn(buf, e)
                 THEN e.ord - 1 ELSE None)
    BY <2>2, <2>4
  <2> QED BY <1>6, <2>2, <2>4, <2>5 DEF IsSearch
<1>7. (a.stop = TRUE \/ a.stop = FALSE) /\ e.kind \in {"end", "deleted", "short", "lfn"}
  BY DEF IsSearch, Kinds
<1> HIDE DEF Visited
<1> QED BY <1>1, <1>2, <1>3, <1>4, <1>5, <1>6, <1>7, Zenon

\* After n entries: the search goes on, or it met the end, or it is at a short
\* entry; blk is in front of long entries only.
LfnBehind(d, n, blk) == blk # Nowhere => blk \in 0 .. n - 1 /\ \A j \in blk + 1 .. n : d[j].kind = "lfn"
Shape(d, n, a) ==
  /\ IsSearch(a)
  /\ a.stop = FALSE =>
       a.i = n /\ a.at = Nowhere /\ LfnBehind(d, n, a.blk) /\ \A j \in 1 .. n : d[j].kind # "end"
  /\ a.stop = TRUE =>
       \/ a.at = Nowhere /\ \E j \in 1 .. n : d[j].kind = "end"
       \/ a.at \in 0 .. n - 1 /\ d[a.at + 1].kind = "short" /\ LfnBehind(d, a.at, a.blk)

\* A search begins in front of the first entry.
LEMMA ShapeBegins ==
  ASSUME NEW d
  PROVE  Shape(d, 0, Start) /\ Start.stop = FALSE /\ Start.ord = None /\ Start.blk = Nowhere
BY DEF Shape, IsSearch, Start, LfnBehind

\* Every step of a search keeps its shape.
LEMMA ShapeStays ==
  ASSUME NEW d, NEW n \in Nat, NEW e, d[n + 1] = e, e.kind \in Kinds, NEW buf, NEW fn, NEW by,
         NEW a, Shape(d, n, a), NEW z, Visited(buf, fn, by, a, e, z)
  PROVE  Shape(d, n + 1, z)
<1>1. IsSearch(z) /\ (a.stop = TRUE \/ a.stop = FALSE)
  BY DEF Shape, IsSearch, Visited
<1>2. e.kind \in {"end", "deleted", "short", "lfn"}
  BY DEF Kinds
<1>3. CASE a.stop = TRUE
  <2>1. z = a
    BY <1>3 DEF Visited
  <2>2. 1 .. n \subseteq 1 .. n + 1 /\ 0 .. n - 1 \subseteq 0 .. (n + 1) - 1
    OBVIOUS
  <2> QED BY <1>3, <2>1, <2>2 DEF Shape
<1>4. CASE a.stop = FALSE
  <2>1. /\ a.i = n /\ a.at = Nowhere /\ LfnBehind(d, n, a.blk)
        /\ \A j \in 1 .. n : d[j].kind # "end"
    BY <1>4 DEF Shape
  <2>2. n + 1 \in 1 .. n + 1 /\ n \in 0 .. (n + 1) - 1
    OBVIOUS
  <2>3. CASE e.kind = "end"
    <3>1. z.stop = TRUE /\ z.at = a.at
      BY <1>4, <2>3 DEF Visited
    <3> QED BY <1>1, <2>1, <2>2, <2>3, <3>1 DEF Shape
  <2>4. ASSUME z.stop = FALSE, z.i = a.i + 1, z.at = a.at, LfnBehind(d, n + 1, z.blk), e.kind # "end"
        PROVE  Shape(d, n + 1, z)
    <3>1. \A j \in 1 .. n + 1 : d[j].kind # "end"
      BY <2>1, <2>4
    <3> QED BY <1>1, <2>1, <2>4, <3>1 DEF Shape
  <2>5. CASE e.kind = "deleted" \/ (e.kind = "short" /\ ~Hit(a, e, fn, by))
    <3>1. z.stop = FALSE /\ z.i = a.i + 1 /\ z.at = a.at /\ z.blk = Nowhere
      BY <1>4, <2>5 DEF Visited
    <3>2. LfnBehind(d, n + 1, z.blk)
      BY <3>1 DEF LfnBehind
    <3> QED BY <2>4, <2>5, <3>1, <3>2
  <2>6. CASE e.kind = "short" /\ Hit(a, e, fn, by)
    <3>1. z.stop = TRUE /\ z.at = a.i /\ z.blk = a.blk
      BY <1>4, <2>6 DEF Visited
    <3> QED BY <1>1, <2>1, <2>2, <2>6, <3>1 DEF Shape
  <2>7. CASE e.kind = "lfn"
    <3>1. z.stop = FALSE /\ z.i = a.i + 1 /\ z.at = a.at /\ (z.blk = a.blk \/ z.blk = a.i)
      BY <1>4, <2>7 DEF Visited
    <3>2. LfnBehind(d, n + 1, z.blk)
      <4>1. CASE z.blk = a.i
        <5>1. z.blk = n /\ n \in 0 .. (n + 1) - 1 /\ \A j \in n + 1 .. n + 1 : d[j].kind = "lfn"
          BY <4>1, <2>1, <2>7
        <5> QED BY <5>1 DEF LfnBehind
      <4>2. CASE z.blk = a.blk
        <5> SUFFICES ASSUME z.blk # Nowhere
                     PROVE  z.blk \in 0 .. (n + 1) - 1 /\ \A j \in z.blk + 1 .. n + 1 : d[j].kind = "lfn"
          BY DEF LfnBehind
        <5>1. z.blk \in 0 .. n - 1 /\ \A j \in z.blk + 1 .. n : d[j].kind = "lfn"
          BY <4>2, <2>1 DEF LfnBehind
        <5>2. \A j \in z.blk + 1 .. n + 1 : j \in z.blk + 1 .. n \/ j = n + 1
          BY <5>1
        <5> QED BY <5>1, <5>2, <2>7
      <4> QED BY <3>1, <4>1, <4>2
    <3> QED BY <2>4, <2>7, <3>1, <3>2
  <2> QED BY <1>2, <2>3, <2>5, <2>6, <2>7
<1> QED BY <1>1, <1>3, <1>4

\* The search as a fold.
SearchStep(p, a, e) == Visit(p.buf, p.fn, p.by, a, e)
Shaped(p, n, a) == Shape(p.d, n, a)
Shapes == INSTANCE FoldInduction WITH Step <- SearchStep, Good <- Shaped

\* A search of the whole directory ends with nothing, or at a short entry.
LEMMA SearchShape ==
  ASSUME NEW d, NEW m \in Nat, DirOK(d, m), NEW buf, NEW fn, NEW by
  PROVE  Shape(d, SlotCount, dir_find(d, buf, fn, by))
<1> DEFINE p == [d |-> d, buf |-> buf, fn |-> fn, by |-> by]
<1>1. dir_find(d, buf, fn, by) = Shapes!Fold(p, Start, d)
  <2>1. p.d = d /\ p.buf = buf /\ p.fn = fn /\ p.by = by
    OBVIOUS
  <2> HIDE DEF p
  <2> QED BY <2>1, Zenon DEF dir_find, Shapes!Fold, FoldLeft, MapThenFoldSet,
      Shapes!MapThenFoldSet, Max, Shapes!Greatest, SearchStep
<1>2. Shaped(p, 0, Start)
  BY ShapeBegins DEF Shaped
<1>3. ASSUME NEW i \in 1 .. SlotCount, NEW a, Shaped(p, i - 1, a)
      PROVE  Shaped(p, i, SearchStep(p, a, d[i]))
  <2>1. i - 1 \in Nat /\ (i - 1) + 1 = i /\ d[i].kind \in Kinds
    BY NamesAre DEF DirOK, EntryOK, Slots0
  <2>2. Shape(d, i - 1, a)
    BY <1>3 DEF Shaped
  <2>3. PICK z : z = Visit(buf, fn, by, a, d[i])
    OBVIOUS
  <2>4. IsSearch(a)
    BY <2>2 DEF Shape
  <2>5. Visited(buf, fn, by, a, d[i], z)
    BY <2>1, <2>3, <2>4, VisitIs
  <2>6. Shape(d, (i - 1) + 1, z)
    BY <2>1, <2>2, <2>5, ShapeStays
  <2> QED BY <2>1, <2>3, <2>6 DEF Shaped, SearchStep
<1>4. SlotCount \in Nat /\ DOMAIN d = 1 .. SlotCount
  BY NamesAre DEF DirOK, Slots0
<1> HIDE DEF p, Shaped, SearchStep
<1>5. Shaped(p, SlotCount, Shapes!Fold(p, Start, d))
  BY <1>2, <1>3, <1>4, Shapes!FoldKeeps
<1> QED BY <1>1, <1>5 DEF Shaped, p

\* Where a file that stands in the directory is found: at its short entry or
\* before it.
Kept(p, n, a) ==
  LET m == Size(p.name)
  IN  /\ Shape(p.d, n, a)
      /\ a.stop = FALSE /\ p.q < n /\ n < p.q + m =>
           a.ord = m - 1 - (n - p.q) /\ a.sum = SumOf(checksums, p.its)
      /\ n >= p.q + m => a.stop = TRUE /\ a.at # Nowhere
KeptSearch == INSTANCE FoldInduction WITH Step <- SearchStep, Good <- Kept

\* A file is found by every spelling of its name, also among remains of others.
LEMMA FindsKept ==
  ASSUME NEW d, NEW o \in Nat, DirOK(d, o), EndsLast(d), NEW f, f.name \in NameSet,
         NEW q, NEW its, Stands(checksums, d, f, q, its),
         NEW n \in NameSet, SameName(n, f.name), NEW b, BufType(b),
         NEW buf, buf = InBuffer(b, n), NEW by, "long" \in by, Fits(n) => "short" \in by
  PROVE  dir_find(d, buf, ShortName(n), by).at # Nowhere
<1> DEFINE p == [d |-> d, buf |-> buf, fn |-> ShortName(n), by |-> by, name |-> f.name, q |-> q,
                 its |-> its]
           m == Size(f.name)
           sum == SumOf(checksums, its)
<1>1. /\ p.d = d /\ p.buf = buf /\ p.fn = ShortName(n) /\ p.by = by /\ p.name = f.name /\ p.q = q
      /\ p.its = its
  OBVIOUS
<1>0. dir_find(d, buf, ShortName(n), by) = KeptSearch!Fold(p, Start, d)
  BY <1>1, ZenonT(40) DEF dir_find, KeptSearch!Fold, FoldLeft, MapThenFoldSet,
      KeptSearch!MapThenFoldSet, Max, KeptSearch!Greatest, SearchStep
<1> HIDE DEF p
<1>2. /\ q \in Nat /\ m \in Nat \ {0} /\ m - 1 \in 0 .. 254 /\ q + m <= SlotCount
      /\ \A k \in 1 .. m - 1 :
           /\ d[q + k].kind = "lfn" /\ d[q + k].ord = m - k /\ d[q + k].sum = sum
           /\ d[q + k].last <=> k = 1
           /\ cmp_lfn(buf, d[q + k]) <=> PartMatches(buf, f.name, m - k)
      /\ d[q + m].kind = "short" /\ d[q + m].fn = its
  <2>1. BufType(buf)
    BY InBufferIs
  <2>2. Standing(checksums, d, f, q, its, m)
    BY StandsIs
  <2> HIDE DEF m, sum
  <2> QED BY <2>1, <2>2 DEF Standing, sum
<1>3. \A k \in 1 .. m - 1 : PartMatches(buf, f.name, m - k)
  <2>1. \A k \in 1 .. Parts(f.name) : PartMatches(buf, f.name, k)
    BY AllMatch
  <2>2. m > 1 => m - 1 = Parts(f.name)
    BY SizeIs
  <2> QED BY <1>2, <2>1, <2>2
<1>4. m = 1 => "short" \in by /\ its = ShortName(n)
  <2> SUFFICES ASSUME m = 1 PROVE "short" \in by /\ its = ShortName(n)
    OBVIOUS
  <2>1. Fits(f.name)
    BY SizeIs
  <2>2. Fits(n) /\ ShortName(n) = ShortName(f.name)
    BY <2>1, SameShort
  <2> QED BY <2>1, <2>2 DEF Stands
<1>5. sum_sfn(its) = sum
  BY SumIs
<1>6. SlotCount \in Nat /\ DOMAIN d = 1 .. SlotCount
  BY NamesAre DEF DirOK, Slots0
<1>7. \A j \in 1 .. q + m : d[j].kind # "end"
  <2> SUFFICES ASSUME NEW j \in 1 .. q + m, d[j].kind = "end" PROVE FALSE
    OBVIOUS
  <2>1. j \in Slots0 /\ q + m \in Slots0 /\ j # q + m
    BY <1>2, <1>6 DEF Slots0
  <2>2. d[q + m].kind = "end"
    <3>1. j < q + m
      BY <2>1, <1>2
    <3> QED BY <2>1, <3>1 DEF EndsLast
  <2> QED BY <2>2, <1>2
<1>8. Kept(p, 0, Start)
  <2>1. Shape(d, 0, Start)
    BY ShapeBegins
  <2>2. ~ (q < 0) /\ ~ (0 >= q + m)
    BY <1>2
  <2> QED BY <1>1, <2>1, <2>2 DEF Kept, m
<1>9. ASSUME NEW i \in 1 .. SlotCount, NEW a, Kept(p, i - 1, a)
      PROVE  Kept(p, i, SearchStep(p, a, d[i]))
  <2> SUFFICES ASSUME NEW z, z = Visit(buf, ShortName(n), by, a, d[i])
               PROVE  Kept(p, i, z)
    BY <1>1 DEF SearchStep
  <2>1. i - 1 \in Nat /\ (i - 1) + 1 = i /\ d[i].kind \in Kinds /\ i \in Nat
    BY NamesAre DEF DirOK, EntryOK, Slots0
  <2>2. Shape(d, i - 1, a)
    BY <1>1, <1>9 DEF Kept
  <2>3. Visited(buf, ShortName(n), by, a, d[i], z)
    <3>1. IsSearch(a)
      BY <2>2 DEF Shape
    <3> QED BY <3>1, <2>1, VisitIs
  <2>4. Shape(d, i, z) /\ (a.stop = TRUE \/ a.stop = FALSE)
    <3>1. Shape(d, (i - 1) + 1, z)
      BY <2>1, <2>2, <2>3, ShapeStays
    <3> QED BY <3>1, <2>1, <2>2 DEF Shape, IsSearch
  <2>5. /\ a.stop = FALSE /\ q < i - 1 /\ i - 1 < q + m => a.ord = m - 1 - (i - 1 - q) /\ a.sum = sum
        /\ i - 1 >= q + m => a.stop = TRUE /\ a.at # Nowhere
    BY <1>1, <1>9 DEF Kept, m, sum
  <2>6. a.stop = TRUE => z = a
    BY <2>3 DEF Visited
  <2>7. ASSUME z.stop = FALSE, q < i, i < q + m
        PROVE  z.ord = m - 1 - (i - q) /\ z.sum = sum
    <3> DEFINE k == i - q
    <3>1. k \in 1 .. m - 1 /\ q + k = i
      BY <2>1, <2>7, <1>2
    <3>2. /\ d[i].kind = "lfn" /\ d[i].ord = m - k /\ d[i].sum = sum /\ (d[i].last <=> k = 1)
          /\ cmp_lfn(buf, d[i])
      BY <3>1, <1>2, <1>3
    <3>3. a.stop = FALSE
      BY <2>4, <2>6, <2>7
    <3>4. /\ z.sum = (IF d[i].last THEN d[i].sum ELSE a.sum)
          /\ z.ord = (IF (d[i].last \/ d[i].ord = a.ord) /\ d[i].sum = z.sum /\ cmp_lfn(buf, d[i])
                      THEN d[i].ord - 1 ELSE None)
      BY <2>3, <3>2, <3>3 DEF Visited
    <3>5. k # 1 => a.ord = m - k /\ a.sum = sum
      <4> SUFFICES ASSUME k # 1 PROVE a.ord = m - k /\ a.sum = sum
        OBVIOUS
      <4>1. q < i - 1 /\ i - 1 < q + m /\ m - 1 - (i - 1 - q) = m - k
        BY <3>1, <2>1, <1>2
      <4> QED BY <4>1, <2>5, <3>3
    <3>6. z.sum = sum /\ z.ord = (m - k) - 1
      <4> HIDE DEF k
      <4> QED BY <3>2, <3>4, <3>5
    <3> QED BY <3>6, <2>1, <1>2
  <2>8. ASSUME i >= q + m PROVE z.stop = TRUE /\ z.at # Nowhere
    <3>1. CASE a.stop = TRUE
      <4>1. a.at # Nowhere
        <5>1. CASE i - 1 >= q + m
          BY <5>1, <2>5
        <5>2. CASE ~ (i - 1 >= q + m)
          <6>1. \A j \in 1 .. i - 1 : j \in 1 .. q + m
            BY <5>2, <2>1, <1>2
          <6>2. \/ \E j \in 1 .. i - 1 : d[j].kind = "end"
                \/ a.at \in 0 .. (i - 1) - 1
            BY <3>1, <2>2 DEF Shape
          <6> QED BY <6>1, <6>2, <2>1, <1>7 DEF Nowhere
        <5> QED BY <5>1, <5>2
      <4> QED BY <4>1, <3>1, <2>6
    <3>2. CASE a.stop = FALSE
      <4>1. i = q + m
        BY <2>1, <2>5, <2>8, <3>2, <1>2
      <4>2. Hit(a, d[i], ShortName(n), by)
        <5>1. CASE m = 1
          BY <5>1, <4>1, <1>2, <1>4 DEF Hit
        <5>2. CASE m # 1
          <6>1. q < i - 1 /\ i - 1 < q + m /\ m - 1 - (i - 1 - q) = 0
            BY <5>2, <4>1, <1>2
          <6>2. a.ord = 0 /\ a.sum = sum
            BY <6>1, <2>5, <3>2
          <6> QED BY <6>2, <4>1, <1>2, <1>5 DEF Hit
        <5> QED BY <5>1, <5>2
      <4>3. d[i].kind = "short"
        BY <4>1, <1>2
      <4>4. z.stop = TRUE /\ z.at = a.i
        BY <2>3, <3>2, <4>2, <4>3 DEF Visited
      <4>5. a.i = i - 1
        BY <3>2, <2>2 DEF Shape
      <4> QED BY <4>4, <4>5, <2>1 DEF Nowhere
    <3> QED BY <3>1, <3>2, <2>4
  <2> QED BY <1>1, <2>4, <2>7, <2>8 DEF Kept, m, sum
<1> HIDE DEF Kept, SearchStep
<1>10. Kept(p, SlotCount, KeptSearch!Fold(p, Start, d))
  BY <1>6, <1>8, <1>9, KeptSearch!FoldKeeps
<1>12. SlotCount >= q + m
  BY <1>2, <1>6
<1> QED BY <1>0, <1>1, <1>10, <1>12 DEF Kept, m

\* The files of a directory have names and are told apart.
FilesOK(F) == (\A f \in F : f.name \in NameSet) /\ (\A f, g \in F : f.file = g.file => f = g)

\* Nothing takes up entries but the files; no two short entries have the same
\* name or the same file; no two files have the same name.
Covered(c, d, F, i) == \E f \in F : \E p, fn : Stands(c, d, f, p, fn) /\ i \in p + 1 .. p + Size(f.name)
Tidy(c, d, F) ==
  /\ \A i \in Slots0 : IsFree(d[i]) \/ Covered(c, d, F, i)
  /\ \A i, j \in Slots0 : d[i].kind = "short" /\ d[j].kind = "short" =>
       i = j \/ (d[i].fn # d[j].fn /\ d[i].file # d[j].file)
  /\ \A f, g \in F : SameName(f.name, g.name) => f = g

\* Two files do not stand in the same place.
LEMMA StandApart ==
  ASSUME NEW c, NEW d, NEW F, FilesOK(F), NEW f \in F, NEW g \in F, NEW p, NEW q, NEW fn, NEW gn,
         Stands(c, d, f, p, fn), Stands(c, d, g, q, gn), NEW i,
         i \in p + 1 .. p + Size(f.name), i \in q + 1 .. q + Size(g.name)
  PROVE  f = g /\ p = q /\ fn = gn
<1> DEFINE m == Size(f.name)
           l == Size(g.name)
<1>1. /\ p \in Nat /\ m \in Nat \ {0} /\ \A k \in 1 .. m - 1 : d[p + k].kind = "lfn"
      /\ d[p + m].kind = "short" /\ d[p + m].fn = fn /\ d[p + m].file = f.file
  <2>1. Standing(c, d, f, p, fn, m)
    BY StandsIs DEF FilesOK
  <2> HIDE DEF m
  <2> QED BY <2>1 DEF Standing
<1>2. /\ q \in Nat /\ l \in Nat \ {0} /\ \A k \in 1 .. l - 1 : d[q + k].kind = "lfn"
      /\ d[q + l].kind = "short" /\ d[q + l].fn = gn /\ d[q + l].file = g.file
  <2>1. Standing(c, d, g, q, gn, l)
    BY StandsIs DEF FilesOK
  <2> HIDE DEF l
  <2> QED BY <2>1 DEF Standing
<1>3. i \in p + 1 .. p + m /\ i \in q + 1 .. q + l
  OBVIOUS
<1>4. f.name = g.name => m = l
  OBVIOUS
<1> HIDE DEF m, l
<1>5. ~ (p + m < q + l)
  <2> SUFFICES ASSUME p + m < q + l PROVE FALSE
    OBVIOUS
  <2>1. (p + m) - q \in 1 .. l - 1 /\ q + ((p + m) - q) = p + m
    BY <1>1, <1>2, <1>3
  <2>2. d[p + m].kind = "lfn"
    BY <2>1, <1>2
  <2> QED BY <2>2, <1>1
<1>6. ~ (q + l < p + m)
  <2> SUFFICES ASSUME q + l < p + m PROVE FALSE
    OBVIOUS
  <2>1. (q + l) - p \in 1 .. m - 1 /\ p + ((q + l) - p) = q + l
    BY <1>1, <1>2, <1>3
  <2>2. d[q + l].kind = "lfn"
    BY <2>1, <1>1
  <2> QED BY <2>2, <1>2
<1>7. p + m = q + l
  BY <1>1, <1>2, <1>5, <1>6
<1>8. f = g /\ fn = gn
  BY <1>1, <1>2, <1>7 DEF FilesOK
<1>9. m = l
  BY <1>4, <1>8
<1> QED BY <1>1, <1>2, <1>7, <1>8, <1>9

\* A name leads to a file.
Leads(n, f, fn) == SameName(n, f.name) \/ (Fits(n) /\ ShortName(n) = fn)
By(n) == {"long"} \cup (IF Fits(n) THEN {"short"} ELSE {})

\* In a tidy directory, after i entries: inside of a file blk, sum and ord tell
\* about it, elsewhere they are reset; and no file passed has the name.
InFile(c, d, F, buf, i, a, f, q, its) ==
  /\ a.blk = q /\ a.sum = SumOf(c, its)
  /\ a.ord = IF \A k \in 1 .. i - q : PartMatches(buf, f.name, Size(f.name) - k)
             THEN Size(f.name) - 1 - (i - q) ELSE None
Inside(f, q, i) == q < i /\ i < q + Size(f.name)
Exact(c, d, F, n, buf, i, a) ==
  /\ Shape(d, i, a)
  /\ a.stop = FALSE =>
       /\ \A f \in F : \A q, its :
            Stands(c, d, f, q, its) /\ Inside(f, q, i) => InFile(c, d, F, buf, i, a, f, q, its)
       /\ (\A f \in F : \A q, its : Stands(c, d, f, q, its) => ~Inside(f, q, i)) =>
            a.ord = None /\ a.blk = Nowhere
  /\ a.at = Nowhere =>
       \A f \in F : \A q, its : Stands(c, d, f, q, its) /\ q + Size(f.name) <= i => ~Leads(n, f, its)
  /\ a.at # Nowhere =>
       \E f \in F : \E q, its :
         /\ Stands(c, d, f, q, its) /\ Leads(n, f, its)
         /\ a.at + 1 = q + Size(f.name) /\ a.blk = IF Size(f.name) > 1 THEN q ELSE Nowhere

\* The short entry of a file is hit if the name leads to it.
LEMMA HitIs ==
  ASSUME NEW F, FilesOK(F), NEW d, NEW n \in NameSet, NEW b, BufType(b), NEW buf, buf = InBuffer(b, n),
         NEW f \in F, NEW q, NEW its, Stands(checksums, d, f, q, its), NEW i, i = q + Size(f.name),
         NEW a,
         Size(f.name) > 1 => InFile(checksums, d, F, buf, i - 1, a, f, q, its),
         Size(f.name) = 1 => a.ord = None
  PROVE  Hit(a, d[i], ShortName(n), By(n)) <=> Leads(n, f, its)
<1> DEFINE m == Size(f.name)
<1>1. q \in Nat /\ m \in Nat \ {0} /\ m - 1 \in 0 .. 254 /\ d[i].fn = its
  <2>1. Standing(checksums, d, f, q, its, m)
    BY StandsIs DEF FilesOK
  <2>2. i = q + m
    OBVIOUS
  <2> HIDE DEF m
  <2> QED BY <2>1, <2>2 DEF Standing
<1>2. /\ m > 1 => m - 1 = Parts(f.name)
      /\ m = 1 => Fits(f.name)
      /\ f.name \in NameSet
  BY SizeIs DEF FilesOK
<1>3. Hit(a, d[i], ShortName(n), By(n)) <=>
        (a.ord = 0 /\ a.sum = SumOf(checksums, its)) \/ (Fits(n) /\ ShortName(n) = its)
  <2>1. "short" \in By(n) <=> Fits(n)
    BY DEF By
  <2>2. sum_sfn(its) = SumOf(checksums, its)
    BY SumIs
  <2> QED BY <1>1, <2>1, <2>2 DEF Hit
<1>4. CASE m = 1
  <2>1. a.ord # 0
    BY <1>4 DEF None
  <2>2. SameName(n, f.name) => Fits(n) /\ ShortName(n) = its
    BY <1>2, <1>4, SameShort DEF Stands
  <2> QED BY <1>3, <2>1, <2>2 DEF Leads
<1>5. CASE m > 1
  <2>1. /\ a.sum = SumOf(checksums, its) /\ (i - 1) - q = m - 1
        /\ a.ord = IF \A k \in 1 .. m - 1 : PartMatches(buf, f.name, m - k) THEN 0 ELSE None
    <3>1. InFile(checksums, d, F, buf, i - 1, a, f, q, its) /\ i = q + m
      BY <1>5
    <3>2. (i - 1) - q = m - 1 /\ m - 1 - (m - 1) = 0
      BY <3>1, <1>1
    <3> QED BY <3>1, <3>2 DEF InFile, m
  <2>2. (\A k \in 1 .. m - 1 : PartMatches(buf, f.name, m - k)) <=> SameName(n, f.name)
    <3>1. (\A k \in 1 .. Parts(f.name) : PartMatches(buf, f.name, k)) <=> SameName(n, f.name)
      BY <1>2, AllMatch
    <3>2. \A k \in 1 .. m - 1 : m - k \in 1 .. m - 1 /\ m - (m - k) = k
      BY <1>1
    <3> HIDE DEF m
    <3>3. (\A k \in 1 .. m - 1 : PartMatches(buf, f.name, m - k)) <=>
            \A k \in 1 .. m - 1 : PartMatches(buf, f.name, k)
      <4>1. ASSUME \A k \in 1 .. m - 1 : PartMatches(buf, f.name, m - k), NEW k \in 1 .. m - 1
            PROVE  PartMatches(buf, f.name, k)
        <5>1. PartMatches(buf, f.name, m - (m - k))
          BY <4>1, <3>2
        <5> QED BY <5>1, <3>2
      <4> QED BY <4>1, <3>2
    <3> QED BY <3>1, <3>3, <1>2, <1>5
  <2>3. a.ord = 0 <=> SameName(n, f.name)
    BY <2>1, <2>2 DEF None
  <2> QED BY <1>3, <2>1, <2>3 DEF Leads
<1> QED BY <1>1, <1>4, <1>5

\* A long entry takes the search one further into its file.
LEMMA InsideStays ==
  ASSUME NEW F, FilesOK(F), NEW d, NEW b, BufType(b), NEW buf, NEW fn, NEW by, "long" \in by, BufType(buf),
         NEW f \in F, NEW q, NEW its, Stands(checksums, d, f, q, its),
         NEW i \in Nat, Inside(f, q, i), NEW a, a.stop = FALSE, a.i = i - 1,
         Inside(f, q, i - 1) => InFile(checksums, d, F, buf, i - 1, a, f, q, its),
         NEW z, Visited(buf, fn, by, a, d[i], z)
  PROVE  InFile(checksums, d, F, buf, i, z, f, q, its)
<1> DEFINE m == Size(f.name)
           k == i - q
           sum == SumOf(checksums, its)
<1>1. Standing(checksums, d, f, q, its, m)
  BY StandsIs DEF FilesOK
<1>2. q < i /\ i < q + m
  BY DEF Inside
<1>3. q < i - 1 => InFile(checksums, d, F, buf, i - 1, a, f, q, its)
  <2>1. q < i - 1 => Inside(f, q, i - 1)
    <3>1. m \in Nat /\ q \in Nat
      BY <1>1 DEF Standing
    <3> QED BY <1>2, <3>1 DEF Inside
  <2> QED BY <2>1
<1> HIDE DEF m
<1>4. /\ q \in Nat /\ m \in Nat \ {0} /\ m - 1 \in 0 .. 254 /\ k \in 1 .. m - 1 /\ q + k = i
  BY <1>1, <1>2 DEF Standing
<1> HIDE DEF k
<1>5. /\ d[i].kind = "lfn" /\ d[i].ord = m - k /\ d[i].sum = sum /\ (d[i].last <=> k = 1)
      /\ cmp_lfn(buf, d[i]) <=> PartMatches(buf, f.name, m - k)
  BY <1>1, <1>4 DEF Standing, sum
<1>6. /\ z.blk = (IF d[i].last THEN a.i ELSE a.blk)
      /\ z.sum = (IF d[i].last THEN d[i].sum ELSE a.sum)
      /\ z.ord = (IF (d[i].last \/ d[i].ord = a.ord) /\ d[i].sum = z.sum /\ cmp_lfn(buf, d[i])
                  THEN d[i].ord - 1 ELSE None)
  BY <1>5 DEF Visited
<1> DEFINE Match(j) == PartMatches(buf, f.name, m - j)
<1>7. k # 1 => /\ a.blk = q /\ a.sum = sum
               /\ a.ord = IF \A j \in 1 .. k - 1 : Match(j) THEN m - k ELSE None
  <2> SUFFICES ASSUME k # 1 PROVE /\ a.blk = q /\ a.sum = sum
                                  /\ a.ord = IF \A j \in 1 .. k - 1 : Match(j) THEN m - k ELSE None
    OBVIOUS
  <2>1. q < i - 1 /\ (i - 1) - q = k - 1 /\ m - 1 - ((i - 1) - q) = m - k
    BY <1>4
  <2>2. InFile(checksums, d, F, buf, i - 1, a, f, q, its)
    BY <2>1, <1>3
  <2> QED BY <2>1, <2>2 DEF InFile, m, sum
<1> HIDE DEF Match
<1>8. z.blk = q /\ z.sum = sum
  BY <1>4, <1>5, <1>6, <1>7
<1>9. z.ord = IF \A j \in 1 .. k : Match(j) THEN m - 1 - k ELSE None
  <2>1. cmp_lfn(buf, d[i]) <=> Match(k)
    BY <1>5 DEF Match
  <2>2. CASE k = 1
    <3>1. (\A j \in 1 .. k : Match(j)) <=> Match(k)
      BY <2>2
    <3> QED BY <2>1, <2>2, <3>1, <1>4, <1>5, <1>6, <1>8
  <2>3. CASE k # 1
    <3>1. (\A j \in 1 .. k : Match(j)) <=> (\A j \in 1 .. k - 1 : Match(j)) /\ Match(k)
      <4>1. \A j \in 1 .. k : j \in 1 .. k - 1 \/ j = k
        BY <1>4
      <4>2. 1 .. k - 1 \subseteq 1 .. k /\ k \in 1 .. k
        BY <1>4
      <4> QED BY <4>1, <4>2
    <3>2. a.ord = IF \A j \in 1 .. k - 1 : Match(j) THEN m - k ELSE None
      BY <2>3, <1>7
    <3>3. d[i].ord = a.ord <=> \A j \in 1 .. k - 1 : Match(j)
      BY <3>2, <1>4, <1>5 DEF None
    <3>4. z.ord = IF (\A j \in 1 .. k - 1 : Match(j)) /\ Match(k) THEN (m - k) - 1 ELSE None
      BY <2>1, <2>3, <3>3, <1>5, <1>6, <1>8
    <3>5. (m - k) - 1 = m - 1 - k
      BY <1>4
    <3> QED BY <3>1, <3>4, <3>5
  <2> QED BY <2>2, <2>3
<1> QED BY <1>8, <1>9 DEF InFile, Match, m, k, sum

\* Every step of a search by name knows the file it is in.
LEMMA ExactStays ==
  ASSUME NEW F, FilesOK(F), NEW d, NEW o \in Nat, DirOK(d, o), EndsLast(d), Tidy(checksums, d, F),
         NEW n \in NameSet, NEW b, BufType(b), NEW buf, buf = InBuffer(b, n),
         NEW i \in 1 .. SlotCount, NEW a, Exact(checksums, d, F, n, buf, i - 1, a),
         NEW z, Visited(buf, ShortName(n), By(n), a, d[i], z)
  PROVE  Exact(checksums, d, F, n, buf, i, z)
<1> DEFINE St(f, q, its) == Stands(checksums, d, f, q, its)
<1>1. i \in Nat /\ i - 1 \in Nat /\ (i - 1) + 1 = i /\ i \in Slots0 /\ d[i].kind \in Kinds /\ BufType(buf)
  BY NamesAre, InBufferIs DEF DirOK, EntryOK, Slots0
<1>2. Shape(d, i - 1, a)
  BY DEF Exact
<1>3. Shape(d, i, z)
  <2>1. Shape(d, (i - 1) + 1, z)
    BY <1>1, <1>2, ShapeStays
  <2> QED BY <1>1, <2>1
<1>4. IsSearch(a) /\ (a.stop = TRUE \/ a.stop = FALSE)
  BY <1>2 DEF Shape, IsSearch
\* A file whose entries end at i or lie around it.
<1>5. ASSUME NEW f \in F, NEW q, NEW its, St(f, q, its)
      PROVE  /\ q \in Nat /\ Size(f.name) \in Nat \ {0}
             /\ q + Size(f.name) \in Nat
             /\ q + Size(f.name) = i => d[i].kind = "short" /\ i \in q + 1 .. q + Size(f.name)
             /\ Inside(f, q, i) => d[i].kind = "lfn" /\ i \in q + 1 .. q + Size(f.name)
             /\ i \in q + 1 .. q + Size(f.name) => Inside(f, q, i) \/ i = q + Size(f.name)
             /\ Inside(f, q, i - 1) => i \in q + 1 .. q + Size(f.name) /\ q # i - 1
  <2> DEFINE m == Size(f.name)
  <2>1. Standing(checksums, d, f, q, its, m)
    BY <1>5, StandsIs DEF FilesOK
  <2> USE DEF Inside
  <2> HIDE DEF m
  <2>2. /\ q \in Nat /\ m \in Nat \ {0} /\ q + m \in Nat
        /\ q + m = i => d[i].kind = "short" /\ i \in q + 1 .. q + m
    BY <2>1, <1>1 DEF Standing
  <2>3. q < i /\ i < q + m => d[i].kind = "lfn" /\ i \in q + 1 .. q + m
    <3> SUFFICES ASSUME q < i, i < q + m PROVE d[i].kind = "lfn" /\ i \in q + 1 .. q + m
      OBVIOUS
    <3>1. i - q \in 1 .. m - 1 /\ q + (i - q) = i
      BY <1>1, <2>2
    <3> QED BY <3>1, <2>1, <2>2 DEF Standing
  <2>4. /\ i \in q + 1 .. q + m => (q < i /\ i < q + m) \/ i = q + m
        /\ q < i - 1 /\ i - 1 < q + m => i \in q + 1 .. q + m /\ q # i - 1
    BY <1>1, <2>2
  <2> QED BY <2>2, <2>3, <2>4 DEF m
<1>6. ASSUME NEW f \in F, NEW q, NEW its, St(f, q, its), q + Size(f.name) <= i
      PROVE  q + Size(f.name) <= i - 1 \/ q + Size(f.name) = i
  BY <1>1, <1>5, <1>6
<1>7. a.at = Nowhere =>
        \A f \in F : \A q, its : St(f, q, its) /\ q + Size(f.name) <= i - 1 => ~Leads(n, f, its)
  BY DEF Exact
<1>8. CASE a.stop = TRUE
  <2>1. z = a
    BY <1>8 DEF Visited
  <2>2. ASSUME a.at = Nowhere, NEW f \in F, NEW q, NEW its, St(f, q, its), q + Size(f.name) <= i
        PROVE  ~Leads(n, f, its)
    <3>1. PICK j \in 1 .. i - 1 : d[j].kind = "end"
      <4>1. a.at \notin 0 .. (i - 1) - 1
        BY <2>2, <1>1 DEF Nowhere
      <4> QED BY <4>1, <1>2, <1>8 DEF Shape
    <3>2. d[i].kind = "end"
      <4>1. j \in Slots0 /\ j < i
        BY <1>1, NamesAre DEF Slots0
      <4> QED BY <4>1, <3>1, <1>1 DEF EndsLast
    <3>3. q + Size(f.name) # i
      <4>1. q + Size(f.name) = i => d[i].kind = "short"
        BY <1>5, <2>2
      <4> QED BY <4>1, <3>2
    <3> QED BY <3>3, <1>6, <1>7, <2>2
  <2>3. a.at # Nowhere => \E f \in F : \E q, its :
           /\ St(f, q, its) /\ Leads(n, f, its)
           /\ a.at + 1 = q + Size(f.name) /\ a.blk = IF Size(f.name) > 1 THEN q ELSE Nowhere
    BY DEF Exact
  <2> QED BY <1>3, <1>8, <2>1, <2>2, <2>3 DEF Exact
<1>9. CASE a.stop = FALSE
  <2>1. a.i = i - 1 /\ a.at = Nowhere
    BY <1>2, <1>9 DEF Shape
  <2>2. /\ \A f \in F : \A q, its :
             St(f, q, its) /\ Inside(f, q, i - 1) => InFile(checksums, d, F, buf, i - 1, a, f, q, its)
        /\ (\A f \in F : \A q, its : St(f, q, its) => ~Inside(f, q, i - 1)) =>
             a.ord = None /\ a.blk = Nowhere
    BY <1>9 DEF Exact
  <2>3. ASSUME d[i].kind # "short", NEW f \in F, NEW q, NEW its, St(f, q, its), q + Size(f.name) <= i
        PROVE  ~Leads(n, f, its)
    BY <2>1, <2>3, <1>5, <1>6, <1>7
  <2>4. CASE d[i].kind = "end"
    <3>1. z.stop = TRUE /\ z.at = Nowhere
      BY <1>9, <2>1, <2>4 DEF Visited
    <3> QED BY <1>3, <2>3, <2>4, <3>1 DEF Exact
  <2>5. CASE d[i].kind = "deleted"
    <3>1. z.stop = FALSE /\ z.at = Nowhere /\ z.ord = None /\ z.blk = Nowhere
      BY <1>9, <2>1, <2>5 DEF Visited
    <3>2. \A f \in F : \A q, its : St(f, q, its) => ~Inside(f, q, i)
      BY <1>5, <2>5
    <3> QED BY <1>3, <2>3, <2>5, <3>1, <3>2 DEF Exact
  <2>6. CASE d[i].kind = "lfn" \/ d[i].kind = "short"
    <3>1. ~IsFree(d[i])
      BY <2>6 DEF IsFree
    <3>2. PICK f \in F : \E q, its : St(f, q, its) /\ i \in q + 1 .. q + Size(f.name)
      BY <1>1, <3>1 DEF Tidy, Covered
    <3>3. PICK q, its : St(f, q, its) /\ i \in q + 1 .. q + Size(f.name)
      BY <3>2
    <3>4. ASSUME NEW g \in F, NEW p, NEW gn, St(g, p, gn), i \in p + 1 .. p + Size(g.name)
          PROVE  g = f /\ p = q /\ gn = its
      BY <3>3, <3>4, StandApart
    <3>5. Inside(f, q, i - 1) => InFile(checksums, d, F, buf, i - 1, a, f, q, its)
      BY <2>2, <3>3
    <3>6. CASE d[i].kind = "lfn"
      <4>1. z.stop = FALSE /\ z.at = Nowhere
        BY <1>9, <2>1, <3>6 DEF Visited, By
      <4>2. Inside(f, q, i)
        BY <1>5, <3>3, <3>6
      <4>3. InFile(checksums, d, F, buf, i, z, f, q, its)
        <5>1. "long" \in By(n)
          BY DEF By
        <5> QED BY <5>1, <1>1, <1>9, <2>1, <3>3, <3>5, <4>2, InsideStays
      <4>4. ASSUME NEW g \in F, NEW p, NEW gn, St(g, p, gn), Inside(g, p, i)
            PROVE  InFile(checksums, d, F, buf, i, z, g, p, gn)
        <5>1. g = f /\ p = q /\ gn = its
          BY <3>4, <4>4, <1>5
        <5> QED BY <5>1, <4>3
      <4> QED BY <1>3, <2>3, <3>3, <3>6, <4>1, <4>2, <4>4 DEF Exact
    <3>7. CASE d[i].kind = "short"
      <4>1. i = q + Size(f.name)
        BY <1>5, <3>3, <3>7
      <4>2. /\ Size(f.name) > 1 => InFile(checksums, d, F, buf, i - 1, a, f, q, its)
            /\ Size(f.name) = 1 => a.ord = None /\ a.blk = Nowhere
        <5>1. Size(f.name) > 1 => Inside(f, q, i - 1)
          BY <1>5, <3>3, <4>1 DEF Inside
        <5>2. ASSUME Size(f.name) = 1, NEW g \in F, NEW p, NEW gn, St(g, p, gn) PROVE ~Inside(g, p, i - 1)
          <6> SUFFICES ASSUME Inside(g, p, i - 1) PROVE FALSE
            OBVIOUS
          <6>1. i \in p + 1 .. p + Size(g.name) /\ p # i - 1
            BY <5>2, <1>5
          <6>2. p = q
            BY <5>2, <6>1, <3>4
          <6> QED BY <6>1, <6>2, <4>1, <5>2, <1>1, <1>5, <3>3
        <5> QED BY <5>1, <5>2, <2>2, <3>5
      <4>3. Hit(a, d[i], ShortName(n), By(n)) <=> Leads(n, f, its)
        BY <3>3, <4>1, <4>2, HitIs
      <4>4. CASE Hit(a, d[i], ShortName(n), By(n))
        <5>1. z.stop = TRUE /\ z.at = i - 1 /\ z.blk = a.blk
          BY <1>9, <2>1, <3>7, <4>4 DEF Visited
        <5>2. z.at # Nowhere /\ z.at + 1 = q + Size(f.name)
          BY <5>1, <4>1, <1>1 DEF Nowhere
        <5>3. z.blk = IF Size(f.name) > 1 THEN q ELSE Nowhere
          <6>1. Size(f.name) \in Nat \ {0}
            BY <1>5, <3>3
          <6>2. CASE Size(f.name) > 1
            BY <6>2, <4>2, <5>1 DEF InFile
          <6>3. CASE Size(f.name) = 1
            BY <6>3, <4>2, <5>1
          <6> QED BY <6>1, <6>2, <6>3
        <5> QED BY <1>3, <3>3, <4>3, <4>4, <5>1, <5>2, <5>3 DEF Exact
      <4>5. CASE ~Hit(a, d[i], ShortName(n), By(n))
        <5>1. z.stop = FALSE /\ z.at = Nowhere /\ z.ord = None /\ z.blk = Nowhere
          BY <1>9, <2>1, <3>7, <4>5 DEF Visited
        <5>2. \A g \in F : \A p, gn : St(g, p, gn) => ~Inside(g, p, i)
          BY <1>5, <3>7
        <5>3. ASSUME NEW g \in F, NEW p, NEW gn, St(g, p, gn), p + Size(g.name) <= i
              PROVE  ~Leads(n, g, gn)
          <6>1. CASE p + Size(g.name) <= i - 1
            BY <6>1, <5>3, <1>7, <2>1
          <6>2. CASE p + Size(g.name) = i
            <7>1. i \in p + 1 .. p + Size(g.name)
              BY <5>3, <6>2, <1>5
            <7>2. g = f /\ gn = its
              BY <5>3, <7>1, <3>4
            <7> QED BY <7>2, <4>3, <4>5
          <6> QED BY <5>3, <6>1, <6>2, <1>6
        <5> QED BY <1>3, <5>1, <5>2, <5>3 DEF Exact
      <4> QED BY <4>4, <4>5
    <3> QED BY <2>6, <3>6, <3>7
  <2> QED BY <1>1, <2>4, <2>5, <2>6 DEF Kinds
<1> QED BY <1>4, <1>8, <1>9

\* The same, as a fold.
Exactly(p, i, a) == Exact(p.c, p.d, p.files, p.name, p.buf, i, a)
ExactSearch == INSTANCE FoldInduction WITH Step <- SearchStep, Good <- Exactly

\* In a tidy directory a name leads to one file at most, and that is found.
LEMMA FindsExactly ==
  ASSUME NEW F, FilesOK(F), NEW d, NEW o \in Nat, DirOK(d, o), EndsLast(d), Tidy(checksums, d, F),
         NEW n \in NameSet, NEW b, BufType(b), NEW buf, buf = InBuffer(b, n),
         NEW a, a = dir_find(d, buf, ShortName(n), By(n))
  PROVE  Exact(checksums, d, F, n, buf, SlotCount, a)
<1> DEFINE p == [d |-> d, buf |-> buf, fn |-> ShortName(n), by |-> By(n), c |-> checksums,
                 files |-> F, name |-> n]
<1>1. /\ p.d = d /\ p.buf = buf /\ p.fn = ShortName(n) /\ p.by = By(n) /\ p.c = checksums
      /\ p.files = F /\ p.name = n
  OBVIOUS
<1> HIDE DEF p
<1>2. dir_find(d, buf, ShortName(n), By(n)) = ExactSearch!Fold(p, Start, d)
  <2>1. dir_find(d, p.buf, p.fn, p.by) = ExactSearch!Fold(p, Start, d)
    BY Zenon DEF dir_find, ExactSearch!Fold, FoldLeft, MapThenFoldSet,
        ExactSearch!MapThenFoldSet, Max, ExactSearch!Greatest, SearchStep
  <2> QED BY <1>1, <2>1
<1>3. SlotCount \in Nat /\ DOMAIN d = 1 .. SlotCount
  BY NamesAre DEF DirOK, Slots0
<1>4. Exactly(p, 0, Start)
  <2>1. Shape(d, 0, Start) /\ Start.stop = FALSE /\ Start.ord = None /\ Start.blk = Nowhere
    BY ShapeBegins
  <2>2. Start.at = Nowhere
    BY DEF Start
  <2>3. ASSUME NEW f \in F, NEW q, NEW its, Stands(checksums, d, f, q, its)
        PROVE  ~Inside(f, q, 0) /\ ~ (q + Size(f.name) <= 0)
    <3> DEFINE m == Size(f.name)
    <3>1. Standing(checksums, d, f, q, its, m)
      BY <2>3, StandsIs DEF FilesOK
    <3> HIDE DEF m
    <3>2. ~ (q < 0 /\ 0 < q + m) /\ ~ (q + m <= 0)
      BY <3>1 DEF Standing
    <3> QED BY <3>2 DEF m, Inside
  <2>4. Exact(checksums, d, F, n, buf, 0, Start)
    BY <2>1, <2>2, <2>3 DEF Exact
  <2> QED BY <1>1, <2>4 DEF Exactly
<1>5. ASSUME NEW i \in 1 .. SlotCount, NEW x, Exactly(p, i - 1, x)
      PROVE  Exactly(p, i, SearchStep(p, x, d[i]))
  <2> SUFFICES ASSUME NEW z, z = Visit(buf, ShortName(n), By(n), x, d[i])
               PROVE  Exact(checksums, d, F, n, buf, i, z)
    BY <1>1 DEF SearchStep, Exactly
  <2>1. Exact(checksums, d, F, n, buf, i - 1, x)
    BY <1>1, <1>5 DEF Exactly
  <2>2. IsSearch(x) /\ d[i].kind \in Kinds
    BY <2>1 DEF Exact, Shape, DirOK, EntryOK, Slots0
  <2>3. Visited(buf, ShortName(n), By(n), x, d[i], z)
    BY <2>2, VisitIs
  <2> QED BY <2>1, <2>3, ExactStays
<1> HIDE DEF Exactly, SearchStep
<1>6. Exactly(p, SlotCount, ExactSearch!Fold(p, Start, d))
  BY <1>3, <1>4, <1>5, ExactSearch!FoldKeeps
<1> QED BY <1>1, <1>2, <1>6 DEF Exactly

\* Whom a name leads to, in a tidy directory.
LEMMA LeadsToOne ==
  ASSUME NEW F, FilesOK(F), NEW c, NEW d, NEW o \in Nat, DirOK(d, o), Tidy(c, d, F),
         NEW n \in NameSet, NEW f \in F, NEW g \in F, NEW p, NEW q, NEW fn, NEW gn,
         Stands(c, d, f, p, fn), Stands(c, d, g, q, gn), Leads(n, f, fn), Leads(n, g, gn)
  PROVE  f = g /\ p = q /\ fn = gn
<1> DEFINE i == p + Size(f.name)
           j == q + Size(g.name)
<1>1. Standing(c, d, f, p, fn, Size(f.name)) /\ Standing(c, d, g, q, gn, Size(g.name))
  BY StandsIs DEF FilesOK
<1>2. /\ i \in Slots0 /\ i \in p + 1 .. p + Size(f.name)
      /\ d[i].kind = "short" /\ d[i].fn = fn /\ d[i].file = f.file
  <2>1. p \in Nat /\ Size(f.name) \in Nat \ {0} /\ p + Size(f.name) <= SlotCount /\ SlotCount \in Nat
    BY <1>1, NamesAre DEF Standing
  <2> QED BY <1>1, <2>1 DEF Standing, Slots0
<1>3. /\ j \in Slots0 /\ j \in q + 1 .. q + Size(g.name)
      /\ d[j].kind = "short" /\ d[j].fn = gn /\ d[j].file = g.file
  <2>1. q \in Nat /\ Size(g.name) \in Nat \ {0} /\ q + Size(g.name) <= SlotCount /\ SlotCount \in Nat
    BY <1>1, NamesAre DEF Standing
  <2> QED BY <1>1, <2>1 DEF Standing, Slots0
<1> HIDE DEF i, j
<1>4. f.name \in NameSet /\ g.name \in NameSet
  BY DEF FilesOK
<1>5. SameName(n, f.name) => (Fits(f.name) <=> Fits(n)) /\ (Fits(n) => fn = ShortName(n))
  BY <1>4, SameShort DEF Stands
<1>6. SameName(n, g.name) => (Fits(g.name) <=> Fits(n)) /\ (Fits(n) => gn = ShortName(n))
  BY <1>4, SameShort DEF Stands
<1>7. i = j \/ f = g
  <2>1. CASE SameName(n, f.name) /\ SameName(n, g.name)
    <3>1. SameName(f.name, g.name)
      BY <2>1 DEF SameName
    <3> QED BY <3>1 DEF Tidy
  <2>2. CASE ~ (SameName(n, f.name) /\ SameName(n, g.name))
    <3>1. fn = gn
      BY <2>2, <1>5, <1>6 DEF Leads
    <3> QED BY <3>1, <1>2, <1>3 DEF Tidy
  <2> QED BY <2>1, <2>2
<1>8. i = j
  <2>1. f = g => d[i].file = d[j].file
    BY <1>2, <1>3
  <2> QED BY <2>1, <1>2, <1>3, <1>7 DEF Tidy
<1> QED BY <1>2, <1>3, <1>8, StandApart

\* Searching for a short name alone: it is found, or no entry has it.
ShortOnly(p, i, a) ==
  /\ Shape(p.d, i, a)
  /\ a.stop = FALSE => a.ord = None
  /\ a.at = Nowhere => \A j \in 1 .. i : p.d[j].kind = "short" => p.d[j].fn # p.fn
ShortSearch == INSTANCE FoldInduction WITH Step <- SearchStep, Good <- ShortOnly

\* A short name that dir_find does not find is on no entry.
LEMMA FindsShort ==
  ASSUME NEW d, NEW o \in Nat, DirOK(d, o), EndsLast(d), NEW buf, NEW fn,
         dir_find(d, buf, fn, {"short"}).at = Nowhere
  PROVE  \A j \in Slots0 : d[j].kind = "short" => d[j].fn # fn
<1> DEFINE p == [d |-> d, buf |-> buf, fn |-> fn, by |-> {"short"}]
<1>1. p.d = d /\ p.buf = buf /\ p.fn = fn /\ p.by = {"short"}
  OBVIOUS
<1> HIDE DEF p
<1>2. dir_find(d, buf, fn, {"short"}) = ShortSearch!Fold(p, Start, d)
  <2>1. dir_find(d, p.buf, p.fn, p.by) = ShortSearch!Fold(p, Start, d)
    BY Zenon DEF dir_find, ShortSearch!Fold, FoldLeft, MapThenFoldSet,
        ShortSearch!MapThenFoldSet, Max, ShortSearch!Greatest, SearchStep
  <2> QED BY <1>1, <2>1
<1>3. SlotCount \in Nat /\ DOMAIN d = 1 .. SlotCount
  BY NamesAre DEF DirOK, Slots0
<1>4. ShortOnly(p, 0, Start)
  <2>1. Shape(d, 0, Start) /\ Start.ord = None
    BY ShapeBegins
  <2>2. \A j \in 1 .. 0 : p.d[j].kind = "short" => p.d[j].fn # p.fn
    OBVIOUS
  <2> QED BY <1>1, <2>1, <2>2 DEF ShortOnly
<1>5. ASSUME NEW i \in 1 .. SlotCount, NEW x, ShortOnly(p, i - 1, x)
      PROVE  ShortOnly(p, i, SearchStep(p, x, d[i]))
  <2> SUFFICES ASSUME NEW z, z = Visit(buf, fn, {"short"}, x, d[i])
               PROVE  ShortOnly(p, i, z)
    BY <1>1 DEF SearchStep
  <2>1. /\ Shape(d, i - 1, x)
        /\ x.stop = FALSE => x.ord = None
        /\ x.at = Nowhere => \A j \in 1 .. i - 1 : d[j].kind = "short" => d[j].fn # fn
    BY <1>1, <1>5 DEF ShortOnly
  <2>2. IsSearch(x) /\ d[i].kind \in Kinds /\ (x.stop = TRUE \/ x.stop = FALSE)
    BY <2>1 DEF Shape, DirOK, EntryOK, Slots0, IsSearch
  <2>3. Visited(buf, fn, {"short"}, x, d[i], z)
    BY <2>2, VisitIs
  <2>4. i - 1 \in Nat /\ (i - 1) + 1 = i /\ \A j \in 1 .. i : j \in 1 .. i - 1 \/ j = i
    BY <1>3
  <2>5. Shape(d, i, z)
    <3>1. Shape(d, (i - 1) + 1, z)
      BY <2>1, <2>2, <2>3, <2>4, ShapeStays
    <3> QED BY <3>1, <2>4
  <2>6. CASE x.stop = TRUE
    <3>1. z = x
      BY <2>3, <2>6 DEF Visited
    <3>2. x.at = Nowhere => d[i].kind = "end"
      <4> SUFFICES ASSUME x.at = Nowhere PROVE d[i].kind = "end"
        OBVIOUS
      <4>1. x.at \notin 0 .. (i - 1) - 1
        BY <2>4 DEF Nowhere
      <4>2. PICK j \in 1 .. i - 1 : d[j].kind = "end"
        BY <4>1, <2>1, <2>6 DEF Shape
      <4>3. j \in Slots0 /\ i \in Slots0 /\ j < i
        BY <1>3 DEF Slots0
      <4> QED BY <4>2, <4>3 DEF EndsLast
    <3>3. x.at = Nowhere => \A j \in 1 .. i : d[j].kind = "short" => d[j].fn # fn
      BY <2>1, <2>4, <3>2
    <3> QED BY <1>1, <2>5, <2>6, <3>1, <3>3 DEF ShortOnly
  <2>7. CASE x.stop = FALSE
    <3>1. x.i = i - 1 /\ x.at = Nowhere /\ x.ord = None
      BY <2>1, <2>7 DEF Shape
    <3>2. d[i].kind = "short" => (Hit(x, d[i], fn, {"short"}) <=> d[i].fn = fn)
      BY <3>1 DEF Hit, None
    <3>3. z.at # Nowhere \/ (d[i].kind = "short" => d[i].fn # fn)
      <4> SUFFICES ASSUME d[i].kind = "short", d[i].fn = fn PROVE z.at # Nowhere
        OBVIOUS
      <4>1. z.at = i - 1
        BY <2>3, <2>7, <3>1, <3>2 DEF Visited
      <4> QED BY <4>1, <2>4 DEF Nowhere
    <3>4. z.stop = FALSE => z.ord = None
      <4>1. d[i].kind = "lfn" => z.ord = x.ord
        BY <2>3, <2>7 DEF Visited
      <4>2. d[i].kind = "deleted" => z.ord = None
        BY <2>3, <2>7 DEF Visited
      <4>3. d[i].kind = "end" => z.stop = TRUE
        BY <2>3, <2>7 DEF Visited
      <4>4. d[i].kind = "short" => z.stop = TRUE \/ z.ord = None
        BY <2>3, <2>7 DEF Visited
      <4> QED BY <2>2, <3>1, <4>1, <4>2, <4>3, <4>4 DEF Kinds
    <3>5. z.at = Nowhere => \A j \in 1 .. i : d[j].kind = "short" => d[j].fn # fn
      BY <2>1, <2>4, <3>1, <3>3
    <3> QED BY <1>1, <2>5, <3>4, <3>5 DEF ShortOnly
  <2> QED BY <2>2, <2>6, <2>7
<1> HIDE DEF ShortOnly, SearchStep
<1>6. ShortOnly(p, SlotCount, ShortSearch!Fold(p, Start, d))
  BY <1>3, <1>4, <1>5, ShortSearch!FoldKeeps
<1> QED BY <1>1, <1>2, <1>6 DEF ShortOnly, Slots0

-----------------------------------------------------------------------------
(* Listing.                                                                *)

\* A listing, what it lists at a short entry, and whether a long one counts.
IsReading(l) ==
  /\ l.stop \in BOOLEAN
  /\ l = [i |-> l.i, stop |-> l.stop, ord |-> l.ord, sum |-> l.sum, blk |-> l.blk,
          buf |-> l.buf, list |-> l.list]
Shown(l, e) == [name |-> IF l.ord = 0 /\ l.sum = sum_sfn(e.fn) THEN Name(l.buf) ELSE e.fn,
                file |-> e.file]
Counted(l, e, sum) == (e.last \/ e.ord = l.ord) /\ e.sum = sum

\* What dir_read makes of an entry: z is the listing behind it.
Taken(l, e, z) ==
  /\ IsReading(z)
  /\ l.stop = TRUE => z = l
  /\ l.stop = FALSE =>
       /\ e.kind = "end" => z.stop = TRUE /\ z.buf = l.buf /\ z.list = l.list
       /\ e.kind = "deleted" => z.stop = FALSE /\ z.ord = None /\ z.buf = l.buf /\ z.list = l.list
       /\ e.kind = "lfn" =>
            /\ z.stop = FALSE /\ z.list = l.list
            /\ z.sum = (IF e.last THEN e.sum ELSE l.sum)
            /\ z.ord = (IF Counted(l, e, z.sum) THEN e.ord - 1 ELSE None)
            /\ z.buf = (IF Counted(l, e, z.sum) THEN pick_lfn(l.buf, e) ELSE l.buf)
       /\ e.kind = "short" =>
            /\ z.stop = FALSE /\ z.ord = None /\ z.buf = l.buf
            /\ z.list = Append(l.list, Shown(l, e))

\* One step of dir_read is one of the cases of Taken.
LEMMA ReadIs ==
  ASSUME NEW l, IsReading(l), NEW e, e.kind \in Kinds, NEW z, z = Read(l, e)
  PROVE  Taken(l, e, z)
<1> USE DEF Taken
<1> DEFINE next == [l EXCEPT !.i = @ + 1]
           g == Begun(l, e)
<1>1. CASE l.stop = TRUE
  BY <1>1 DEF Read
<1>2. CASE l.stop = FALSE /\ e.kind = "end"
  <2>1. z = [l EXCEPT !.stop = TRUE]
    BY <1>2 DEF Read
  <2> QED BY <1>2, <2>1 DEF IsReading
<1>3. CASE l.stop = FALSE /\ e.kind = "deleted"
  <2>1. z = [next EXCEPT !.ord = None]
    BY <1>3 DEF Read
  <2> QED BY <1>3, <2>1 DEF IsReading
<1>4. CASE l.stop = FALSE /\ e.kind = "short"
  <2>1. z = [next EXCEPT !.list = Append(@, Shown(l, e)), !.ord = None, !.sum = None]
    BY <1>4 DEF Read, Shown, Complete
  <2> QED BY <1>4, <2>1 DEF IsReading
<1>5. CASE l.stop = FALSE /\ e.kind = "lfn"
  <2>1. /\ IsReading(g) /\ g.stop = FALSE /\ g.buf = l.buf /\ g.list = l.list /\ g.i = l.i
        /\ g.ord = (IF e.last THEN e.ord ELSE l.ord) /\ g.sum = (IF e.last THEN e.sum ELSE l.sum)
    BY <1>5 DEF Begun, IsReading
  <2>2. z = [CountDown(g, e, TRUE) EXCEPT
              !.i = @ + 1, !.buf = IF e.ord = g.ord /\ e.sum = g.sum THEN pick_lfn(@, e) ELSE @]
    BY <1>5 DEF Read
  <2> HIDE DEF g
  <2>3. CountDown(g, e, TRUE) =
          [g EXCEPT !.ord = IF e.ord = g.ord /\ e.sum = g.sum THEN @ - 1 ELSE None]
    BY DEF CountDown
  <2>4. /\ IsReading(z) /\ z.stop = FALSE /\ z.list = g.list /\ z.sum = g.sum
        /\ z.ord = (IF e.ord = g.ord /\ e.sum = g.sum THEN g.ord - 1 ELSE None)
        /\ z.buf = (IF e.ord = g.ord /\ e.sum = g.sum THEN pick_lfn(g.buf, e) ELSE g.buf)
    BY <2>1, <2>2, <2>3, ZenonT(40) DEF IsReading
  <2>5. Counted(l, e, z.sum) <=> (e.ord = g.ord /\ e.sum = g.sum)
    BY <2>1, <2>4 DEF Counted
  <2> QED BY <1>5, <2>1, <2>4, <2>5
<1>6. (l.stop = TRUE \/ l.stop = FALSE) /\ e.kind \in {"end", "deleted", "short", "lfn"}
  BY DEF IsReading, Kinds
<1> HIDE DEF Taken
<1> QED BY <1>1, <1>2, <1>3, <1>4, <1>5, <1>6, Zenon

\* A part put into the buffer.
LEMMA PickIs ==
  ASSUME NEW buf, BufType(buf), NEW e, e.chars \in [1 .. PartLen -> Characters \cup {Term, Filler}]
  PROVE  BufType(pick_lfn(buf, e))
<1>1. \A s \in Used(e) : e.chars[s] \in BufChars
  BY DEF Used, BufChars
<1>2. Term \in BufChars
  BY DEF BufChars
<1> QED BY <1>1, <1>2 DEF pick_lfn, BufType

\* The parts from k on of a name are in the buffer, and its end.
HasFrom(buf, name, k) ==
  /\ \A x \in 0 .. Len(name) - 1 : x >= k * PartLen => buf[x] = name[x + 1]
  /\ buf[Len(name)] = Term

\* pick_lfn adds one part of the name to those that are in the buffer.
LEMMA PickFills ==
  ASSUME NEW name \in NameSet, NEW k \in 1 .. Parts(name), NEW sum, NEW buf, BufType(buf),
         k = Parts(name) \/ HasFrom(buf, name, k)
  PROVE  HasFrom(pick_lfn(buf, put_lfn(name, k, sum)), name, k - 1)
<1> DEFINE e == put_lfn(name, k, sum)
           l == Len(name)
           t == pick_lfn(buf, e)
<1>1. /\ l \in 1 .. MaxName /\ MaxName \in Nat /\ PartLen \in Nat \ {0} /\ k \in Nat \ {0}
  BY NameIs, NamesAre, PlacesAreNumbers
<1>2. /\ e.ord = k /\ (e.last <=> k = Parts(name))
      /\ \A s \in 1 .. PartLen :
           e.chars[s] = IF Place(k, s) < l THEN name[Place(k, s) + 1]
                        ELSE IF Place(k, s) = l THEN Term ELSE Filler
      /\ Used(e) = {s \in 1 .. PartLen : Place(k, s) <= l}
      /\ Term \in ToSet(e.chars) <=> \E s \in 1 .. PartLen : Place(k, s) = l
  BY PartIs
<1>3. \A x \in 0 .. MaxName :
         t[x] = LET s == x - Place(k, 1) + 1
                IN  IF s \in Used(e) THEN e.chars[s]
                    ELSE IF s = PartLen + 1 /\ e.last /\ Term \notin ToSet(e.chars) THEN Term ELSE buf[x]
  BY <1>2 DEF pick_lfn
<1> DEFINE r == Place(k, 1)
<1>4. /\ r \in Nat /\ r = (k - 1) * PartLen /\ r + PartLen = k * PartLen
      /\ \A s \in 1 .. PartLen : Place(k, s) = r + s - 1
  <2>1. r \in Nat /\ r = (k - 1) * PartLen
    BY <1>1, PlaceIs
  <2>2. k * PartLen = (k - 1) * PartLen + PartLen
    <3>1. k - 1 \in Int /\ (k - 1) + 1 = k
      BY <1>1
    <3> QED BY <3>1, <1>1, Multiplied
  <2> QED BY <2>1, <2>2, PlacesAreNumbers
<1>5. k = Parts(name) => l <= r + PartLen
  <2>1. l <= Parts(name) * PartLen
    BY PartsIs
  <2> QED BY <2>1, <1>4
<1>6. k # Parts(name) => HasFrom(buf, name, k)
  OBVIOUS
<1> HIDE DEF e, l, t, r
<1>7. ASSUME NEW x \in 0 .. l, x >= r
      PROVE  t[x] = IF x = l THEN Term ELSE name[x + 1]
  <2> DEFINE s == x - r + 1
  <2>1. x \in 0 .. MaxName /\ s \in Nat \ {0} /\ x = r + s - 1
    BY <1>1, <1>4, <1>7
  <2>2. t[x] = IF s \in Used(e) THEN e.chars[s]
               ELSE IF s = PartLen + 1 /\ e.last /\ Term \notin ToSet(e.chars) THEN Term ELSE buf[x]
    BY <2>1, <1>3 DEF r
  <2>3. CASE s \in 1 .. PartLen
    <3>1. Place(k, s) = x
      BY <2>1, <2>3, <1>4
    <3>2. s \in Used(e) /\ e.chars[s] = IF x = l THEN Term ELSE name[x + 1]
      BY <3>1, <2>3, <1>1, <1>2, <1>7
    <3> QED BY <2>2, <3>2
  <2>4. CASE s \notin 1 .. PartLen
    <3>1. s \notin Used(e) /\ x >= r + PartLen
      BY <2>1, <2>4, <1>1, <1>2, <1>4
    <3>2. CASE k = Parts(name)
      <4>1. x = l /\ s = PartLen + 1
        BY <3>1, <3>2, <2>1, <1>1, <1>4, <1>5
      <4>2. Term \notin ToSet(e.chars)
        <5>1. \A j \in 1 .. PartLen : r + j - 1 # l
          BY <4>1, <3>1, <1>1, <1>4
        <5> QED BY <5>1, <1>2, <1>4
      <4> QED BY <2>2, <3>1, <3>2, <4>1, <4>2, <1>2
    <3>3. CASE k # Parts(name)
      <4>1. HasFrom(buf, name, k) /\ ~e.last
        BY <3>3, <1>2, <1>6
      <4>2. t[x] = buf[x]
        BY <2>2, <3>1, <4>1
      <4>3. x >= k * PartLen
        BY <3>1, <1>4
      <4>4. x = l \/ x \in 0 .. l - 1
        BY <1>1
      <4> QED BY <4>1, <4>2, <4>3, <4>4, <1>1 DEF HasFrom, l
    <3> QED BY <3>2, <3>3
  <2> QED BY <2>3, <2>4
<1>8. r <= l
  <2>1. (Parts(name) - 1) * PartLen < l
    BY PartsIs DEF l
  <2>2. k = Parts(name) => r <= l
    BY <2>1, <1>1, <1>4
  <2>3. k < Parts(name) => k * PartLen <= (Parts(name) - 1) * PartLen
    <3> SUFFICES ASSUME k < Parts(name) PROVE k * PartLen <= (Parts(name) - 1) * PartLen
      OBVIOUS
    <3>1. Parts(name) - 1 \in Int /\ (k = Parts(name) - 1 \/ k < Parts(name) - 1)
      BY <1>1, PartsIs
    <3>2. k < Parts(name) - 1 => k * PartLen + PartLen <= (Parts(name) - 1) * PartLen
      BY <3>1, <1>1, Multiplied
    <3>3. k * PartLen \in Int /\ (Parts(name) - 1) * PartLen \in Int
      BY <3>1, <1>1, Multiplied
    <3> QED BY <3>1, <3>2, <3>3, <1>1
  <2>4. (Parts(name) - 1) * PartLen \in Int /\ k * PartLen \in Int
    BY <1>1, PartsIs, Multiplied
  <2>5. k = Parts(name) \/ k < Parts(name)
    BY PartsIs
  <2> QED BY <2>1, <2>2, <2>3, <2>4, <2>5, <1>1, <1>4
<1>9. t[l] = Term
  BY <1>1, <1>4, <1>7, <1>8
<1>10. \A x \in 0 .. l - 1 : x >= r => t[x] = name[x + 1]
  BY <1>1, <1>7
<1> QED BY <1>4, <1>9, <1>10 DEF HasFrom, t, e, l

\* The name in a buffer that is filled.
LEMMA NameFilled ==
  ASSUME NEW name \in NameSet, NEW buf, BufType(buf), HasFrom(buf, name, 0)
  PROVE  Name(buf) = name
<1> DEFINE T == {j \in DOMAIN buf : buf[j] = Term}
           l == Len(name)
<1>1. /\ l \in 1 .. MaxName /\ MaxName \in Nat /\ DOMAIN name = 1 .. l
      /\ \A i \in 1 .. l : name[i] \in Characters
      /\ name = [i \in 1 .. l |-> name[i]]
  <2>1. name \in Seq(Characters)
    BY NamesAre
  <2> QED BY <2>1, NameIs, NamesAre
<1>2. DOMAIN buf = 0 .. MaxName
  BY DEF BufType
<1>3. buf[l] = Term /\ \A x \in 0 .. l - 1 : buf[x] = name[x + 1]
  <2>1. 0 * PartLen = 0
    BY NamesAre, Multiplied
  <2> QED BY <2>1, <1>1 DEF HasFrom
<1>4. \A x \in 0 .. l - 1 : buf[x] # Term
  <2>1. \A y \in Characters : y # Term
    BY DEF Characters, Term
  <2>2. \A x \in 0 .. l - 1 : x + 1 \in 1 .. l
    BY <1>1
  <2> QED BY <2>1, <2>2, <1>1, <1>3
<1> HIDE DEF l
<1>5. T \in SUBSET Nat /\ l \in T
  BY <1>1, <1>2, <1>3
<1>6. Min(T) \in T /\ \A y \in T : Min(T) <= y
  BY <1>5, LeastIs
<1>7. Min(T) = l
  <2>1. Min(T) \in Nat /\ Min(T) <= l /\ buf[Min(T)] = Term
    BY <1>5, <1>6
  <2>2. ~ (Min(T) < l)
    BY <2>1, <1>1, <1>4
  <2> QED BY <2>1, <2>2, <1>1
<1>8. Name(buf) = [i \in 1 .. l |-> buf[i - 1]]
  BY <1>7 DEF Name
<1>9. \A i \in 1 .. l : buf[i - 1] = name[i]
  <2>1. \A i \in 1 .. l : i - 1 \in 0 .. l - 1 /\ (i - 1) + 1 = i
    BY <1>1
  <2> QED BY <2>1, <1>3
<1> QED BY <1>1, <1>8, <1>9

\* After n entries of any directory: m has the short entry of each item of the
\* list, and all the short entries so far are among them.
Items(d, n, l, m) ==
  /\ m \in [1 .. Len(l.list) -> Slots0]
  /\ \A k \in 1 .. Len(l.list) :
       m[k] <= n /\ d[m[k]].kind = "short" /\ l.list[k].file = d[m[k]].file
  /\ \A j, k \in 1 .. Len(l.list) : m[j] = m[k] => j = k
  /\ \A j \in 1 .. n : d[j].kind = "short" => \E k \in 1 .. Len(l.list) : m[k] = j
Reading(d, n, l) ==
  /\ IsReading(l) /\ BufType(l.buf)
  /\ \E S : l.list \in Seq(S)
  /\ \E m : Items(d, n, l, m)
  /\ l.stop = TRUE => \E j \in 1 .. n : d[j].kind = "end"

\* One more item.
LEMMA Appended ==
  ASSUME NEW s, NEW S, s \in Seq(S), NEW x
  PROVE  /\ Append(s, x) \in Seq(S \cup {x}) /\ Len(s) \in Nat
         /\ Len(Append(s, x)) = Len(s) + 1 /\ Append(s, x)[Len(s) + 1] = x
         /\ \A k \in 1 .. Len(s) : Append(s, x)[k] = s[k]
<1>1. s \in Seq(S \cup {x}) /\ x \in S \cup {x}
  BY SeqMonotonic
<1> QED BY <1>1, AppendProperties

\* Every step of a listing keeps the list in the order of the entries.
LEMMA ReadingStays ==
  ASSUME NEW d, NEW o \in Nat, DirOK(d, o), EndsLast(d), NEW n \in Nat, n + 1 \in Slots0,
         NEW l, Reading(d, n, l), NEW z, Taken(l, d[n + 1], z)
  PROVE  Reading(d, n + 1, z)
<1> DEFINE e == d[n + 1]
<1>1. /\ IsReading(z) /\ (l.stop = TRUE \/ l.stop = FALSE) /\ BufType(l.buf)
      /\ e.kind \in {"end", "deleted", "short", "lfn"}
  BY DEF Taken, Reading, IsReading, DirOK, EntryOK, Kinds
<1>2. PICK m : Items(d, n, l, m)
  BY DEF Reading
<1>3. PICK S : l.list \in Seq(S)
  BY DEF Reading
<1>4. ASSUME e.kind # "short", z.list = l.list PROVE Items(d, n + 1, z, m)
  <2>1. \A j \in 1 .. n + 1 : j \in 1 .. n \/ j = n + 1
    OBVIOUS
  <2>2. \A k \in 1 .. Len(l.list) : m[k] \in Nat /\ m[k] <= n + 1
    BY <1>2, NamesAre DEF Items, Slots0
  <2> QED BY <1>2, <1>4, <2>1, <2>2 DEF Items
<1>5. CASE l.stop = TRUE
  <2>1. z = l
    BY <1>5 DEF Taken
  <2>2. PICK i \in 1 .. n : d[i].kind = "end"
    BY <1>5 DEF Reading
  <2>3. i \in Slots0 /\ i < n + 1 /\ i \in 1 .. n + 1
    BY NamesAre DEF Slots0
  <2>4. e.kind = "end"
    BY <2>2, <2>3 DEF EndsLast
  <2> QED BY <1>1, <1>3, <1>4, <2>1, <2>2, <2>3, <2>4 DEF Reading
<1>6. CASE l.stop = FALSE /\ e.kind = "end"
  <2>1. z.buf = l.buf /\ z.list = l.list
    BY <1>6 DEF Taken
  <2>2. n + 1 \in 1 .. n + 1
    OBVIOUS
  <2> QED BY <1>1, <1>3, <1>4, <1>6, <2>1, <2>2 DEF Reading
<1>7. CASE l.stop = FALSE /\ e.kind = "deleted"
  <2>1. z.buf = l.buf /\ z.list = l.list /\ z.stop = FALSE
    BY <1>7 DEF Taken
  <2> QED BY <1>1, <1>3, <1>4, <1>7, <2>1 DEF Reading
<1>8. CASE l.stop = FALSE /\ e.kind = "lfn"
  <2>1. z.list = l.list /\ z.stop = FALSE /\ (z.buf = pick_lfn(l.buf, e) \/ z.buf = l.buf)
    BY <1>8 DEF Taken
  <2>2. BufType(z.buf)
    <3>1. e.chars \in [1 .. PartLen -> Characters \cup {Term, Filler}]
      BY <1>8 DEF DirOK, EntryOK
    <3> QED BY <1>1, <2>1, <3>1, PickIs
  <2> QED BY <1>1, <1>3, <1>4, <1>8, <2>1, <2>2 DEF Reading
<1>9. CASE l.stop = FALSE /\ e.kind = "short"
  <2> DEFINE x == Shown(l, e)
             N == Len(l.list)
             w == [k \in 1 .. N + 1 |-> IF k = N + 1 THEN n + 1 ELSE m[k]]
  <2>1. z.stop = FALSE /\ z.buf = l.buf /\ z.list = Append(l.list, x)
    BY <1>9 DEF Taken
  <2>2. x.file = e.file
    BY DEF Shown
  <2> HIDE DEF x
  <2>3. /\ z.list \in Seq(S \cup {x}) /\ N \in Nat /\ Len(z.list) = N + 1 /\ z.list[N + 1] = x
        /\ \A k \in 1 .. N : z.list[k] = l.list[k]
    BY <1>3, <2>1, Appended
  <2>4. /\ m \in [1 .. N -> Slots0]
        /\ \A k \in 1 .. N : m[k] <= n /\ d[m[k]].kind = "short" /\ l.list[k].file = d[m[k]].file
        /\ \A j, k \in 1 .. N : m[j] = m[k] => j = k
        /\ \A j \in 1 .. n : d[j].kind = "short" => \E k \in 1 .. N : m[k] = j
    BY <1>2 DEF Items
  <2> HIDE DEF N
  <2>5. w \in [1 .. N + 1 -> Slots0] /\ w[N + 1] = n + 1 /\ \A k \in 1 .. N : w[k] = m[k]
    BY <2>3, <2>4
  <2> HIDE DEF w
  <2>6. \A k \in 1 .. N + 1 : k \in 1 .. N \/ k = N + 1
    BY <2>3
  <2>7. \A k \in 1 .. N + 1 :
          w[k] <= n + 1 /\ d[w[k]].kind = "short" /\ z.list[k].file = d[w[k]].file
    <3> SUFFICES ASSUME NEW k \in 1 .. N + 1
                 PROVE  w[k] <= n + 1 /\ d[w[k]].kind = "short" /\ z.list[k].file = d[w[k]].file
      OBVIOUS
    <3>1. CASE k = N + 1
      BY <3>1, <1>9, <2>2, <2>3, <2>5
    <3>2. CASE k \in 1 .. N
      <4>1. m[k] \in Nat /\ m[k] <= n
        BY <3>2, <2>4, NamesAre DEF Slots0
      <4>2. w[k] = m[k] /\ z.list[k] = l.list[k]
        BY <3>2, <2>3, <2>5
      <4>3. w[k] <= n + 1
        BY <4>1, <4>2
      <4> QED BY <3>2, <4>2, <4>3, <2>4
    <3> QED BY <3>1, <3>2, <2>6
  <2>8. \A j, k \in 1 .. N + 1 : w[j] = w[k] => j = k
    <3>1. \A k \in 1 .. N : w[k] # n + 1
      BY <2>4, <2>5, NamesAre DEF Slots0
    <3> QED BY <3>1, <2>4, <2>5, <2>6
  <2>9. \A j \in 1 .. n + 1 : d[j].kind = "short" => \E k \in 1 .. N + 1 : w[k] = j
    <3> SUFFICES ASSUME NEW j \in 1 .. n + 1, d[j].kind = "short"
                 PROVE  \E k \in 1 .. N + 1 : w[k] = j
      OBVIOUS
    <3>1. CASE j = n + 1
      <4>1. N + 1 \in 1 .. N + 1
        BY <2>3
      <4> QED BY <3>1, <4>1, <2>5
    <3>2. CASE j # n + 1
      <4>1. j \in 1 .. n
        BY <3>2
      <4>2. PICK k \in 1 .. N : m[k] = j
        BY <4>1, <2>4
      <4>3. k \in 1 .. N + 1
        BY <2>3
      <4> QED BY <4>2, <4>3, <2>5
    <3> QED BY <3>1, <3>2
  <2>10. Items(d, n + 1, z, w)
    BY <2>3, <2>5, <2>7, <2>8, <2>9 DEF Items
  <2> QED BY <1>1, <2>1, <2>3, <2>10 DEF Reading
<1> QED BY <1>1, <1>5, <1>6, <1>7, <1>8, <1>9

\* The listing as a fold.
ListStart == [i |-> 0, stop |-> FALSE, ord |-> None, sum |-> None, blk |-> Nowhere,
              buf |-> LfnBuf, list |-> <<>>]
ReadStep(p, l, e) == Read(l, e)
ReadingOf(d, n, l) == Reading(d, n, l)
Readings == INSTANCE FoldInduction WITH Step <- ReadStep, Good <- ReadingOf

\* The start of a listing.
LEMMA ListStarts ==
  /\ IsReading(ListStart) /\ ListStart.stop = FALSE /\ ListStart.ord = None
  /\ ListStart.buf = LfnBuf /\ ListStart.list = <<>>
BY DEF ListStart, IsReading

\* A listing begins in front of the first entry, with nothing listed.
LEMMA ReadingBegins ==
  ASSUME BufType(LfnBuf), NEW d
  PROVE  Reading(d, 0, ListStart)
<1>1. <<>> \in Seq({}) /\ Len(<<>>) = 0
  OBVIOUS
<1> DEFINE m == [k \in 1 .. 0 |-> 1]
<1>2. \A k \in 1 .. 0 : FALSE
  OBVIOUS
<1>3. m \in [1 .. 0 -> Slots0]
  BY <1>2
<1> HIDE DEF m
<1>4. Items(d, 0, ListStart, m)
  BY <1>1, <1>2, <1>3, ListStarts DEF Items
<1> QED BY <1>1, <1>4, ListStarts DEF Reading

\* What the listing of any directory has.
LEMMA ListingIs ==
  ASSUME NEW o \in Nat, DirOK(dir, o), EndsLast(dir), BufType(LfnBuf)
  PROVE  Reading(dir, SlotCount, Listing)
<1>1. Listing = Readings!Fold(dir, ListStart, dir)
  BY Zenon DEF Listing, ListStart, Readings!Fold, FoldLeft, MapThenFoldSet,
      Readings!MapThenFoldSet, Max, Readings!Greatest, ReadStep
<1>2. ReadingOf(dir, 0, ListStart)
  BY ReadingBegins DEF ReadingOf
<1>3. ASSUME NEW i \in 1 .. SlotCount, NEW l, ReadingOf(dir, i - 1, l)
      PROVE  ReadingOf(dir, i, ReadStep(dir, l, dir[i]))
  <2>1. i - 1 \in Nat /\ (i - 1) + 1 = i /\ dir[i].kind \in Kinds /\ i \in Slots0
    BY NamesAre DEF DirOK, EntryOK, Slots0
  <2>2. PICK z : z = Read(l, dir[i])
    OBVIOUS
  <2>3. Reading(dir, i - 1, l)
    BY <1>3 DEF ReadingOf
  <2>4. IsReading(l)
    BY <2>3 DEF Reading
  <2>5. Taken(l, dir[i], z)
    BY <2>1, <2>2, <2>4, ReadIs
  <2>6. Reading(dir, (i - 1) + 1, z)
    BY <2>1, <2>3, <2>5, ReadingStays
  <2> QED BY <2>1, <2>2, <2>6 DEF ReadingOf, ReadStep
<1>4. SlotCount \in Nat /\ DOMAIN dir = 1 .. SlotCount
  BY NamesAre DEF DirOK, Slots0
<1> HIDE DEF ReadingOf, ReadStep
<1>5. ReadingOf(dir, SlotCount, Readings!Fold(dir, ListStart, dir))
  BY <1>2, <1>3, <1>4, Readings!FoldKeeps
<1> QED BY <1>1, <1>5 DEF ReadingOf

\* A file with one short entry is listed once.
LEMMA ListedOnce ==
  ASSUME NEW o \in Nat, DirOK(dir, o), EndsLast(dir), BufType(LfnBuf),
         NEW i \in Slots0, dir[i].kind = "short",
         \A j \in Slots0 : dir[j].kind = "short" /\ dir[j].file = dir[i].file => j = i
  PROVE  /\ Cardinality({k \in DOMAIN Listing.list : Listing.list[k].file = dir[i].file}) = 1
         /\ \E k \in DOMAIN Listing.list : Listing.list[k].file = dir[i].file
<1>1. Reading(dir, SlotCount, Listing)
  BY ListingIs
<1>2. PICK S : Listing.list \in Seq(S)
  BY <1>1 DEF Reading
<1>3. DOMAIN Listing.list = 1 .. Len(Listing.list)
  BY <1>2
<1>4. PICK m : Items(dir, SlotCount, Listing, m)
  BY <1>1 DEF Reading
<1>5. PICK k \in 1 .. Len(Listing.list) : m[k] = i
  BY <1>4 DEF Items, Slots0
<1>6. Listing.list[k].file = dir[i].file
  BY <1>4, <1>5 DEF Items
<1>7. ASSUME NEW j \in 1 .. Len(Listing.list), Listing.list[j].file = dir[i].file PROVE j = k
  <2>1. m[j] \in Slots0 /\ dir[m[j]].kind = "short" /\ dir[m[j]].file = dir[i].file
    BY <1>4, <1>7 DEF Items
  <2>2. m[j] = m[k]
    BY <2>1, <1>5
  <2> QED BY <2>2, <1>4, <1>5 DEF Items
<1>8. {j \in DOMAIN Listing.list : Listing.list[j].file = dir[i].file} = {k}
  BY <1>3, <1>5, <1>6, <1>7
<1> QED BY <1>3, <1>5, <1>6, <1>8, FS_Singleton

\* What stands at a place in or next to the entries of a file.
Around(d, f, q, i) ==
  /\ q \in Nat /\ Size(f.name) \in Nat \ {0} /\ q + Size(f.name) \in Nat
  /\ q + Size(f.name) <= SlotCount
  /\ q + Size(f.name) = i => d[i].kind = "short" /\ i \in q + 1 .. q + Size(f.name)
  /\ Inside(f, q, i) => d[i].kind = "lfn" /\ i \in q + 1 .. q + Size(f.name)
  /\ i \in q + 1 .. q + Size(f.name) => Inside(f, q, i) \/ i = q + Size(f.name)
  /\ Inside(f, q, i - 1) => i \in q + 1 .. q + Size(f.name) /\ q # i - 1

\* A place among the entries of a file that stands in the directory.
LEMMA AroundIs ==
  ASSUME NEW F, FilesOK(F), NEW c, NEW d, NEW f \in F, NEW q, NEW its, Stands(c, d, f, q, its),
         NEW i \in Nat
  PROVE  Around(d, f, q, i)
<1> DEFINE m == Size(f.name)
<1>1. Standing(c, d, f, q, its, m)
  BY StandsIs DEF FilesOK
<1> USE DEF Inside
<1> HIDE DEF m
<1>2. /\ q \in Nat /\ m \in Nat \ {0} /\ q + m \in Nat /\ q + m <= SlotCount
      /\ q + m = i => d[i].kind = "short" /\ i \in q + 1 .. q + m
  BY <1>1 DEF Standing
<1>3. q < i /\ i < q + m => d[i].kind = "lfn" /\ i \in q + 1 .. q + m
  <2> SUFFICES ASSUME q < i, i < q + m PROVE d[i].kind = "lfn" /\ i \in q + 1 .. q + m
    OBVIOUS
  <2>1. i - q \in 1 .. m - 1 /\ q + (i - q) = i
    BY <1>2
  <2> QED BY <2>1, <1>1, <1>2 DEF Standing
<1>4. /\ i \in q + 1 .. q + m => (q < i /\ i < q + m) \/ i = q + m
      /\ q < i - 1 /\ i - 1 < q + m => i \in q + 1 .. q + m /\ q # i - 1
  BY <1>2
<1> QED BY <1>2, <1>3, <1>4 DEF Around, m

\* The name that a file is listed with.
ToldName(name) == IF NeedsLfn(name) THEN name ELSE Upper(name)

\* A file without long entries is listed with its short name.
LEMMA ShortIsTold ==
  ASSUME NEW name \in NameSet, Size(name) = 1
  PROVE  ShortName(name) = ToldName(name)
<1>1. ~NeedsLfn(name) /\ Fits(name)
  BY SizeIs
<1>2. Len(name) \in Nat /\ BodyLen \in Nat \ {0} /\ name \in Seq(Characters)
  BY NamesAre, NameIs
<1> DEFINE r == Min({BodyLen, Len(name)})
<1>3. {BodyLen, Len(name)} \in SUBSET Nat /\ {BodyLen, Len(name)} # {}
  BY <1>2
<1>4. r \in {BodyLen, Len(name)} /\ \A y \in {BodyLen, Len(name)} : r <= y
  BY <1>3, LeastIs
<1>5. ShortName(name) = Upper(SubSeq(name, 1, r))
  BY DEF ShortName
<1> HIDE DEF r
<1>6. r = Len(name)
  BY <1>1, <1>2, <1>4 DEF Fits
<1>7. SubSeq(name, 1, Len(name)) = name
  BY <1>2, SubSeqFull
<1> QED BY <1>1, <1>5, <1>6, <1>7 DEF ToldName

\* After n entries of a tidy directory: every item is a file with the name it
\* is told with, and inside of a file the buffer has its name from there on.
ListsFile(F, x) == \E f \in F : x.name = ToldName(f.name) /\ x.file = f.file
ReadTo(f, l, its, k) == l.ord = k /\ l.sum = SumOf(checksums, its) /\ HasFrom(l.buf, f.name, k)
Told(d, F, n, l) ==
  /\ \A k \in 1 .. Len(l.list) : ListsFile(F, l.list[k])
  /\ l.stop = FALSE =>
       /\ \A f \in F : \A q, its :
            Stands(checksums, d, f, q, its) /\ Inside(f, q, n) =>
              ReadTo(f, l, its, Size(f.name) - 1 - (n - q))
       /\ (\A f \in F : \A q, its : Stands(checksums, d, f, q, its) => ~Inside(f, q, n)) =>
            l.ord = None

\* A long entry takes the listing one further into its file.
LEMMA ReadsOn ==
  ASSUME NEW F, FilesOK(F), NEW d, NEW f \in F, NEW q, NEW its, Stands(checksums, d, f, q, its),
         NEW n \in Nat, Inside(f, q, n + 1), NEW l, l.stop = FALSE, BufType(l.buf),
         Inside(f, q, n) => ReadTo(f, l, its, Size(f.name) - 1 - (n - q)),
         NEW z, Taken(l, d[n + 1], z)
  PROVE  ReadTo(f, z, its, Size(f.name) - 1 - ((n + 1) - q))
<1> DEFINE m == Size(f.name)
           k == (n + 1) - q
           sum == SumOf(checksums, its)
           e == d[n + 1]
<1>1. Standing(checksums, d, f, q, its, m)
  BY StandsIs DEF FilesOK
<1>2. q < n + 1 /\ n + 1 < q + m
  BY DEF Inside
<1>3. q < n => ReadTo(f, l, its, m - 1 - (n - q))
  <2>1. q < n => Inside(f, q, n)
    <3>1. m \in Nat /\ q \in Nat
      BY <1>1 DEF Standing
    <3> QED BY <1>2, <3>1 DEF Inside
  <2> QED BY <2>1
<1>4. f.name \in NameSet /\ (m > 1 => m - 1 = Parts(f.name))
  BY SizeIs DEF FilesOK
<1>5. \A j \in 1 .. m - 1 : d[q + j] = put_lfn(f.name, m - j, sum)
  BY DEF Stands
<1> HIDE DEF m
<1>6. /\ q \in Nat /\ m \in Nat \ {0} /\ m - 1 \in 0 .. 254 /\ k \in 1 .. m - 1 /\ q + k = n + 1
  BY <1>1, <1>2 DEF Standing
<1> HIDE DEF k
<1>7. /\ e.kind = "lfn" /\ e.ord = m - k /\ e.sum = sum /\ (e.last <=> k = 1)
      /\ e = put_lfn(f.name, m - k, sum)
  BY <1>1, <1>5, <1>6 DEF Standing, sum
<1> HIDE DEF e
<1>8. /\ z.sum = (IF e.last THEN e.sum ELSE l.sum)
      /\ z.ord = (IF Counted(l, e, z.sum) THEN e.ord - 1 ELSE None)
      /\ z.buf = (IF Counted(l, e, z.sum) THEN pick_lfn(l.buf, e) ELSE l.buf)
  BY <1>7 DEF Taken, e
<1>9. k # 1 => l.ord = m - k /\ l.sum = sum /\ HasFrom(l.buf, f.name, m - k)
  <2> SUFFICES ASSUME k # 1 PROVE l.ord = m - k /\ l.sum = sum /\ HasFrom(l.buf, f.name, m - k)
    OBVIOUS
  <2>1. q < n /\ m - 1 - (n - q) = m - k
    BY <1>6
  <2> QED BY <2>1, <1>3 DEF ReadTo, sum
<1>10. z.sum = sum /\ Counted(l, e, z.sum)
  <2>1. z.sum = sum
    BY <1>6, <1>7, <1>8, <1>9
  <2> QED BY <2>1, <1>6, <1>7, <1>9 DEF Counted
<1>11. z.ord = (m - k) - 1 /\ z.buf = pick_lfn(l.buf, e)
  BY <1>7, <1>8, <1>10
<1>12. HasFrom(z.buf, f.name, (m - k) - 1)
  <2>1. m - k \in 1 .. Parts(f.name) /\ (m - k = Parts(f.name) <=> k = 1)
    BY <1>4, <1>6
  <2> QED BY <2>1, <1>4, <1>7, <1>9, <1>11, PickFills
<1>13. m - 1 - ((n + 1) - q) = (m - k) - 1
  BY <1>6
<1> QED BY <1>10, <1>11, <1>12, <1>13 DEF ReadTo, m, sum

\* The short entry of a file is listed with the name of the file.
LEMMA ShownIs ==
  ASSUME NEW F, FilesOK(F), NEW d, NEW f \in F, NEW q, NEW its, Stands(checksums, d, f, q, its),
         NEW n \in Nat, n + 1 = q + Size(f.name), NEW l, BufType(l.buf),
         Size(f.name) > 1 => ReadTo(f, l, its, 0),
         Size(f.name) = 1 => l.ord = None
  PROVE  ListsFile(F, Shown(l, d[n + 1]))
<1> DEFINE m == Size(f.name)
           e == d[n + 1]
<1>1. e = Short(its, f.file) /\ f.name \in NameSet /\ (Fits(f.name) => its = ShortName(f.name))
  BY DEF Stands, FilesOK
<1>2. e.fn = its /\ e.file = f.file
  BY <1>1 DEF Short
<1>3. sum_sfn(e.fn) = SumOf(checksums, its)
  BY <1>2, SumIs
<1>4. m \in Nat \ {0} /\ (m > 1 <=> NeedsLfn(f.name)) /\ (m = 1 => Fits(f.name))
  BY <1>1, SizeIs
<1>5. Shown(l, e).file = f.file
  BY <1>2 DEF Shown
<1>6. Shown(l, e).name = ToldName(f.name)
  <2>1. CASE m = 1
    <3>1. l.ord # 0
      BY <2>1 DEF None
    <3>2. Shown(l, e).name = its
      BY <1>2, <3>1 DEF Shown
    <3> QED BY <2>1, <3>2, <1>1, <1>4, ShortIsTold
  <2>2. CASE m > 1
    <3>1. l.ord = 0 /\ l.sum = SumOf(checksums, its) /\ HasFrom(l.buf, f.name, 0)
      BY <2>2 DEF ReadTo
    <3>2. Name(l.buf) = f.name
      BY <1>1, <3>1, NameFilled
    <3>3. Shown(l, e).name = Name(l.buf)
      BY <1>3, <3>1 DEF Shown
    <3> QED BY <2>2, <3>2, <3>3, <1>4 DEF ToldName
  <2> QED BY <1>4, <2>1, <2>2
<1> QED BY <1>5, <1>6 DEF ListsFile

\* Every step of a listing lists a file with its name, and no other entry.
LEMMA ToldStays ==
  ASSUME NEW F, FilesOK(F), NEW d, NEW o \in Nat, DirOK(d, o), Tidy(checksums, d, F),
         NEW n \in Nat, n + 1 \in Slots0, NEW l, Reading(d, n, l), Told(d, F, n, l),
         NEW z, Taken(l, d[n + 1], z)
  PROVE  Told(d, F, n + 1, z)
<1> DEFINE St(f, q, its) == Stands(checksums, d, f, q, its)
           e == d[n + 1]
<1>1. /\ l.stop = TRUE \/ l.stop = FALSE
      /\ e.kind \in {"end", "deleted", "short", "lfn"} /\ BufType(l.buf) /\ (n + 1) - 1 = n
  BY DEF Reading, IsReading, DirOK, EntryOK, Kinds
<1>2. PICK S : l.list \in Seq(S)
  BY DEF Reading
<1>3. \A k \in 1 .. Len(l.list) : ListsFile(F, l.list[k])
  BY DEF Told
<1>4. ASSUME NEW f \in F, NEW q, NEW its, St(f, q, its)
      PROVE  /\ q \in Nat /\ Size(f.name) \in Nat \ {0}
             /\ q + Size(f.name) = n + 1 => e.kind = "short" /\ n + 1 \in q + 1 .. q + Size(f.name)
             /\ Inside(f, q, n + 1) => e.kind = "lfn" /\ n + 1 \in q + 1 .. q + Size(f.name)
             /\ n + 1 \in q + 1 .. q + Size(f.name) => Inside(f, q, n + 1) \/ n + 1 = q + Size(f.name)
             /\ Inside(f, q, n) => n + 1 \in q + 1 .. q + Size(f.name) /\ q # n
  <2>1. n + 1 \in Nat
    OBVIOUS
  <2> HIDE DEF e
  <2>2. Around(d, f, q, n + 1)
    BY <1>4, <2>1, AroundIs
  <2> QED BY <2>2, <1>1 DEF e, Around
<1>5. CASE l.stop = TRUE
  <2>1. z = l
    BY <1>5 DEF Taken
  <2> QED BY <1>3, <1>5, <2>1 DEF Told
<1>6. CASE l.stop = FALSE /\ e.kind = "end"
  <2>1. z.stop = TRUE /\ z.list = l.list
    BY <1>6 DEF Taken
  <2> QED BY <1>3, <2>1 DEF Told
<1>7. CASE l.stop = FALSE /\ e.kind = "deleted"
  <2>1. z.ord = None /\ z.list = l.list
    BY <1>7 DEF Taken
  <2>2. \A f \in F : \A q, its : St(f, q, its) => ~Inside(f, q, n + 1)
    BY <1>4, <1>7
  <2> QED BY <1>3, <2>1, <2>2 DEF Told
<1>8. CASE l.stop = FALSE /\ (e.kind = "lfn" \/ e.kind = "short")
  <2>1. ~IsFree(e)
    BY <1>8 DEF IsFree
  <2>2. PICK f \in F : \E q, its : St(f, q, its) /\ n + 1 \in q + 1 .. q + Size(f.name)
    BY <2>1 DEF Tidy, Covered
  <2>3. PICK q, its : St(f, q, its) /\ n + 1 \in q + 1 .. q + Size(f.name)
    BY <2>2
  <2>4. ASSUME NEW g \in F, NEW p, NEW gn, St(g, p, gn), n + 1 \in p + 1 .. p + Size(g.name)
        PROVE  g = f /\ p = q /\ gn = its
    BY <2>3, <2>4, StandApart
  <2>5. /\ Inside(f, q, n) => ReadTo(f, l, its, Size(f.name) - 1 - (n - q))
        /\ (\A g \in F : \A p, gn : St(g, p, gn) => ~Inside(g, p, n)) => l.ord = None
    BY <1>8, <2>3 DEF Told
  <2>6. CASE e.kind = "lfn"
    <3>1. z.stop = FALSE /\ z.list = l.list
      BY <1>8, <2>6 DEF Taken
    <3>2. Inside(f, q, n + 1)
      BY <1>4, <2>3, <2>6
    <3>3. ReadTo(f, z, its, Size(f.name) - 1 - ((n + 1) - q))
      BY <1>1, <1>8, <2>3, <2>5, <3>2, ReadsOn
    <3>4. ASSUME NEW g \in F, NEW p, NEW gn, St(g, p, gn), Inside(g, p, n + 1)
          PROVE  ReadTo(g, z, gn, Size(g.name) - 1 - ((n + 1) - p))
      <4>1. g = f /\ p = q /\ gn = its
        BY <2>4, <3>4, <1>4
      <4> QED BY <4>1, <3>3
    <3> QED BY <1>3, <2>3, <3>1, <3>2, <3>4 DEF Told
  <2>7. CASE e.kind = "short"
    <3>1. n + 1 = q + Size(f.name)
      BY <1>4, <2>3, <2>7
    <3>2. Size(f.name) > 1 => ReadTo(f, l, its, 0)
      <4> SUFFICES ASSUME Size(f.name) > 1 PROVE ReadTo(f, l, its, 0)
        OBVIOUS
      <4>1. q \in Nat /\ Size(f.name) \in Nat \ {0}
        BY <1>4, <2>3
      <4> DEFINE m == Size(f.name)
      <4>2. Size(f.name) = m
        OBVIOUS
      <4> HIDE DEF m
      <4>3. q < n /\ n < q + m /\ m - 1 - (n - q) = 0
        BY <3>1, <4>1, <4>2
      <4> QED BY <4>2, <4>3, <2>5 DEF Inside
    <3>3. Size(f.name) = 1 => l.ord = None
      <4> SUFFICES ASSUME Size(f.name) = 1, NEW g \in F, NEW p, NEW gn, St(g, p, gn), Inside(g, p, n)
                   PROVE  FALSE
        BY <2>5
      <4>1. n + 1 \in p + 1 .. p + Size(g.name) /\ p # n
        BY <1>4
      <4>2. p = q
        BY <4>1, <2>4
      <4>3. q \in Nat
        BY <1>4, <2>3
      <4> QED BY <3>1, <4>1, <4>2, <4>3
    <3>4. ListsFile(F, Shown(l, e))
      BY <1>1, <2>3, <3>1, <3>2, <3>3, ShownIs
    <3>5. z.ord = None /\ z.list = Append(l.list, Shown(l, e))
      BY <1>8, <2>7 DEF Taken
    <3> DEFINE x == Shown(l, e)
    <3> HIDE DEF x
    <3>6. /\ Len(l.list) \in Nat /\ Len(z.list) = Len(l.list) + 1 /\ z.list[Len(l.list) + 1] = x
          /\ \A k \in 1 .. Len(l.list) : z.list[k] = l.list[k]
      BY <1>2, <3>5, Appended DEF x
    <3>7. \A k \in 1 .. Len(z.list) : k \in 1 .. Len(l.list) \/ k = Len(l.list) + 1
      BY <3>6
    <3>8. \A k \in 1 .. Len(z.list) : ListsFile(F, z.list[k])
      BY <1>3, <3>4, <3>6, <3>7 DEF x
    <3>9. \A g \in F : \A p, gn : St(g, p, gn) => ~Inside(g, p, n + 1)
      BY <1>4, <2>7
    <3> QED BY <3>5, <3>8, <3>9 DEF Told
  <2> QED BY <1>8, <2>6, <2>7
<1> QED BY <1>1, <1>5, <1>6, <1>7, <1>8

\* The same, as a fold.
ToldOf(p, n, l) == Reading(p.d, n, l) /\ Told(p.d, p.files, n, l)
Tellings == INSTANCE FoldInduction WITH Step <- ReadStep, Good <- ToldOf

\* The listing of a tidy directory has its files and nothing else.
LEMMA ListingTold ==
  ASSUME NEW F, FilesOK(F), NEW o \in Nat, DirOK(dir, o), EndsLast(dir), Tidy(checksums, dir, F),
         BufType(LfnBuf)
  PROVE  \A k \in 1 .. Len(Listing.list) : ListsFile(F, Listing.list[k])
<1> DEFINE p == [d |-> dir, files |-> F]
<1>1. Listing = Tellings!Fold(p, ListStart, dir)
  BY Zenon DEF Listing, ListStart, Tellings!Fold, FoldLeft, MapThenFoldSet,
      Tellings!MapThenFoldSet, Max, Tellings!Greatest, ReadStep
<1>2. p.d = dir /\ p.files = F
  OBVIOUS
<1> HIDE DEF p
<1>3. ToldOf(p, 0, ListStart)
  <2>1. Reading(dir, 0, ListStart)
    BY ReadingBegins
  <2>2. ASSUME NEW f \in F, NEW q, NEW its, Stands(checksums, dir, f, q, its) PROVE ~Inside(f, q, 0)
    <3>1. 0 \in Nat
      OBVIOUS
    <3>2. q \in Nat
      BY <2>2, <3>1, AroundIs DEF Around
    <3> QED BY <3>2 DEF Inside
  <2>3. \A k \in 1 .. Len(ListStart.list) : FALSE
    BY ListStarts
  <2>4. Told(dir, F, 0, ListStart)
    BY <2>2, <2>3, ListStarts DEF Told
  <2> QED BY <1>2, <2>1, <2>4 DEF ToldOf
<1>4. ASSUME NEW i \in 1 .. SlotCount, NEW l, ToldOf(p, i - 1, l)
      PROVE  ToldOf(p, i, ReadStep(p, l, dir[i]))
  <2>1. i - 1 \in Nat /\ (i - 1) + 1 = i /\ dir[i].kind \in Kinds /\ i \in Slots0
    BY NamesAre DEF DirOK, EntryOK, Slots0
  <2>2. PICK z : z = Read(l, dir[i])
    OBVIOUS
  <2>3. Reading(dir, i - 1, l) /\ Told(dir, F, i - 1, l)
    BY <1>2, <1>4 DEF ToldOf
  <2>4. IsReading(l)
    BY <2>3 DEF Reading
  <2>5. Taken(l, dir[i], z)
    BY <2>1, <2>2, <2>4, ReadIs
  <2>6. Reading(dir, (i - 1) + 1, z)
    BY <2>1, <2>3, <2>5, ReadingStays
  <2>7. Told(dir, F, (i - 1) + 1, z)
    BY <2>1, <2>3, <2>5, ToldStays
  <2> QED BY <1>2, <2>1, <2>2, <2>6, <2>7 DEF ToldOf, ReadStep
<1>5. SlotCount \in Nat /\ DOMAIN dir = 1 .. SlotCount
  BY NamesAre DEF DirOK, Slots0
<1> HIDE DEF ToldOf, ReadStep
<1>6. ToldOf(p, SlotCount, Tellings!Fold(p, ListStart, dir))
  BY <1>3, <1>4, <1>5, Tellings!FoldKeeps
<1>7. Told(dir, F, SlotCount, Listing)
  BY <1>1, <1>2, <1>6 DEF ToldOf
<1> QED BY <1>7 DEF Told

-----------------------------------------------------------------------------
(* Entries.                                                                *)

\* The entries of a new name.
LEMMA NewEntriesAre ==
  ASSUME NEW name \in NameSet, NEW fn, NEW id, NEW es, es = NewEntries(name, fn, id)
  PROVE  /\ DOMAIN es = 1 .. Size(name) /\ Len(es) = Size(name)
         /\ \A k \in 1 .. Size(name) - 1 :
              es[k] = put_lfn(name, Size(name) - k, SumOf(checksums, fn))
         /\ es[Size(name)] = Short(fn, id)
<1> DEFINE n == Parts(name)
           m == Size(name)
           x == Short(fn, id)
           X(i) == put_lfn(name, n + 1 - i, sum_sfn(fn))
<1>1. n \in Nat /\ sum_sfn(fn) = SumOf(checksums, fn)
  BY PartsIs, SumIs
<1>2. CASE NeedsLfn(name)
  <2> DEFINE a == [i \in 1 .. n |-> X(i)]
             S == {X(i) : i \in 1 .. n} \cup {x}
  <2>1. es = a \o <<x>> /\ m = n + 1
    BY <1>2 DEF NewEntries, Size
  <2> HIDE DEF n, m, x, X
  <2>2. a \in Seq(S) /\ Len(a) = n /\ \A i \in 1 .. n : a[i] = X(i)
    BY <1>1
  <2>3. <<x>> \in Seq(S) /\ Len(<<x>>) = 1 /\ <<x>>[1] = x
    OBVIOUS
  <2> HIDE DEF a, S
  <2>4. /\ a \o <<x>> \in Seq(S) /\ Len(a \o <<x>>) = n + 1
        /\ \A i \in 1 .. n + 1 : (a \o <<x>>)[i] = IF i <= n THEN a[i] ELSE <<x>>[i - n]
    BY <1>1, <2>2, <2>3, ConcatProperties
  <2>5. DOMAIN es = 1 .. m /\ Len(es) = m
    BY <2>1, <2>4
  <2>6. es[m] = x
    <3>1. m \in 1 .. n + 1 /\ ~ (m <= n) /\ m - n = 1
      BY <1>1, <2>1
    <3> QED BY <3>1, <2>1, <2>3, <2>4
  <2>7. ASSUME NEW k \in 1 .. m - 1 PROVE es[k] = X(k) /\ n + 1 - k = m - k
    <3>1. k \in 1 .. n + 1 /\ k <= n /\ k \in 1 .. n
      BY <1>1, <2>1
    <3> QED BY <3>1, <2>1, <2>2, <2>4
  <2> QED BY <1>1, <2>5, <2>6, <2>7 DEF n, m, x, X
<1>3. CASE ~NeedsLfn(name)
  <2>1. es = <<>> \o <<x>> /\ m = 1
    BY <1>3 DEF NewEntries, Size
  <2>2. <<>> \o <<x>> = <<x>>
    <3>1. <<x>> \in Seq({x})
      OBVIOUS
    <3> QED BY <3>1, ConcatEmptySeq
  <2>3. es = <<x>> /\ DOMAIN <<x>> = 1 .. 1 /\ Len(<<x>>) = 1 /\ <<x>>[1] = x
    BY <2>1, <2>2
  <2>4. \A k \in 1 .. 0 : FALSE
    OBVIOUS
  <2> HIDE DEF m
  <2>5. DOMAIN es = 1 .. m /\ Len(es) = m /\ es[m] = x /\ m - 1 = 0
    BY <2>1, <2>3
  <2> QED BY <2>4, <2>5 DEF m, x
<1> QED BY <1>2, <1>3

\* A sum over a finite set of files, from a function that adds them one by one.
EntriesNeeded(F) == MapThenSumSet(LAMBDA f : Len(NewEntries(f.name, <<>>, f.file)), F)

\* The sum of the entries that files need is the one that such a function gives.
LEMMA SumAdds ==
  ASSUME NEW F, IsFiniteSet(F), FilesOK(F), NEW g, g \in [SUBSET F -> Int], g[{}] = 0,
         \A s \in SUBSET F : \A x \in s : g[s] = Size(x.name) + g[s \ {x}]
  PROVE  EntriesNeeded(F) = g[F]
<1> DEFINE One(s) == CHOOSE x \in s : TRUE
           Rec(f) == f = [s \in SUBSET F |->
                        IF s = {} THEN 0
                        ELSE Len(NewEntries(One(s).name, <<>>, One(s).file)) + f[s \ {One(s)}]]
           c == CHOOSE f : Rec(f)
<1>1. EntriesNeeded(F) = c[F]
  BY Zenon DEF EntriesNeeded, MapThenSumSet, MapThenFoldSet
<1>2. ASSUME NEW s \in SUBSET F, s # {}
      PROVE  /\ One(s) \in s /\ s \ {One(s)} \in SUBSET F
             /\ Len(NewEntries(One(s).name, <<>>, One(s).file)) = Size(One(s).name)
  <2>1. One(s) \in s
    BY <1>2
  <2> DEFINE x == One(s)
  <2> HIDE DEF x
  <2>2. x \in s /\ x.name \in NameSet
    BY <2>1 DEF FilesOK, x
  <2>3. Len(NewEntries(x.name, <<>>, x.file)) = Size(x.name)
    BY <2>2, NewEntriesAre
  <2> QED BY <2>2, <2>3 DEF x
<1>3. Rec(g)
  <2> DEFINE E(s) == IF s = {} THEN 0
                     ELSE Len(NewEntries(One(s).name, <<>>, One(s).file)) + g[s \ {One(s)}]
  <2>1. ASSUME NEW s \in SUBSET F PROVE g[s] = E(s)
    <3>1. CASE s = {}
      BY <3>1
    <3>2. CASE s # {}
      <4> HIDE DEF One
      <4>1. E(s) = Len(NewEntries(One(s).name, <<>>, One(s).file)) + g[s \ {One(s)}]
        BY <3>2
      <4>2. g[s] = Size(One(s).name) + g[s \ {One(s)}]
        BY <1>2, <3>2
      <4> QED BY <4>1, <4>2, <1>2, <3>2
    <3> QED BY <3>1, <3>2
  <2> HIDE DEF E
  <2>2. g = [s \in SUBSET F |-> g[s]]
    OBVIOUS
  <2>3. g = [s \in SUBSET F |-> E(s)]
    BY <2>1, <2>2, Zenon
  <2> QED BY <2>3, Zenon DEF E
<1>4. Rec(c)
  <2> HIDE DEF Rec
  <2> QED BY <1>3, Zenon
<1> HIDE DEF c
<1> DEFINE G == {n \in Nat : \A s \in SUBSET F : Cardinality(s) = n => c[s] = g[s]}
<1>5. \A s \in SUBSET F : IsFiniteSet(s) /\ Cardinality(s) \in Nat
  BY FS_Subset, FS_CardinalityType
<1>6. 0 \in G
  <2> SUFFICES ASSUME NEW s \in SUBSET F, Cardinality(s) = 0 PROVE c[s] = g[s]
    OBVIOUS
  <2>1. s = {}
    BY <1>5, FS_EmptySet
  <2>2. c[s] = 0
    BY <1>4, <2>1
  <2> QED BY <2>1, <2>2
<1>7. ASSUME NEW n \in Nat, n \in G PROVE n + 1 \in G
  <2> SUFFICES ASSUME NEW s \in SUBSET F, Cardinality(s) = n + 1 PROVE c[s] = g[s]
    OBVIOUS
  <2>1. s # {}
    <3>1. Cardinality({}) = 0 /\ n + 1 # 0
      BY FS_EmptySet
    <3> QED BY <3>1
  <2> HIDE DEF One
  <2> DEFINE x == One(s)
             t == s \ {x}
  <2>2. x \in s /\ t \in SUBSET F /\ Len(NewEntries(x.name, <<>>, x.file)) = Size(x.name)
    BY <1>2, <2>1
  <2>3. c[s] = Len(NewEntries(x.name, <<>>, x.file)) + c[t]
    BY <1>4, <2>1
  <2> HIDE DEF x
  <2>4. Cardinality(t) = n
    <3>1. Cardinality(t) = Cardinality(s) - 1
      BY <1>5, <2>2, FS_RemoveElement
    <3> QED BY <3>1
  <2>5. c[t] = g[t]
    BY <1>7, <2>2, <2>4
  <2> QED BY <2>2, <2>3, <2>5
<1> HIDE DEF G
<1>8. \A n \in Nat : n \in G
  BY <1>6, <1>7, Shapes!Numbers
<1>9. c[F] = g[F]
  <2>1. Cardinality(F) \in G /\ F \in SUBSET F
    BY <1>5, <1>8
  <2> QED BY <2>1 DEF G
<1> QED BY <1>1, <1>9

\* Where a file has one short entry, it stands in one place.
LEMMA StandsOnce ==
  ASSUME NEW F, FilesOK(F), NEW c, NEW d, NEW f \in F, NEW p, NEW q, NEW fn, NEW gn,
         Stands(c, d, f, p, fn), Stands(c, d, f, q, gn),
         \A i, j \in Slots0 : d[i].kind = "short" /\ d[j].kind = "short"
                                /\ d[i].file = f.file /\ d[j].file = f.file => i = j
  PROVE  p = q /\ fn = gn
<1> DEFINE m == Size(f.name)
<1>1. Standing(c, d, f, p, fn, m) /\ Standing(c, d, f, q, gn, m)
  BY StandsIs DEF FilesOK
<1> HIDE DEF m
<1>2. p \in Nat /\ q \in Nat /\ m \in Nat \ {0} /\ p + m \in Slots0 /\ q + m \in Slots0
  BY <1>1, NamesAre DEF Standing, Slots0
<1>3. p + m = q + m
  BY <1>1, <1>2 DEF Standing
<1>4. p = q
  BY <1>2, <1>3
<1> QED BY <1>1, <1>4 DEF Standing

\* The entries in use are those that the files need.
LEMMA EntriesCounted ==
  ASSUME NEW F, IsFiniteSet(F), FilesOK(F), NEW d, NEW o \in Nat, DirOK(d, o), Tidy(checksums, d, F),
         \A f \in F : \E p, fn : Stands(checksums, d, f, p, fn)
  PROVE  Cardinality({i \in DOMAIN d : ~IsFree(d[i])}) = EntriesNeeded(F)
<1> DEFINE Of(s) == {i \in Slots0 : Covered(checksums, d, s, i)}
           g == [s \in SUBSET F |-> Cardinality(Of(s))]
<1>1. IsFiniteSet(Slots0)
  BY NamesAre, FS_Interval DEF Slots0
<1>2. ASSUME NEW s PROVE IsFiniteSet(Of(s)) /\ Cardinality(Of(s)) \in Nat
  <2>1. Of(s) \in SUBSET Slots0
    OBVIOUS
  <2> HIDE DEF Of
  <2> QED BY <1>1, <2>1, FS_Subset, FS_CardinalityType
<1>3. g \in [SUBSET F -> Int]
  BY <1>2
<1>4. g[{}] = 0
  <2>1. Of({}) = {}
    BY DEF Covered
  <2> QED BY <2>1, FS_EmptySet
<1>5. ASSUME NEW s \in SUBSET F, NEW x \in s PROVE g[s] = Size(x.name) + g[s \ {x}]
  <2> DEFINE t == s \ {x}
             m == Size(x.name)
  <2>1. PICK p, fn : Stands(checksums, d, x, p, fn)
    OBVIOUS
  <2>2. p \in Nat /\ m \in Nat \ {0} /\ p + m <= SlotCount
    <3>1. 0 \in Nat /\ x \in F
      OBVIOUS
    <3> QED BY <2>1, <3>1, AroundIs DEF Around
  <2> DEFINE B == p + 1 .. p + m
  <2>3. ASSUME NEW q, NEW gn, Stands(checksums, d, x, q, gn) PROVE q = p
    <3>1. \A i, j \in Slots0 : d[i].kind = "short" /\ d[j].kind = "short"
                                /\ d[i].file = x.file /\ d[j].file = x.file => i = j
      BY DEF Tidy
    <3> QED BY <2>1, <2>3, <3>1, StandsOnce
  <2>4. Of(s) = Of(t) \cup B
    <3>1. ASSUME NEW i \in Of(s) PROVE i \in Of(t) \cup B
      <4>1. PICK f \in s : \E q, gn : Stands(checksums, d, f, q, gn) /\ i \in q + 1 .. q + Size(f.name)
        BY DEF Covered
      <4>2. CASE f = x
        BY <4>1, <4>2, <2>3
      <4>3. CASE f # x
        <5>1. f \in t
          BY <4>3
        <5>2. Covered(checksums, d, t, i)
          BY <4>1, <5>1, Zenon DEF Covered
        <5> QED BY <5>2
      <4> QED BY <4>2, <4>3
    <3>2. ASSUME NEW i \in Of(t) PROVE i \in Of(s)
      BY DEF Covered
    <3>3. ASSUME NEW i \in B PROVE i \in Of(s)
      <4>1. i \in Slots0
        BY <2>2, NamesAre DEF Slots0
      <4> QED BY <4>1, <2>1 DEF Covered
    <3> QED BY <3>1, <3>2, <3>3
  <2>5. Of(t) \cap B = {}
    <3> SUFFICES ASSUME NEW i \in Of(t), i \in B PROVE FALSE
      OBVIOUS
    <3>1. PICK f \in t : \E q, gn : Stands(checksums, d, f, q, gn) /\ i \in q + 1 .. q + Size(f.name)
      BY DEF Covered
    <3>2. PICK q, gn : Stands(checksums, d, f, q, gn) /\ i \in q + 1 .. q + Size(f.name)
      BY <3>1
    <3>3. f \in F /\ x \in F
      OBVIOUS
    <3>4. f = x
      BY <2>1, <3>2, <3>3, StandApart
    <3> QED BY <3>1, <3>4
  <2>6. IsFiniteSet(B) /\ Cardinality(B) = m
    <3>1. p + 1 \in Int /\ p + m \in Int /\ ~ (p + 1 > p + m) /\ (p + m) - (p + 1) + 1 = m
      BY <2>2
    <3> QED BY <3>1, FS_Interval
  <2> HIDE DEF B, Of, m
  <2>7. Cardinality(Of(s)) = Cardinality(Of(t)) + m - 0
    <3>1. IsFiniteSet(Of(t))
      BY <1>2
    <3>2. Cardinality(Of(t) \cup B) = Cardinality(Of(t)) + Cardinality(B) - Cardinality(Of(t) \cap B)
      BY <2>6, <3>1, FS_Union
    <3>3. Cardinality({}) = 0
      BY FS_EmptySet
    <3> QED BY <2>4, <2>5, <2>6, <3>2, <3>3
  <2>8. g[s] = Cardinality(Of(s)) /\ g[t] = Cardinality(Of(t))
    OBVIOUS
  <2> QED BY <1>2, <2>2, <2>7, <2>8 DEF m
<1>6. {i \in DOMAIN d : ~IsFree(d[i])} = Of(F)
  <2>1. DOMAIN d = Slots0
    BY DEF DirOK
  <2>2. ASSUME NEW i \in Slots0, Covered(checksums, d, F, i) PROVE ~IsFree(d[i])
    <3>1. PICK f \in F : \E q, gn : Stands(checksums, d, f, q, gn) /\ i \in q + 1 .. q + Size(f.name)
      BY <2>2 DEF Covered
    <3>2. PICK q, gn : Stands(checksums, d, f, q, gn) /\ i \in q + 1 .. q + Size(f.name)
      BY <3>1
    <3>3. i \in Nat
      BY NamesAre DEF Slots0
    <3>4. d[i].kind = "short" \/ d[i].kind = "lfn"
      BY <3>2, <3>3, AroundIs DEF Around
    <3> QED BY <3>4 DEF IsFree
  <2> QED BY <2>1, <2>2 DEF Tidy
<1> HIDE DEF Of
<1>7. g[F] = Cardinality(Of(F))
  OBVIOUS
<1> HIDE DEF g
<1>8. EntriesNeeded(F) = g[F]
  BY <1>3, <1>4, <1>5, SumAdds
<1> QED BY <1>6, <1>7, <1>8

-----------------------------------------------------------------------------
(* Directories on the way from one call to the next.                       *)

\* The numbers of files.
Ids(F) == {f.file : f \in F}

\* A directory in which the files stand; only those of T have two entries.
Sound(c, d, F, T, n) ==
  /\ DirOK(d, n) /\ EndsLast(d)
  /\ \A f \in F : \E p, fn : Stands(c, d, f, p, fn)
  /\ \A i, j \in Slots0 : d[i].kind = "short" /\ d[j].kind = "short" /\ d[i].file = d[j].file =>
       i = j \/ d[i].file \in T

\* What a name is found to be, in a directory whose files are told apart.
LEMMA FindIs ==
  ASSUME NEW n \in NameSet
  PROVE  Find(n) = dir_find(dir, InBuffer(LfnBuf, n), ShortName(n), By(n))
BY DEF Find, FindIn, By

\* In a tidy directory f_open finds the file the name leads to, with its first entry,
\* or no file has the name.
LEMMA FoundIs ==
  ASSUME NEW F, FilesOK(F), NEW T, NEW o \in Nat, Sound(checksums, dir, F, T, o),
         Tidy(checksums, dir, F), BufType(LfnBuf), NEW n \in NameSet,
         NEW a, a = Find(n)
  PROVE  /\ Found(a) => \E f \in F : \E q, its :
              /\ Stands(checksums, dir, f, q, its) /\ Leads(n, f, its)
              /\ a.at + 1 = q + Size(f.name) /\ a.blk = IF Size(f.name) > 1 THEN q ELSE Nowhere
         /\ ~Found(a) => \A f \in F : \A q, its : Stands(checksums, dir, f, q, its) => ~Leads(n, f, its)
<1>1. Exact(checksums, dir, F, n, InBuffer(LfnBuf, n), SlotCount, a)
  BY FindsExactly, FindIs DEF Sound
<1>2. \A f \in F : \A q, its : Stands(checksums, dir, f, q, its) => q + Size(f.name) <= SlotCount
  <2>1. 0 \in Nat
    OBVIOUS
  <2> QED BY <2>1, AroundIs DEF Around
<1> QED BY <1>1, <1>2 DEF Exact, Found

\* The entry that is found for a file's name.
LEMMA FoundEntry ==
  ASSUME NEW F, FilesOK(F), NEW c, NEW d, NEW f \in F, NEW q, NEW its, Stands(c, d, f, q, its)
  PROVE  /\ q + Size(f.name) \in Slots0 /\ q + Size(f.name) \in Nat
         /\ d[q + Size(f.name)].kind = "short" /\ d[q + Size(f.name)].fn = its
         /\ d[q + Size(f.name)].file = f.file
<1> DEFINE m == Size(f.name)
<1>1. Standing(c, d, f, q, its, m)
  BY StandsIs DEF FilesOK
<1> HIDE DEF m
<1>2. q + m \in Slots0 /\ q + m \in Nat
  BY <1>1, NamesAre DEF Standing, Slots0
<1> QED BY <1>1, <1>2 DEF Standing, m

\* What holds between two calls.
LEMMA KeepAtRest ==
  ASSUME NEW o \in Nat, FilesOK(files), Sound(checksums, dir, files, doubtful, o),
         crashed \/ Tidy(checksums, dir, files), BufType(LfnBuf),
         \A f \in files : f.file \notin doubtful,
         NEW f \in files
  PROVE  /\ \A n \in NameSet :
              SameName(n, f.name) => Found(Find(n)) /\ (crashed \/ dir[Find(n).at + 1].file = f.file)
         /\ Cardinality({i \in DOMAIN Listing.list : Listing.list[i].file = f.file}) = 1
         /\ \E i \in DOMAIN Listing.list : Listing.list[i].file = f.file
<1>1. PICK p, fn : Stands(checksums, dir, f, p, fn)
  BY DEF Sound
<1>2. f.name \in NameSet /\ DirOK(dir, o) /\ EndsLast(dir)
  BY DEF FilesOK, Sound
<1>3. ASSUME NEW n \in NameSet, SameName(n, f.name) PROVE Found(Find(n))
  <2>1. "long" \in By(n) /\ (Fits(n) => "short" \in By(n))
    BY DEF By
  <2>2. dir_find(dir, InBuffer(LfnBuf, n), ShortName(n), By(n)).at # Nowhere
    BY <1>1, <1>2, <1>3, <2>1, FindsKept
  <2> QED BY <2>2, FindIs DEF Found
<1>4. ASSUME NEW n \in NameSet, SameName(n, f.name), ~crashed PROVE dir[Find(n).at + 1].file = f.file
  <2>1. Tidy(checksums, dir, files)
    BY <1>4
  <2>2. PICK g \in files : \E q, its :
          /\ Stands(checksums, dir, g, q, its) /\ Leads(n, g, its)
          /\ Find(n).at + 1 = q + Size(g.name)
    BY <1>3, <1>4, <2>1, FoundIs
  <2>3. PICK q, its : Stands(checksums, dir, g, q, its) /\ Leads(n, g, its)
                      /\ Find(n).at + 1 = q + Size(g.name)
    BY <2>2
  <2>4. Leads(n, f, fn)
    BY <1>4 DEF Leads
  <2>5. g = f
    BY <1>1, <1>2, <2>1, <2>3, <2>4, LeadsToOne
  <2> QED BY <2>3, <2>5, FoundEntry
<1> DEFINE i == p + Size(f.name)
<1>5. i \in Slots0 /\ dir[i].kind = "short" /\ dir[i].file = f.file
  BY <1>1, FoundEntry
<1> HIDE DEF i
<1>6. \A j \in Slots0 : dir[j].kind = "short" /\ dir[j].file = dir[i].file => j = i
  BY <1>5 DEF Sound
<1>7. /\ Cardinality({k \in DOMAIN Listing.list : Listing.list[k].file = dir[i].file}) = 1
      /\ \E k \in DOMAIN Listing.list : Listing.list[k].file = dir[i].file
  BY <1>2, <1>5, <1>6, ListedOnce
<1> QED BY <1>3, <1>4, <1>5, <1>7

\* The three parts of NamesAreTold, in a tidy directory between two calls.
LEMMA TellAtRest ==
  ASSUME NEW o \in Nat, FilesOK(files), Sound(checksums, dir, files, doubtful, o), IsFiniteSet(files),
         Tidy(checksums, dir, files), BufType(LfnBuf), \A f \in files : f.file \notin doubtful
  PROVE  /\ \A n \in NameSet :
              LET entry == dir[Find(n).at + 1]
              IN  Found(Find(n)) => \A f \in Settled(entry.file) :
                    SameName(n, f.name) \/ (Fits(n) /\ ShortName(n) = entry.fn)
         /\ {l.name : l \in ToSet(Listing.list)} =
              {IF NeedsLfn(f.name) THEN f.name ELSE Upper(f.name) : f \in files}
         /\ Cardinality({i \in DOMAIN dir : ~IsFree(dir[i])}) =
              MapThenSumSet(LAMBDA f : Len(NewEntries(f.name, <<>>, f.file)), files)
<1>1. DirOK(dir, o) /\ EndsLast(dir) /\ \A f \in files : \E p, fn : Stands(checksums, dir, f, p, fn)
  BY DEF Sound
<1>2. ASSUME NEW n \in NameSet, Found(Find(n)), NEW f \in Settled(dir[Find(n).at + 1].file)
      PROVE  SameName(n, f.name) \/ (Fits(n) /\ ShortName(n) = dir[Find(n).at + 1].fn)
  <2>1. PICK g \in files : \E q, its :
          /\ Stands(checksums, dir, g, q, its) /\ Leads(n, g, its)
          /\ Find(n).at + 1 = q + Size(g.name)
    BY <1>2, FoundIs
  <2>2. PICK q, its : Stands(checksums, dir, g, q, its) /\ Leads(n, g, its)
                      /\ Find(n).at + 1 = q + Size(g.name)
    BY <2>1
  <2>3. dir[Find(n).at + 1].fn = its /\ dir[Find(n).at + 1].file = g.file
    BY <2>2, FoundEntry
  <2>4. f \in files /\ f.file = g.file
    BY <1>2, <2>3 DEF Settled
  <2>5. f = g
    BY <2>4 DEF FilesOK
  <2> QED BY <2>2, <2>3, <2>5 DEF Leads
<1>3. {l.name : l \in ToSet(Listing.list)} = {ToldName(f.name) : f \in files}
  <2>1. Reading(dir, SlotCount, Listing)
    BY <1>1, ListingIs
  <2>2. PICK S : Listing.list \in Seq(S)
    BY <2>1 DEF Reading
  <2>3. DOMAIN Listing.list = 1 .. Len(Listing.list)
    BY <2>2
  <2>4. \A k \in DOMAIN Listing.list : ListsFile(files, Listing.list[k])
    BY <1>1, <2>3, ListingTold
  <2>5. ToSet(Listing.list) = {Listing.list[k] : k \in DOMAIN Listing.list}
    BY Zenon DEF ToSet
  <2>6. ASSUME NEW f \in files PROVE \E k \in DOMAIN Listing.list : Listing.list[k].name = ToldName(f.name)
    <3>1. PICK k \in DOMAIN Listing.list : Listing.list[k].file = f.file
      BY KeepAtRest
    <3>2. PICK g \in files : Listing.list[k].name = ToldName(g.name) /\ Listing.list[k].file = g.file
      BY <2>4 DEF ListsFile
    <3>3. f = g
      BY <3>1, <3>2 DEF FilesOK
    <3> QED BY <3>2, <3>3
  <2>7. \A k \in DOMAIN Listing.list : \E f \in files : Listing.list[k].name = ToldName(f.name)
    BY <2>4 DEF ListsFile
  <2> QED BY <2>5, <2>6, <2>7
<1>4. Cardinality({i \in DOMAIN dir : ~IsFree(dir[i])}) = EntriesNeeded(files)
  BY <1>1, EntriesCounted
<1> QED BY <1>2, <1>3, <1>4, Zenon DEF ToldName, EntriesNeeded

-----------------------------------------------------------------------------
(* The writes of a call.                                                   *)

\* A finite set of numbers can be counted up.
CountsUp(f, S) ==
  f \in [1 .. Cardinality(S) -> S] /\ \A i, j \in DOMAIN f : i < j => f[i] < f[j]

\* A finite, nonempty set of numbers has a largest one.
LEMMA GreatestIn ==
  ASSUME NEW S \in SUBSET Nat, IsFiniteSet(S), S # {}
  PROVE  \E x \in S : \A y \in S : y <= x
<1> DEFINE G == {n \in Nat : \A s \in SUBSET S : Cardinality(s) = n /\ s # {} =>
                   \E x \in s : \A y \in s : y <= x}
<1>1. \A s \in SUBSET S : IsFiniteSet(s) /\ Cardinality(s) \in Nat
  BY FS_Subset, FS_CardinalityType
<1>2. 0 \in G
  <2>1. \A s \in SUBSET S : Cardinality(s) = 0 => s = {}
    BY <1>1, FS_EmptySet
  <2> QED BY <2>1
<1>3. ASSUME NEW n \in Nat, n \in G PROVE n + 1 \in G
  <2> SUFFICES ASSUME NEW s \in SUBSET S, Cardinality(s) = n + 1, s # {}
               PROVE  \E x \in s : \A y \in s : y <= x
    OBVIOUS
  <2>1. PICK z : z \in s
    OBVIOUS
  <2> DEFINE t == s \ {z}
  <2>2. Cardinality(t) = n /\ t \in SUBSET S
    <3>1. Cardinality(t) = Cardinality(s) - 1
      BY <1>1, <2>1, FS_RemoveElement
    <3>2. t \in SUBSET S
      OBVIOUS
    <3> HIDE DEF t
    <3> QED BY <3>1, <3>2
  <2>3. CASE t = {}
    <3>1. \A y \in s : y = z
      BY <2>3
    <3> QED BY <2>1, <3>1
  <2>4. CASE t # {}
    <3>1. PICK x \in t : \A y \in t : y <= x
      BY <1>3, <2>2, <2>4
    <3>2. \A y \in s : y \in t \/ y = z
      OBVIOUS
    <3>3. CASE z <= x
      BY <3>1, <3>2, <3>3
    <3>4. CASE ~ (z <= x)
      <4>1. \A y \in s : y <= z
        BY <2>1, <3>1, <3>2, <3>4
      <4> QED BY <2>1, <4>1
    <3> QED BY <3>3, <3>4
  <2> QED BY <2>3, <2>4
<1> HIDE DEF G
<1>4. \A n \in Nat : n \in G
  BY <1>2, <1>3, Shapes!Numbers
<1>5. Cardinality(S) \in G /\ S \in SUBSET S
  BY <1>1, <1>4
<1> QED BY <1>5 DEF G

\* A finite set of numbers can be counted up.
LEMMA CountExists ==
  ASSUME NEW S \in SUBSET Nat, IsFiniteSet(S)
  PROVE  \E f : CountsUp(f, S)
<1> DEFINE G == {n \in Nat : \A s \in SUBSET S : Cardinality(s) = n => \E f : CountsUp(f, s)}
<1>1. \A s \in SUBSET S : IsFiniteSet(s) /\ Cardinality(s) \in Nat
  BY FS_Subset, FS_CardinalityType
<1>2. 0 \in G
  <2> SUFFICES ASSUME NEW s \in SUBSET S, Cardinality(s) = 0 PROVE \E f : CountsUp(f, s)
    OBVIOUS
  <2> DEFINE f == [i \in 1 .. 0 |-> 0]
  <2>1. \A i \in 1 .. 0 : FALSE
    OBVIOUS
  <2>2. f \in [1 .. 0 -> s] /\ DOMAIN f = 1 .. 0
    BY <2>1
  <2> HIDE DEF f
  <2>3. CountsUp(f, s)
    BY <2>1, <2>2 DEF CountsUp
  <2> QED BY <2>3
<1>3. ASSUME NEW n \in Nat, n \in G PROVE n + 1 \in G
  <2> SUFFICES ASSUME NEW s \in SUBSET S, Cardinality(s) = n + 1 PROVE \E f : CountsUp(f, s)
    OBVIOUS
  <2>1. s # {}
    <3>1. Cardinality({}) = 0 /\ n + 1 # 0
      BY FS_EmptySet
    <3> QED BY <3>1
  <2>2. PICK z \in s : \A y \in s : y <= z
    BY <1>1, <2>1, GreatestIn
  <2> DEFINE t == s \ {z}
  <2>3. Cardinality(t) = n /\ t \in SUBSET S
    <3>1. Cardinality(t) = Cardinality(s) - 1
      BY <1>1, <2>2, FS_RemoveElement
    <3> QED BY <3>1
  <2>4. PICK f : CountsUp(f, t)
    BY <1>3, <2>3
  <2>5. /\ f \in [1 .. n -> t] /\ DOMAIN f = 1 .. n
        /\ \A i, j \in 1 .. n : i < j => f[i] < f[j]
    BY <2>3, <2>4 DEF CountsUp
  <2>6. \A y \in t : y \in s /\ y \in Nat /\ y < z
    BY <2>2
  <2> HIDE DEF t
  <2> DEFINE h == [i \in 1 .. n + 1 |-> IF i = n + 1 THEN z ELSE f[i]]
  <2>7. h \in [1 .. n + 1 -> s] /\ h[n + 1] = z /\ \A i \in 1 .. n : h[i] = f[i] /\ f[i] \in t
    BY <2>2, <2>5, <2>6
  <2> HIDE DEF h
  <2>8. ASSUME NEW i \in 1 .. n + 1, NEW j \in 1 .. n + 1, i < j PROVE h[i] < h[j]
    <3>1. i \in 1 .. n /\ (j \in 1 .. n \/ j = n + 1)
      BY <2>8
    <3>2. CASE j \in 1 .. n
      BY <2>5, <2>7, <2>8, <3>1, <3>2
    <3>3. CASE j = n + 1
      BY <2>6, <2>7, <3>1, <3>3
    <3> QED BY <3>1, <3>2, <3>3
  <2>9. CountsUp(h, s)
    BY <2>7, <2>8 DEF CountsUp
  <2> QED BY <2>9
<1> HIDE DEF G
<1>4. \A n \in Nat : n \in G
  BY <1>2, <1>3, Shapes!Numbers
<1>5. Cardinality(S) \in G /\ S \in SUBSET S
  BY <1>1, <1>4
<1> QED BY <1>5 DEF G

\* Counting up reaches every number of the set.
LEMMA CountsAll ==
  ASSUME NEW S \in SUBSET Nat, IsFiniteSet(S), NEW f, CountsUp(f, S)
  PROVE  \A x \in S : \E i \in 1 .. Cardinality(S) : f[i] = x
<1> DEFINE n == Cardinality(S)
<1>1. n \in Nat
  BY FS_CardinalityType
<1>2. f \in [1 .. n -> S] /\ DOMAIN f = 1 .. n /\ \A i, j \in 1 .. n : i < j => f[i] < f[j]
  BY DEF CountsUp
<1> HIDE DEF n
<1>3. ASSUME NEW i \in 1 .. n, NEW j \in 1 .. n, f[i] = f[j] PROVE i = j
  <2>1. f[i] \in Nat /\ f[j] \in Nat
    BY <1>2
  <2>2. ~ (i < j) /\ ~ (j < i)
    BY <1>2, <1>3, <2>1
  <2> QED BY <1>1, <2>2
<1>4. IsFiniteSet(1 .. n) /\ Cardinality(1 .. n) = n
  <2>1. Cardinality(1 .. n) = IF 1 > n THEN 0 ELSE n - 1 + 1
    BY <1>1, FS_Interval
  <2> QED BY <1>1, <2>1, FS_Interval
<1> SUFFICES ASSUME NEW x \in S, \A i \in 1 .. n : f[i] # x PROVE FALSE
  BY DEF n
<1> DEFINE T == S \ {x}
<1>5. IsFiniteSet(T) /\ Cardinality(T) = n - 1
  BY FS_RemoveElement DEF n
<1>6. f \in [1 .. n -> T]
  BY <1>2
<1> HIDE DEF T
<1>7. \E i, j \in 1 .. n : i # j /\ f[i] = f[j]
  <2>1. Cardinality(T) < Cardinality(1 .. n)
    BY <1>1, <1>4, <1>5
  <2> QED BY <1>4, <1>5, <1>6, <2>1, FS_PigeonHole
<1> QED BY <1>3, <1>7

\* A directory after a write, and the directories of K that writes u lead
\* through, from d to e.
Written(d, w) == [i \in DOMAIN d |-> IF Sector(i) = w.sector THEN w.to[i] ELSE d[i]]
Along(u, d, e, K, D) ==
  /\ D[0] = d /\ D[Len(u)] = e
  /\ \A k \in 1 .. Len(u) : D[k] = Written(D[k - 1], u[k])
  /\ \A k \in 0 .. Len(u) : D[k] \in K
Way(u, d, e, K) == (\E S : u \in Seq(S)) /\ \E D : Along(u, d, e, K, D)

\* Behind a write of sector s - 1: the sectors below s are those of e.
CutAt(d, e, s) == [i \in Slots0 |-> IF Sector(i) < s THEN e[i] ELSE d[i]]
Cuts(d, e) == {CutAt(d, e, s) : s \in Nat}

\* Sectors follow one another as the entries do.
LEMMA SectorIs ==
  ASSUME NEW i \in Slots0
  PROVE  /\ Sector(i) \in Nat
         /\ \A j \in Slots0 : i < j => Sector(i) <= Sector(j)
<1>1. PerSector \in Nat \ {0} /\ SlotCount \in Nat /\ i - 1 \in Nat
  BY NamesAre DEF Slots0
<1>2. ASSUME NEW j \in Slots0, i < j PROVE Sector(i) <= Sector(j)
  <2> DEFINE x == i - 1
             y == j - 1
             p == PerSector
             q == x \div p
             r == y \div p
  <2>1. x \in Nat /\ y \in Nat /\ x < y /\ p \in Nat \ {0}
    BY <1>1, <1>2 DEF Slots0
  <2> HIDE DEF x, y, p
  <2>2. /\ q \in Nat /\ (x % p) \in 0 .. p - 1 /\ x = q * p + (x % p)
        /\ r \in Nat /\ (y % p) \in 0 .. p - 1 /\ y = r * p + (y % p)
    BY <2>1, Divided
  <2> HIDE DEF q, r
  <2>3. q * p \in Int /\ r * p \in Int
    BY <2>1, <2>2, Multiplied
  <2>4. ~ (r < q)
    <3> SUFFICES ASSUME r < q PROVE FALSE
      OBVIOUS
    <3>1. r * p + p <= q * p
      BY <2>1, <2>2, Multiplied
    <3> QED BY <2>1, <2>2, <2>3, <3>1
  <2>5. q <= r
    BY <2>2, <2>4
  <2> QED BY <2>5 DEF Sector, x, y, p, q, r
<1>3. Sector(i) \in Nat
  BY <1>1, Divided DEF Sector
<1> QED BY <1>2, <1>3

\* The writes of a change lead from one directory to the other, through those in
\* which the first sectors are new and the others old.
LEMMA SectorWritesAre ==
  ASSUME NEW d, d = [i \in Slots0 |-> d[i]], NEW e, e = [i \in Slots0 |-> e[i]]
  PROVE  /\ Way(SectorWrites(d, e), d, e, Cuts(d, e))
         /\ d # e => SectorWrites(d, e) # <<>>
<1> DEFINE C == {Sector(i) : i \in {j \in DOMAIN d : d[j] # e[j]}}
           n == Cardinality(C)
           f == CHOOSE f \in [1 .. Cardinality(C) -> C] :
                  \A j, k \in DOMAIN f : j < k => f[j] < f[k]
           u == SectorWrites(d, e)
<1>1. DOMAIN d = Slots0 /\ DOMAIN e = Slots0
  OBVIOUS
<1>2. C \in SUBSET Nat /\ IsFiniteSet(C)
  <2>1. SlotCount \in Slots0 /\ \A i \in Slots0 : i \in Int /\ (i < SlotCount \/ i = SlotCount)
    BY NamesAre DEF Slots0
  <2>2. \A i \in Slots0 : Sector(i) \in Nat /\ Sector(i) <= Sector(SlotCount)
    BY <2>1, SectorIs
  <2>3. C \in SUBSET Nat /\ \A x \in C : x <= Sector(SlotCount)
    BY <1>1, <2>2
  <2> HIDE DEF C
  <2>4. Sector(SlotCount) \in Nat
    BY <2>1, <2>2
  <2> QED BY <2>3, <2>4, FS_BoundedSetOfNaturals
<1>3. u = [k \in DOMAIN f |-> [sector |-> f[k], to |-> e]]
  BY Zenon DEF SectorWrites
<1>4. ASSUME NEW i \in Slots0, d[i] # e[i] PROVE Sector(i) \in C
  BY <1>1, <1>4
<1>5. C = {} => d = e
  <2> SUFFICES ASSUME C = {} PROVE d = e
    OBVIOUS
  <2>1. \A i \in Slots0 : d[i] = e[i]
    BY <1>4
  <2> QED BY <2>1
<1> HIDE DEF C
<1>6. CountsUp(f, C)
  <2>1. \E h \in [1 .. Cardinality(C) -> C] : \A j, k \in DOMAIN h : j < k => h[j] < h[k]
    BY <1>2, CountExists DEF CountsUp
  <2> QED BY <2>1, Zenon DEF CountsUp
<1> HIDE DEF f, u
<1>7. n \in Nat
  BY <1>2, FS_CardinalityType
<1>8. /\ f \in [1 .. n -> C] /\ DOMAIN f = 1 .. n /\ \A i, j \in 1 .. n : i < j => f[i] < f[j]
  BY <1>6 DEF CountsUp
<1>9. \A x \in C : \E k \in 1 .. n : f[k] = x
  BY <1>2, <1>6, CountsAll
<1>10. C # {} => n # 0
  BY <1>2, FS_EmptySet
<1> HIDE DEF n
<1>11. /\ u \in Seq({[sector |-> f[k], to |-> e] : k \in 1 .. n}) /\ Len(u) = n
       /\ \A k \in 1 .. n : u[k].sector = f[k] /\ u[k].to = e
  BY <1>3, <1>7, <1>8
<1>12. \A k \in 1 .. n : f[k] \in Nat
  BY <1>2, <1>8
<1> DEFINE Upto(k) == IF k = 0 THEN 0 ELSE f[k] + 1
           D == [k \in 0 .. n |-> CutAt(d, e, Upto(k))]
\* A sector between two of them is the same in both.
<1>13. ASSUME NEW k \in 1 .. n, NEW i \in Slots0
       PROVE  /\ Sector(i) < f[k] => Sector(i) < Upto(k - 1) \/ d[i] = e[i]
              /\ Upto(k - 1) <= f[k]
  <2>1. Sector(i) \in Nat /\ f[k] \in Nat /\ k \in Nat \ {0}
    BY <1>7, <1>12, SectorIs
  <2>2. Upto(k - 1) <= f[k] /\ Upto(k - 1) \in Nat
    <3>1. CASE k = 1
      BY <2>1, <3>1
    <3>2. CASE k # 1
      <4>1. k - 1 \in 1 .. n /\ k - 1 < k
        BY <2>1, <3>2, <1>7
      <4>2. f[k - 1] < f[k] /\ f[k - 1] \in Nat
        BY <4>1, <1>8, <1>12
      <4> QED BY <2>1, <3>2, <4>2
    <3> QED BY <3>1, <3>2
  <2>3. ASSUME Sector(i) < f[k], ~ (Sector(i) < Upto(k - 1)) PROVE d[i] = e[i]
    <3> SUFFICES ASSUME d[i] # e[i] PROVE FALSE
      OBVIOUS
    <3>1. PICK j \in 1 .. n : f[j] = Sector(i)
      BY <1>4, <1>9
    <3>2. ~ (k < j) /\ j # k
      <4>1. k < j => f[k] < f[j]
        BY <1>8
      <4> QED BY <2>1, <2>3, <3>1, <4>1
    <3>3. j \in Nat \ {0} /\ j <= k - 1
      BY <2>1, <3>2, <1>7
    <3>4. k # 1 /\ k - 1 \in 1 .. n
      BY <2>1, <3>3, <1>7
    <3>5. f[j] <= f[k - 1] /\ f[k - 1] \in Nat
      <4>1. j = k - 1 \/ j < k - 1
        BY <2>1, <3>3
      <4>2. j < k - 1 => f[j] < f[k - 1]
        BY <3>4, <1>8
      <4>3. f[j] \in Nat /\ f[k - 1] \in Nat
        BY <3>4, <1>12
      <4> QED BY <4>1, <4>2, <4>3
    <3>6. Upto(k - 1) = f[k - 1] + 1
      BY <2>1, <3>4
    <3> QED BY <2>1, <2>3, <3>1, <3>5, <3>6
  <2> QED BY <2>2, <2>3
<1>14. \A k \in 0 .. n : Upto(k) \in Nat
  BY <1>7, <1>12
<1>15. /\ D[0] = CutAt(d, e, 0) /\ \A k \in 0 .. n : D[k] = CutAt(d, e, Upto(k))
  BY <1>7
<1>16. ASSUME NEW k \in 1 .. n PROVE D[k] = Written(D[k - 1], u[k])
  <2>1. k - 1 \in 0 .. n /\ k \in 0 .. n /\ Upto(k) = f[k] + 1 /\ f[k] \in Nat /\ Upto(k - 1) \in Nat
    BY <1>7, <1>12, <1>14
  <2>2. D[k] = CutAt(d, e, f[k] + 1) /\ D[k - 1] = CutAt(d, e, Upto(k - 1))
    BY <1>15, <2>1
  <2> HIDE DEF Upto, D
  <2>3. Written(D[k - 1], u[k]) =
          [i \in Slots0 |-> IF Sector(i) = f[k] THEN e[i] ELSE CutAt(d, e, Upto(k - 1))[i]]
    BY <2>2, <1>11 DEF Written, CutAt
  <2>4. ASSUME NEW i \in Slots0
        PROVE  (IF Sector(i) < f[k] + 1 THEN e[i] ELSE d[i]) =
                 IF Sector(i) = f[k] THEN e[i] ELSE CutAt(d, e, Upto(k - 1))[i]
    <3>1. CutAt(d, e, Upto(k - 1))[i] = IF Sector(i) < Upto(k - 1) THEN e[i] ELSE d[i]
      BY DEF CutAt
    <3>2. Sector(i) \in Nat
      BY SectorIs
    <3>3. CASE Sector(i) < f[k]
      BY <3>1, <3>2, <3>3, <1>13, <2>1
    <3>4. CASE Sector(i) = f[k]
      BY <3>1, <3>2, <3>4, <2>1
    <3>5. CASE Sector(i) > f[k]
      BY <3>1, <3>2, <3>5, <1>13, <2>1
    <3> QED BY <3>2, <3>3, <3>4, <3>5, <2>1
  <2> QED BY <2>2, <2>3, <2>4 DEF CutAt
<1>17. D[0] = d
  <2>1. \A i \in Slots0 : ~ (Sector(i) < 0)
    BY SectorIs
  <2>2. CutAt(d, e, 0) = d
    BY <2>1 DEF CutAt
  <2> QED BY <1>15, <2>2
<1>18. D[n] = e
  <2>1. D[n] = CutAt(d, e, Upto(n))
    BY <1>7, <1>15
  <2>2. ASSUME NEW i \in Slots0 PROVE (IF Sector(i) < Upto(n) THEN e[i] ELSE d[i]) = e[i]
    <3> SUFFICES ASSUME d[i] # e[i] PROVE Sector(i) < Upto(n)
      OBVIOUS
    <3>1. PICK j \in 1 .. n : f[j] = Sector(i)
      BY <1>4, <1>9
    <3>2. n \in 1 .. n /\ n # 0 /\ (j = n \/ j < n)
      BY <1>7
    <3>3. f[j] <= f[n] /\ f[j] \in Nat /\ f[n] \in Nat
      BY <3>2, <1>8, <1>12
    <3> QED BY <3>1, <3>2, <3>3
  <2> HIDE DEF Upto
  <2>3. CutAt(d, e, Upto(n)) = e
    BY <2>2 DEF CutAt
  <2> QED BY <2>1, <2>3
<1>19. \A k \in 0 .. n : D[k] \in Cuts(d, e)
  BY <1>14, <1>15 DEF Cuts
<1> HIDE DEF D
<1>20. Along(u, d, e, Cuts(d, e), D)
  BY <1>11, <1>16, <1>17, <1>18, <1>19 DEF Along
<1>21. Way(u, d, e, Cuts(d, e))
  BY <1>11, <1>20 DEF Way
<1>22. d # e => u # <<>>
  <2>1. d # e => n # 0
    BY <1>5, <1>10
  <2> QED BY <1>11, <2>1
<1> QED BY <1>21, <1>22 DEF u

\* One way behind another.
LEMMA WaysJoin ==
  ASSUME NEW S, NEW u, u \in Seq(S), NEW v, v \in Seq(S), NEW w, w \in Seq(S),
         NEW d, NEW e, NEW g, NEW K, NEW L, Way(u, d, e, K), Way(v, e, g, L),
         Len(w) = Len(u) + Len(v), \A k \in 1 .. Len(u) : w[k] = u[k],
         \A k \in 1 .. Len(v) : w[Len(u) + k] = v[k]
  PROVE  Way(w, d, g, K \cup L)
<1> DEFINE m == Len(u)
           n == Len(v)
<1>1. PICK A : Along(u, d, e, K, A)
  BY DEF Way
<1>2. PICK B : Along(v, e, g, L, B)
  BY DEF Way
<1> DEFINE D == [k \in 0 .. m + n |-> IF k <= m THEN A[k] ELSE B[k - m]]
<1>3. /\ m \in Nat /\ A[0] = d /\ A[m] = e /\ (\A k \in 1 .. m : A[k] = Written(A[k - 1], u[k]))
      /\ \A k \in 0 .. m : A[k] \in K
  BY <1>1 DEF Along
<1>4. /\ n \in Nat /\ B[0] = e /\ B[n] = g /\ (\A k \in 1 .. n : B[k] = Written(B[k - 1], v[k]))
      /\ \A k \in 0 .. n : B[k] \in L
  BY <1>2 DEF Along
<1>5. /\ Len(w) = m + n /\ (\A k \in 1 .. m : w[k] = u[k]) /\ \A k \in 1 .. n : w[m + k] = v[k]
  OBVIOUS
<1> HIDE DEF m, n
<1>6. (\A k \in 0 .. m : D[k] = A[k]) /\ \A k \in 0 .. n : D[m + k] = B[k]
  <2>1. ASSUME NEW k \in 0 .. m PROVE D[k] = A[k]
    BY <1>3, <1>4
  <2>2. ASSUME NEW k \in 0 .. n PROVE D[m + k] = B[k]
    <3>1. m + k \in 0 .. m + n /\ (m + k <= m => k = 0 /\ m + k = m) /\ (m + k) - m = k
      BY <1>3, <1>4
    <3> QED BY <3>1, <1>3, <1>4
  <2> QED BY <2>1, <2>2
<1> HIDE DEF D
<1>7. D[0] = d
  BY <1>3, <1>6
<1>8. D[m + n] = g
  BY <1>4, <1>6
<1>9. ASSUME NEW k \in 1 .. m + n PROVE D[k] = Written(D[k - 1], w[k])
  <2>1. CASE k \in 1 .. m
    <3>1. k \in 0 .. m /\ k - 1 \in 0 .. m
      BY <2>1, <1>3
    <3> QED BY <2>1, <3>1, <1>3, <1>5, <1>6
  <2>2. CASE k \notin 1 .. m
    <3> DEFINE j == k - m
    <3>1. j \in 1 .. n /\ j - 1 \in 0 .. n /\ j \in 0 .. n /\ m + j = k /\ m + (j - 1) = k - 1
      BY <2>2, <1>3, <1>4
    <3> HIDE DEF j
    <3>2. D[k] = B[j] /\ D[k - 1] = B[j - 1] /\ w[k] = v[j]
      <4>1. D[m + j] = B[j] /\ D[m + (j - 1)] = B[j - 1] /\ w[m + j] = v[j]
        BY <3>1, <1>5, <1>6
      <4> QED BY <3>1, <4>1
    <3> QED BY <3>1, <3>2, <1>4
  <2> QED BY <2>1, <2>2
<1>10. ASSUME NEW k \in 0 .. m + n PROVE D[k] \in K \cup L
  <2>1. CASE k \in 0 .. m
    BY <2>1, <1>3, <1>6
  <2>2. CASE k \notin 0 .. m
    <3>1. k - m \in 0 .. n /\ m + (k - m) = k
      BY <2>2, <1>3, <1>4
    <3>2. D[m + (k - m)] = B[k - m] /\ B[k - m] \in L
      BY <3>1, <1>4, <1>6
    <3> QED BY <3>1, <3>2
  <2> QED BY <2>1, <2>2
<1>11. Along(w, d, g, K \cup L, D)
  BY <1>5, <1>7, <1>8, <1>9, <1>10 DEF Along
<1> QED BY <1>11 DEF Way

\* The last write of a way can be left out if one of the same sector follows.
LEMMA ThenWay ==
  ASSUME NEW u, NEW v, NEW d, NEW e, NEW g, NEW K, NEW L, Way(u, d, e, K), Way(v, e, g, L)
  PROVE  /\ Way(Then(u, v), d, g, K \cup L)
         /\ u # <<>> => Then(u, v) # <<>>
<1>1. PICK S1 : u \in Seq(S1)
  BY DEF Way
<1>2. PICK S2 : v \in Seq(S2)
  BY DEF Way
<1> DEFINE S == S1 \cup S2
           m == Len(u)
           n == Len(v)
<1>3. u \in Seq(S) /\ v \in Seq(S)
  BY <1>1, <1>2, SeqMonotonic
<1> HIDE DEF S
<1>4. /\ m \in Nat /\ n \in Nat /\ (u = <<>> <=> m = 0) /\ (v = <<>> <=> n = 0)
      /\ u = [k \in 1 .. m |-> u[k]] /\ v = [k \in 1 .. n |-> v[k]]
  BY <1>3, EmptySeq, LenProperties
<1> HIDE DEF m, n
<1> DEFINE Merge == u # <<>> /\ v # <<>> /\ Last(u).sector = Head(v).sector
<1>5. CASE ~Merge
  <2> DEFINE w == u \o v
  <2>1. Then(u, v) = w
    BY <1>5, Zenon DEF Then
  <2>2. w \in Seq(S) /\ Len(w) = m + n /\ \A k \in 1 .. m + n : w[k] = IF k <= m THEN u[k] ELSE v[k - m]
    BY <1>3, ConcatProperties DEF m, n
  <2>3. \A k \in 1 .. m : w[k] = u[k]
    BY <2>2, <1>4
  <2>4. ASSUME NEW k \in 1 .. n PROVE w[m + k] = v[k]
    <3>1. m + k \in 1 .. m + n /\ ~ (m + k <= m) /\ (m + k) - m = k
      BY <1>4
    <3> QED BY <3>1, <2>2
  <2> HIDE DEF w
  <2>5. Way(w, d, g, K \cup L)
    BY <1>3, <2>2, <2>3, <2>4, WaysJoin DEF m, n
  <2>6. u # <<>> => w # <<>>
    <3>1. u # <<>> => Len(w) # 0
      BY <2>2, <1>4
    <3>2. w = <<>> => Len(w) = 0
      OBVIOUS
    <3> QED BY <3>1, <3>2
  <2> QED BY <2>1, <2>5, <2>6
<1>6. CASE Merge
  <2> DEFINE w == Front(u) \o v
             t == m - 1
  <2>1. Then(u, v) = w
    BY <1>6, Zenon DEF Then
  <2>2. m \in 1 .. m /\ n \in 1 .. n /\ t \in Nat /\ t + 1 = m /\ m # 0
    BY <1>4, <1>6
  <2>3. Front(u) \in Seq(S) /\ Len(Front(u)) = t /\ \A k \in 1 .. t : Front(u)[k] = u[k]
    <3>1. Front(u) = SubSeq(u, 1, t)
      BY DEF Front, m
    <3>2. SubSeq(u, 1, t) \in Seq(S) /\ Len(SubSeq(u, 1, t)) = t
          /\ \A k \in 1 .. t : SubSeq(u, 1, t)[k] = u[k]
      <4> HIDE DEF t
      <4> QED BY <1>3, <1>4, <2>2 DEF m
    <3> QED BY <3>1, <3>2
  <2> DEFINE x == Front(u)
  <2> HIDE DEF t, x
  <2>0. x \in Seq(S) /\ Len(x) = t /\ w = x \o v /\ \A k \in 1 .. t : x[k] = u[k]
    BY <2>3 DEF x
  <2> HIDE DEF w
  <2>4. w \in Seq(S) /\ Len(w) = t + n /\ \A k \in 1 .. t + n : w[k] = IF k <= t THEN x[k] ELSE v[k - t]
    BY <1>3, <2>0, ConcatProperties DEF n
  <2>5. \A k \in 1 .. t : w[k] = u[k]
    <3> SUFFICES ASSUME NEW k \in 1 .. t PROVE w[k] = u[k]
      OBVIOUS
    <3>1. k \in 1 .. t + n /\ k <= t
      BY <2>2, <1>4
    <3> QED BY <3>1, <2>0, <2>4
  <2>6. ASSUME NEW k \in 1 .. n PROVE w[t + k] = v[k]
    <3>1. t + k \in 1 .. t + n /\ ~ (t + k <= t) /\ (t + k) - t = k
      BY <1>4, <2>2
    <3> QED BY <3>1, <2>4
  <2>7. PICK A : Along(u, d, e, K, A)
    BY DEF Way
  <2>8. PICK B : Along(v, e, g, L, B)
    BY DEF Way
  <2>9. /\ A[0] = d /\ A[m] = e /\ (\A k \in 1 .. m : A[k] = Written(A[k - 1], u[k]))
        /\ \A k \in 0 .. m : A[k] \in K
    BY <2>7 DEF Along, m
  <2>10. /\ B[0] = e /\ B[n] = g /\ (\A k \in 1 .. n : B[k] = Written(B[k - 1], v[k]))
         /\ \A k \in 0 .. n : B[k] \in L
    BY <2>8 DEF Along, n
  <2>11. B[1] = Written(A[t], v[1])
    <3>1. u[m].sector = v[1].sector
      BY <1>6 DEF Last, m
    <3>2. A[m] = Written(A[t], u[m])
      <4>1. m - 1 = t
        BY <2>2, <1>4
      <4> QED BY <2>2, <2>9, <4>1
    <3>3. B[1] = Written(A[m], v[1])
      <4>1. 1 \in 1 .. n /\ 1 - 1 = 0
        BY <1>4, <2>2
      <4> QED BY <2>9, <2>10, <4>1
    <3>4. \A y : Written(Written(y, u[m]), v[1]) = Written(y, v[1])
      BY <3>1 DEF Written
    <3> QED BY <3>2, <3>3, <3>4
  <2> DEFINE D == [k \in 0 .. t + n |-> IF k <= t THEN A[k] ELSE B[k - t]]
  <2>12. (\A k \in 0 .. t : D[k] = A[k]) /\ \A k \in 1 .. n : D[t + k] = B[k]
    <3>1. ASSUME NEW k \in 0 .. t PROVE D[k] = A[k]
      BY <2>2, <1>4
    <3>2. ASSUME NEW k \in 1 .. n PROVE D[t + k] = B[k]
      <4>1. t + k \in 0 .. t + n /\ ~ (t + k <= t) /\ (t + k) - t = k
        BY <1>4, <2>2
      <4> QED BY <4>1
    <3> QED BY <3>1, <3>2
  <2> HIDE DEF D
  <2>13. D[0] = d /\ D[t + n] = g
    BY <2>2, <2>9, <2>10, <2>12
  <2>14. ASSUME NEW k \in 1 .. t + n PROVE D[k] = Written(D[k - 1], w[k])
    <3>1. CASE k \in 1 .. t
      <4>1. k \in 0 .. t /\ k - 1 \in 0 .. t /\ k \in 1 .. m
        BY <3>1, <2>2, <1>4
      <4> QED BY <3>1, <4>1, <2>5, <2>9, <2>12
    <3>2. CASE k = t + 1
      <4>0. 1 \in 1 .. n /\ t \in 0 .. t /\ (t + 1) - 1 = t
        BY <1>4, <2>2
      <4>1. D[t + 1] = B[1] /\ w[t + 1] = v[1] /\ D[t] = A[t] /\ k - 1 = t
        BY <3>2, <4>0, <2>6, <2>12
      <4> QED BY <3>2, <4>1, <2>11
    <3>3. CASE k \notin 1 .. t /\ k # t + 1
      <4> DEFINE j == k - t
      <4>0. k \in Nat /\ t + 1 < k /\ k <= t + n
        BY <3>3, <2>2, <1>4
      <4>1. j \in 1 .. n /\ j - 1 \in 1 .. n /\ t + j = k /\ t + (j - 1) = k - 1
        BY <4>0, <2>2, <1>4
      <4> HIDE DEF j
      <4>2. D[k] = B[j] /\ D[k - 1] = B[j - 1] /\ w[k] = v[j]
        <5>1. D[t + j] = B[j] /\ D[t + (j - 1)] = B[j - 1] /\ w[t + j] = v[j]
          BY <4>1, <2>6, <2>12
        <5> QED BY <4>1, <5>1
      <4> QED BY <4>1, <4>2, <2>10
    <3> QED BY <3>1, <3>2, <3>3
  <2>15. ASSUME NEW k \in 0 .. t + n PROVE D[k] \in K \cup L
    <3>1. CASE k \in 0 .. t
      <4>1. k \in 0 .. m
        BY <3>1, <2>2, <1>4
      <4> QED BY <3>1, <4>1, <2>9, <2>12
    <3>2. CASE k \notin 0 .. t
      <4>1. k - t \in 1 .. n /\ t + (k - t) = k /\ k - t \in 0 .. n
        BY <3>2, <2>2, <1>4
      <4>2. D[t + (k - t)] = B[k - t] /\ B[k - t] \in L
        BY <4>1, <2>10, <2>12
      <4> QED BY <4>1, <4>2
    <3> QED BY <3>1, <3>2
  <2>16. Along(w, d, g, K \cup L, D)
    BY <2>4, <2>13, <2>14, <2>15 DEF Along
  <2>17. w # <<>>
    <3>1. Len(w) # 0
      BY <2>2, <2>4, <1>4
    <3>2. w = <<>> => Len(w) = 0
      OBVIOUS
    <3> QED BY <3>1, <3>2
  <2> QED BY <2>1, <2>4, <2>16, <2>17 DEF Way
<1> QED BY <1>5, <1>6

\* A write takes the directory on.
LEMMA WayGoesOn ==
  ASSUME NEW u, NEW d, NEW e, NEW K, Way(u, d, e, K)
  PROVE  /\ u = <<>> => d = e
         /\ d \in K /\ e \in K
         /\ u # <<>> => Way(Tail(u), Written(d, Head(u)), e, K)
<1>1. PICK S : u \in Seq(S)
  BY DEF Way
<1>2. PICK A : Along(u, d, e, K, A)
  BY DEF Way
<1> DEFINE m == Len(u)
<1>3. m \in Nat /\ (u = <<>> <=> m = 0)
  BY <1>1, EmptySeq, LenProperties
<1>4. /\ A[0] = d /\ A[m] = e /\ (\A k \in 1 .. m : A[k] = Written(A[k - 1], u[k]))
      /\ \A k \in 0 .. m : A[k] \in K
  BY <1>2 DEF Along
<1> HIDE DEF m
<1>5. 0 \in 0 .. m /\ m \in 0 .. m
  BY <1>3
<1>6. ASSUME u # <<>> PROVE Way(Tail(u), Written(d, Head(u)), e, K)
  <2> DEFINE t == Tail(u)
             D == [k \in 0 .. m - 1 |-> A[k + 1]]
  <2>1. m # 0 /\ m - 1 \in Nat
    BY <1>3, <1>6
  <2>2. t \in Seq(S) /\ Len(t) = m - 1 /\ \A k \in 1 .. m - 1 : t[k] = u[k + 1]
    BY <1>1, <1>6, HeadTailProperties DEF m
  <2>3. Head(u) = u[1]
    BY <1>1, <1>6, HeadTailProperties
  <2> HIDE DEF t
  <2>4. \A k \in 0 .. m - 1 : D[k] = A[k + 1]
    OBVIOUS
  <2> HIDE DEF D
  <2>5. D[0] = Written(d, Head(u))
    <3>1. A[1] = Written(A[0], u[1])
      BY <2>1, <1>3, <1>4
    <3>2. D[0] = A[1]
      BY <2>1, <2>4
    <3> QED BY <3>1, <3>2, <1>4, <2>3
  <2>6. D[m - 1] = e
    <3>1. m - 1 \in 0 .. m - 1 /\ (m - 1) + 1 = m
      BY <2>1, <1>3
    <3> QED BY <3>1, <2>4, <1>4
  <2>7. ASSUME NEW k \in 1 .. m - 1 PROVE D[k] = Written(D[k - 1], t[k])
    <3>1. k \in 0 .. m - 1 /\ k - 1 \in 0 .. m - 1 /\ (k - 1) + 1 = k /\ k + 1 \in 1 .. m /\ (k + 1) - 1 = k
      BY <2>1, <1>3
    <3>2. A[k + 1] = Written(A[(k + 1) - 1], u[k + 1])
      BY <3>1, <1>4
    <3>3. D[k] = A[k + 1] /\ D[k - 1] = A[(k - 1) + 1]
      BY <3>1, <2>4
    <3> QED BY <3>1, <3>2, <3>3, <2>2
  <2>8. ASSUME NEW k \in 0 .. m - 1 PROVE D[k] \in K
    <3>1. k + 1 \in 0 .. m
      BY <2>1, <1>3
    <3> QED BY <3>1, <2>4, <1>4
  <2>9. Along(t, Written(d, Head(u)), e, K, D)
    BY <2>2, <2>5, <2>6, <2>7, <2>8 DEF Along
  <2> QED BY <2>2, <2>9 DEF Way, t
<1> QED BY <1>3, <1>4, <1>5, <1>6

-----------------------------------------------------------------------------
(* What the changes of a directory keep.                                   *)

\* A file stands where its entries are kept.
LEMMA KeptStands ==
  ASSUME NEW F, FilesOK(F), NEW c, NEW d, NEW f \in F, NEW p, NEW fn, Stands(c, d, f, p, fn), NEW x,
         \A i \in p + 1 .. p + Size(f.name) : x[i] = d[i]
  PROVE  Stands(c, x, f, p, fn)
<1> DEFINE m == Size(f.name)
<1>1. p \in Nat /\ m \in Nat \ {0}
  <2>1. 0 \in Nat
    OBVIOUS
  <2> QED BY <2>1, AroundIs DEF Around
<1>2. \A k \in 1 .. m : x[p + k] = d[p + k]
  <2> HIDE DEF m
  <2>1. \A k \in 1 .. m : p + k \in p + 1 .. p + m
    BY <1>1
  <2> QED BY <2>1 DEF m
<1>3. m \in 1 .. m /\ \A k \in 1 .. m - 1 : k \in 1 .. m
  BY <1>1
<1> QED BY <1>2, <1>3 DEF Stands

\* Room for m entries: free ones, with no end in front of them.
Room(d, p, m) ==
  /\ p \in 0 .. SlotCount - m
  /\ \A i \in p + 1 .. p + m : IsFree(d[i])
  /\ \A i \in 1 .. p : d[i].kind # "end"

\* The first gap is room for the entries.
LEMMA RoomIs ==
  ASSUME NEW d, NEW o, DirOK(d, o), EndsLast(d), NEW m \in Nat \ {0}, Gaps(d, m) # {}
  PROVE  Room(d, Gap(d, m), m)
<1> DEFINE G == Gaps(d, m)
           p == Gap(d, m)
<1>1. SlotCount \in Nat
  BY NamesAre
<1>2. G \in SUBSET Nat
  BY <1>1 DEF Gaps
<1>3. \E q \in G : \A r \in G : q <= r
  BY <1>2, LeastIs
<1>4. p \in G /\ \A r \in G : p <= r
  BY <1>3 DEF Gap
<1> HIDE DEF p
<1>5. p \in 0 .. SlotCount - m /\ \A i \in 1 .. m : IsFree(d[p + i])
  BY <1>4 DEF Gaps
<1>6. ASSUME NEW i \in p + 1 .. p + m PROVE IsFree(d[i])
  <2>1. i - p \in 1 .. m /\ p + (i - p) = i
    BY <1>1, <1>5
  <2>2. IsFree(d[p + (i - p)])
    BY <2>1, <1>5
  <2> QED BY <2>1, <2>2
<1>7. ASSUME NEW i \in 1 .. p, d[i].kind = "end" PROVE FALSE
  <2>1. i - 1 \in 0 .. SlotCount - m /\ i \in Slots0 /\ i - 1 < p
    BY <1>1, <1>5 DEF Slots0
  <2>2. ASSUME NEW k \in 1 .. m PROVE IsFree(d[(i - 1) + k])
    <3>1. (i - 1) + k \in Slots0 /\ (i < (i - 1) + k \/ (i - 1) + k = i)
      BY <2>1, <1>1, <1>5 DEF Slots0
    <3>2. d[(i - 1) + k].kind = "end"
      BY <3>1, <2>1, <1>7 DEF EndsLast
    <3> QED BY <3>2 DEF IsFree
  <2>3. i - 1 \in G
    BY <2>1, <2>2 DEF Gaps
  <2>4. p <= i - 1
    BY <2>3, <1>4
  <2> QED BY <2>1, <2>4, <1>5
<1> QED BY <1>5, <1>6, <1>7 DEF Room, p

\* A part of the new entries is there, from the first one on.
PutTo(d, p, es, x) ==
  /\ x = [i \in Slots0 |-> x[i]]
  /\ \A i \in Slots0 :
       \/ x[i] = d[i]
       \/ i - p \in DOMAIN es /\ \A j \in p + 1 .. i : x[j] = es[j - p]

\* Put changes the entries of the new file only.
LEMMA PutGives ==
  ASSUME NEW d, NEW o, DirOK(d, o), NEW p \in Nat, NEW es, NEW e, e = Put(d, p, es)
  PROVE  /\ e = [i \in Slots0 |-> e[i]]
         /\ \A i \in Slots0 : e[i] = IF i - p \in DOMAIN es THEN es[i - p] ELSE d[i]
<1>1. DOMAIN d = Slots0
  BY DEF DirOK
<1>2. e = [i \in Slots0 |-> IF i - p \in DOMAIN es THEN es[i - p] ELSE d[i]]
  BY <1>1, Zenon DEF Put
<1> QED BY <1>2

\* A power failure leaves the first of the new entries.
LEMMA PutCut ==
  ASSUME NEW d, NEW o, DirOK(d, o), NEW m \in Nat, NEW p \in 0 .. SlotCount - m,
         NEW es, DOMAIN es = 1 .. m, NEW e, e = Put(d, p, es), NEW s \in Nat
  PROVE  PutTo(d, p, es, CutAt(d, e, s))
<1> DEFINE x == CutAt(d, e, s)
<1>1. SlotCount \in Nat /\ p \in Nat /\ p <= SlotCount - m
  BY NamesAre
<1>2. \A i \in Slots0 : e[i] = IF i - p \in 1 .. m THEN es[i - p] ELSE d[i]
  BY <1>1, PutGives
<1>3. \A i \in Slots0 : x[i] = IF Sector(i) < s THEN e[i] ELSE d[i]
  BY DEF CutAt
<1>4. x = [i \in Slots0 |-> x[i]]
  BY DEF CutAt
<1> HIDE DEF x
<1>5. ASSUME NEW i \in Slots0, x[i] # d[i] PROVE i - p \in 1 .. m /\ \A j \in p + 1 .. i : x[j] = es[j - p]
  <2>1. Sector(i) < s /\ i - p \in 1 .. m
    BY <1>2, <1>3, <1>5
  <2>2. ASSUME NEW j \in p + 1 .. i PROVE x[j] = es[j - p]
    <3>1. i \in Nat /\ i <= SlotCount
      BY <1>1 DEF Slots0
    <3>2. j \in Slots0 /\ j - p \in 1 .. m /\ (j < i \/ j = i)
      BY <1>1, <2>1, <3>1 DEF Slots0
    <3>3. Sector(j) < s
      <4>1. Sector(j) \in Nat /\ Sector(i) \in Nat /\ (j < i => Sector(j) <= Sector(i))
        BY <3>2, SectorIs
      <4> QED BY <2>1, <3>2, <4>1
    <3> QED BY <3>2, <3>3, <1>2, <1>3
  <2> QED BY <2>1, <2>2
<1> QED BY <1>4, <1>5 DEF PutTo, x

\* The last cut of a directory is the directory.
LEMMA CutLast ==
  ASSUME NEW d, NEW e, e = [i \in Slots0 |-> e[i]]
  PROVE  \E s \in Nat : CutAt(d, e, s) = e
<1>1. SlotCount \in Slots0 /\ \A i \in Slots0 : i \in Int /\ (i < SlotCount \/ i = SlotCount)
  BY NamesAre DEF Slots0
<1>2. \A i \in Slots0 : Sector(i) \in Nat /\ Sector(i) <= Sector(SlotCount)
  BY <1>1, SectorIs
<1> DEFINE s == Sector(SlotCount) + 1
<1>3. s \in Nat /\ \A i \in Slots0 : Sector(i) < s
  BY <1>1, <1>2
<1> HIDE DEF s
<1>4. CutAt(d, e, s) = e
  BY <1>3 DEF CutAt
<1> QED BY <1>3, <1>4

\* The kinds of new entries.
AreNew(es, m, fn, id, o) ==
  /\ DOMAIN es = 1 .. m /\ m \in Nat \ {0} /\ m \in 1 .. m
  /\ \A k \in 1 .. m : EntryOK(es[k], o) /\ (es[k].kind = "lfn" \/ (k = m /\ es[k].kind = "short"))
  /\ es[m].kind = "short" /\ es[m].fn = fn /\ es[m].file = id

\* The entries of a new file.
LEMMA NewKinds ==
  ASSUME NEW name \in NameSet, NEW fn, NEW o, NEW id \in 1 .. o, NEW es, es = NewEntries(name, fn, id),
         NEW m, m = Size(name)
  PROVE  AreNew(es, m, fn, id, o)
<1>1. /\ DOMAIN es = 1 .. m /\ es[m] = Short(fn, id)
      /\ \A k \in 1 .. m - 1 : es[k] = put_lfn(name, m - k, SumOf(checksums, fn))
  BY NewEntriesAre
<1>2. m \in Nat \ {0} /\ (m > 1 => m - 1 = Parts(name))
  BY SizeIs
<1>3. es[m].kind = "short" /\ es[m].fn = fn /\ es[m].file = id
  BY <1>1 DEF Short
<1>4. ASSUME NEW k \in 1 .. m - 1 PROVE EntryOK(es[k], o) /\ es[k].kind = "lfn"
  <2>1. m - k \in 1 .. Parts(name)
    BY <1>2
  <2>2. es[k].kind = "lfn" /\ es[k].chars \in [1 .. PartLen -> Characters \cup {Term, Filler}]
    BY <1>1, <2>1, PartIs
  <2> QED BY <2>2 DEF EntryOK, Kinds
<1>5. EntryOK(es[m], o)
  BY <1>3 DEF EntryOK, Kinds
<1>6. m \in 1 .. m /\ \A k \in 1 .. m : k \in 1 .. m - 1 \/ k = m
  BY <1>2
<1> QED BY <1>1, <1>2, <1>3, <1>4, <1>5, <1>6 DEF AreNew

\* The entries of a file that stands are in use.
LEMMA StandsUsed ==
  ASSUME NEW F, FilesOK(F), NEW c, NEW d, NEW f \in F, NEW q, NEW its, Stands(c, d, f, q, its),
         NEW i \in q + 1 .. q + Size(f.name)
  PROVE  i \in Slots0 /\ ~IsFree(d[i]) /\ (d[i].kind = "lfn" \/ (i = q + Size(f.name) /\ d[i].kind = "short"))
<1> DEFINE m == Size(f.name)
           k == i - q
<1>1. Standing(c, d, f, q, its, m)
  BY StandsIs DEF FilesOK
<1>2. i \in q + 1 .. q + m
  OBVIOUS
<1> HIDE DEF m
<1>3. /\ q \in Nat /\ m \in Nat \ {0} /\ q + m <= SlotCount
      /\ \A j \in 1 .. m - 1 : d[q + j].kind = "lfn"
      /\ d[q + m].kind = "short"
  BY <1>1 DEF Standing
<1>4. k \in 1 .. m /\ q + k = i /\ (k \in 1 .. m - 1 \/ k = m) /\ i \in Slots0
  <2>1. SlotCount \in Nat
    BY NamesAre
  <2>2. i \in Nat /\ q + 1 <= i /\ i <= q + m
    BY <1>2, <1>3
  <2>3. k \in 1 .. m /\ q + k = i /\ (k \in 1 .. m - 1 \/ k = m)
    BY <2>2, <1>3
  <2> QED BY <2>1, <2>2, <2>3, <1>3 DEF Slots0
<1> HIDE DEF k
<1>5. d[i].kind = "lfn" \/ (i = q + m /\ d[i].kind = "short")
  BY <1>3, <1>4
<1> QED BY <1>4, <1>5 DEF IsFree, m

\* What a sound directory is when new entries are put in free ones, also when
\* only the first of them are there yet.
LEMMA PutSound ==
  ASSUME NEW c, NEW F, FilesOK(F), NEW T, NEW n, NEW o \in Nat, NEW d, Sound(c, d, F, T, n), n \in Nat, n <= o,
         NEW name \in NameSet, NEW fn, NEW id \in 1 .. o, NEW es, es = NewEntries(name, fn, id),
         NEW p, Room(d, p, Size(name)), NEW x, PutTo(d, p, es, x),
         NEW U, T \subseteq U, id \in U \/ \A i \in Slots0 : d[i].kind = "short" => d[i].file # id
  PROVE  Sound(c, x, F, U, o)
<1> DEFINE m == Size(name)
<1>1. /\ DOMAIN es = 1 .. m /\ m \in Nat \ {0} /\ m \in 1 .. m
      /\ \A k \in 1 .. m : EntryOK(es[k], o) /\ (es[k].kind = "lfn" \/ (k = m /\ es[k].kind = "short"))
      /\ es[m].kind = "short" /\ es[m].fn = fn /\ es[m].file = id
  <2>1. m = Size(name)
    OBVIOUS
  <2> HIDE DEF m
  <2>2. AreNew(es, m, fn, id, o)
    BY <2>1, NewKinds
  <2> QED BY <2>2 DEF AreNew
<1>2. /\ p \in 0 .. SlotCount - m /\ SlotCount \in Nat
      /\ \A i \in p + 1 .. p + m : IsFree(d[i])
      /\ \A i \in 1 .. p : d[i].kind # "end"
  BY NamesAre DEF Room
<1> HIDE DEF m
<1>3. /\ x = [i \in Slots0 |-> x[i]]
      /\ \A i \in Slots0 :
           \/ x[i] = d[i]
           \/ i - p \in 1 .. m /\ \A j \in p + 1 .. i : x[j] = es[j - p]
  BY <1>1 DEF PutTo
<1>4. DirOK(d, n) /\ EndsLast(d)
  BY DEF Sound
<1>5. ASSUME NEW i \in Slots0, x[i] # d[i]
      PROVE  /\ i - p \in 1 .. m /\ x[i] = es[i - p] /\ IsFree(d[i]) /\ x[i].kind # "end"
             /\ \A j \in p + 1 .. i : x[j].kind # "end"
  <2>1. i \in Nat /\ p \in Nat
    BY <1>2 DEF Slots0
  <2>2. i - p \in 1 .. m /\ \A j \in p + 1 .. i : x[j] = es[j - p]
    BY <1>3, <1>5
  <2>3. i \in p + 1 .. i /\ i \in p + 1 .. p + m
    BY <2>1, <2>2, <1>1
  <2>4. ASSUME NEW j \in p + 1 .. i PROVE x[j].kind # "end"
    <3>1. j - p \in 1 .. m /\ x[j] = es[j - p]
      BY <2>1, <2>2, <1>1
    <3> QED BY <3>1, <1>1
  <2> QED BY <2>2, <2>3, <2>4, <1>2
<1>6. DirOK(x, o)
  <2>1. ASSUME NEW i \in Slots0 PROVE EntryOK(x[i], o)
    <3>1. CASE x[i] = d[i]
      <4>1. EntryOK(d[i], n) /\ 1 .. n \subseteq 1 .. o
        BY <1>4 DEF DirOK
      <4> QED BY <3>1, <4>1 DEF EntryOK
    <3>2. CASE x[i] # d[i]
      BY <3>2, <1>1, <1>5
    <3> QED BY <3>1, <3>2
  <2> QED BY <2>1, <1>3 DEF DirOK
<1>7. EndsLast(x)
  <2> SUFFICES ASSUME NEW i \in Slots0, NEW j \in Slots0, i < j, x[i].kind = "end" PROVE x[j].kind = "end"
    BY DEF EndsLast
  <2>1. x[i] = d[i]
    BY <1>5
  <2>2. d[j].kind = "end"
    BY <2>1, <1>4 DEF EndsLast
  <2>3. CASE x[j] = d[j]
    BY <2>2, <2>3
  <2>4. CASE x[j] # d[j]
    <3>1. ~ (i \in p + 1 .. j)
      BY <2>4, <1>5
    <3>2. i \in 1 .. p
      BY <3>1, <1>2 DEF Slots0
    <3> QED BY <3>2, <2>1, <1>2
  <2> QED BY <2>3, <2>4
<1>8. ASSUME NEW f \in F PROVE \E q, its : Stands(c, x, f, q, its)
  <2>1. PICK q, its : Stands(c, d, f, q, its)
    BY DEF Sound
  <2>2. \A i \in q + 1 .. q + Size(f.name) : i \in Slots0 /\ ~IsFree(d[i])
    BY <2>1, StandsUsed
  <2>3. \A i \in q + 1 .. q + Size(f.name) : x[i] = d[i]
    BY <2>2, <1>5
  <2>4. Stands(c, x, f, q, its)
    BY <2>1, <2>3, KeptStands
  <2> QED BY <2>4
<1>9. ASSUME NEW i \in Slots0, NEW j \in Slots0, x[i].kind = "short", x[j].kind = "short",
             x[i].file = x[j].file, i # j
      PROVE  x[i].file \in U
  <2>1. ASSUME NEW k \in Slots0, x[k] # d[k], x[k].kind = "short" PROVE k = p + m /\ x[k].file = id
    <3>1. k - p \in 1 .. m /\ x[k] = es[k - p]
      BY <2>1, <1>5
    <3>2. k - p = m
      BY <3>1, <2>1, <1>1
    <3>3. k = p + m
      BY <3>2, <1>1, <1>2 DEF Slots0
    <3> QED BY <3>1, <3>2, <3>3, <1>1
  <2>2. CASE x[i] = d[i] /\ x[j] = d[j]
    BY <2>2, <1>9 DEF Sound
  <2>3. CASE x[i] # d[i] /\ x[j] = d[j]
    BY <2>1, <2>3, <1>9
  <2>4. CASE x[i] = d[i] /\ x[j] # d[j]
    BY <2>1, <2>4, <1>9
  <2>5. CASE x[i] # d[i] /\ x[j] # d[j]
    BY <2>1, <2>5, <1>9
  <2> QED BY <2>2, <2>3, <2>4, <2>5
<1> QED BY <1>6, <1>7, <1>8, <1>9 DEF Sound

\* The new file stands in the directory then.
LEMMA NewStands ==
  ASSUME NEW d, NEW o, DirOK(d, o), NEW name \in NameSet, NEW fn, Fits(name) => fn = ShortName(name),
         NEW id, NEW es, es = NewEntries(name, fn, id), NEW p, Room(d, p, Size(name)),
         NEW e, e = Put(d, p, es)
  PROVE  Stands(checksums, e, [name |-> name, file |-> id], p, fn)
<1> DEFINE m == Size(name)
           f == [name |-> name, file |-> id]
<1>1. /\ DOMAIN es = 1 .. m /\ es[m] = Short(fn, id)
      /\ \A k \in 1 .. m - 1 : es[k] = put_lfn(name, m - k, SumOf(checksums, fn))
  BY NewEntriesAre
<1>2. m \in Nat \ {0}
  BY SizeIs
<1>3. p \in 0 .. SlotCount - m /\ SlotCount \in Nat /\ p \in Nat
  BY NamesAre DEF Room
<1>4. \A i \in Slots0 : e[i] = IF i - p \in 1 .. m THEN es[i - p] ELSE d[i]
  <2>1. \A i \in Slots0 : e[i] = IF i - p \in DOMAIN es THEN es[i - p] ELSE d[i]
    BY <1>3, PutGives
  <2> QED BY <1>1, <2>1
<1>5. f.name = name /\ f.file = id
  OBVIOUS
<1> HIDE DEF m
<1>6. ASSUME NEW k \in 1 .. m PROVE e[p + k] = es[k]
  <2>1. p + k \in Slots0 /\ (p + k) - p = k
    BY <1>2, <1>3 DEF Slots0
  <2> QED BY <2>1, <1>4
<1>7. m \in 1 .. m /\ \A k \in 1 .. m - 1 : k \in 1 .. m
  BY <1>2
<1> HIDE DEF f
<1> QED BY <1>1, <1>3, <1>5, <1>6, <1>7 DEF Stands, m

\* The first place of what dir_remove takes away.
FirstOf(at, blk) == IF blk = Nowhere THEN at ELSE blk
Removable(d, at, blk) == at \in Nat /\ at + 1 \in Slots0 /\ d[at + 1].kind = "short" /\ LfnBehind(d, at, blk)

\* What dir_remove makes of a directory: the places behind t to at are free.
IsRemoved(d, at, t, r) ==
  /\ at \in Nat /\ t \in Nat /\ t <= at /\ at + 1 \in Slots0
  /\ \A i \in t + 1 .. at : d[i].kind = "lfn"
  /\ \A i \in t + 1 .. at + 1 : i \in Slots0 /\ ~IsFree(d[i])
  /\ r = [i \in Slots0 |-> r[i]]
  /\ \A i \in Slots0 : r[i] = IF i \in t + 1 .. at + 1 THEN Deleted ELSE d[i]

\* dir_remove takes away the entries from the first long one to the short one.
LEMMA RemovedIs ==
  ASSUME NEW d, NEW o, DirOK(d, o), NEW at, NEW blk, Removable(d, at, blk), NEW t, t = FirstOf(at, blk),
         NEW r, r = Removed(d, at, blk)
  PROVE  IsRemoved(d, at, t, r)
<1>1. at \in Nat /\ at + 1 \in Slots0 /\ d[at + 1].kind = "short" /\ SlotCount \in Nat
  BY NamesAre DEF Removable
<1>2. t \in Nat /\ t <= at /\ \A i \in t + 1 .. at : d[i].kind = "lfn"
  <2>1. CASE blk = Nowhere
    BY <2>1, <1>1 DEF FirstOf
  <2>2. CASE blk # Nowhere
    <3>1. blk \in 0 .. at - 1 /\ \A i \in blk + 1 .. at : d[i].kind = "lfn"
      BY <2>2 DEF Removable, LfnBehind
    <3>2. t = blk
      BY <2>2 DEF FirstOf
    <3> QED BY <3>1, <3>2, <1>1
  <2> QED BY <2>1, <2>2
<1>3. ASSUME NEW i \in t + 1 .. at + 1 PROVE i \in Slots0 /\ ~IsFree(d[i])
  <2>1. i \in Slots0 /\ (i \in t + 1 .. at \/ i = at + 1)
    BY <1>1, <1>2 DEF Slots0
  <2> QED BY <2>1, <1>1, <1>2 DEF IsFree
<1>4. DOMAIN d = Slots0
  BY DEF DirOK
<1>5. r = [i \in Slots0 |-> IF i - 1 \in t .. at THEN Deleted ELSE d[i]]
  <2>1. r = [i \in DOMAIN d |-> IF i - 1 \in FirstOf(at, blk) .. at THEN Deleted ELSE d[i]]
    BY Zenon DEF Removed, FirstOf
  <2> QED BY <1>4, <2>1
<1>6. ASSUME NEW i \in Slots0 PROVE i - 1 \in t .. at <=> i \in t + 1 .. at + 1
  BY <1>1, <1>2 DEF Slots0
<1>7. r = [i \in Slots0 |-> r[i]]
  BY <1>5
<1>8. ASSUME NEW i \in Slots0 PROVE r[i] = IF i \in t + 1 .. at + 1 THEN Deleted ELSE d[i]
  <2>1. r[i] = IF i - 1 \in t .. at THEN Deleted ELSE d[i]
    BY <1>5
  <2> QED BY <2>1, <1>6
<1> QED BY <1>1, <1>2, <1>3, <1>7, <1>8 DEF IsRemoved

\* The entries of another file are not among those removed.
LEMMA RemovedApart ==
  ASSUME NEW F, FilesOK(F), NEW c, NEW d, NEW o, DirOK(d, o), NEW at, NEW blk, Removable(d, at, blk),
         NEW f \in F, f.file # d[at + 1].file, NEW q, NEW its, Stands(c, d, f, q, its),
         NEW i \in q + 1 .. q + Size(f.name)
  PROVE  i \notin FirstOf(at, blk) + 1 .. at + 1
<1> DEFINE m == Size(f.name)
           t == FirstOf(at, blk)
<1> SUFFICES ASSUME i \in t + 1 .. at + 1 PROVE FALSE
  OBVIOUS
<1>1. Standing(c, d, f, q, its, m)
  BY StandsIs DEF FilesOK
<1>2. /\ at \in Nat /\ t \in Nat /\ t <= at
      /\ \A j \in t + 1 .. at : d[j].kind = "lfn"
  BY RemovedIs DEF IsRemoved
<1>3. i \in q + 1 .. q + m /\ i \in t + 1 .. at + 1
  OBVIOUS
<1>4. d[at + 1].kind = "short"
  BY DEF Removable
<1> HIDE DEF m, t
<1>5. /\ q \in Nat /\ m \in Nat \ {0}
      /\ \A j \in 1 .. m - 1 : d[q + j].kind = "lfn"
      /\ d[q + m].kind = "short" /\ d[q + m].file = f.file
  BY <1>1 DEF Standing
<1>6. i \in Nat /\ q + 1 <= i /\ i <= q + m /\ t + 1 <= i /\ i <= at + 1
  BY <1>2, <1>3, <1>5
<1>7. CASE q + m <= at
  <2>1. q + m \in t + 1 .. at
    BY <1>2, <1>5, <1>6, <1>7
  <2>2. d[q + m].kind = "lfn"
    BY <2>1, <1>2
  <2> QED BY <2>2, <1>5
<1>8. CASE q + m = at + 1
  BY <1>5, <1>8
<1>9. CASE q + m > at + 1
  <2> DEFINE k == at + 1 - q
  <2>1. k \in 1 .. m - 1 /\ q + k = at + 1
    BY <1>2, <1>5, <1>6, <1>9
  <2> HIDE DEF k
  <2>2. d[q + k].kind = "lfn"
    BY <2>1, <1>5
  <2> QED BY <2>1, <2>2, <1>4
<1> QED BY <1>2, <1>5, <1>7, <1>8, <1>9

\* What a sound directory is while a file's entries are removed.
LEMMA RemoveSound ==
  ASSUME NEW c, NEW F, FilesOK(F), NEW T, NEW o, NEW d, Sound(c, d, F, T, o),
         NEW at, NEW blk, Removable(d, at, blk), \A f \in F : f.file # d[at + 1].file,
         NEW r, r = Removed(d, at, blk),
         NEW x, x = [i \in Slots0 |-> x[i]], \A i \in Slots0 : x[i] = d[i] \/ x[i] = r[i]
  PROVE  Sound(c, x, F, T, o)
<1> DEFINE t == FirstOf(at, blk)
<1>1. DirOK(d, o) /\ EndsLast(d)
  BY DEF Sound
<1>2. /\ \A i \in t + 1 .. at + 1 : i \in Slots0 /\ ~IsFree(d[i])
      /\ \A i \in Slots0 : r[i] = IF i \in t + 1 .. at + 1 THEN Deleted ELSE d[i]
  BY <1>1, RemovedIs DEF IsRemoved
<1>3. \A f \in F : \A q, its : Stands(c, d, f, q, its) =>
        \A i \in q + 1 .. q + Size(f.name) : i \notin t + 1 .. at + 1
  BY <1>1, RemovedApart
<1> HIDE DEF t
<1>4. ASSUME NEW i \in Slots0 PROVE x[i] = d[i] \/ (x[i] = Deleted /\ ~IsFree(d[i]) /\ i \in t + 1 .. at + 1)
  BY <1>2
<1>5. Deleted.kind = "deleted"
  BY DEF Deleted
<1>6. DirOK(x, o)
  <2>1. EntryOK(Deleted, o)
    BY <1>5 DEF EntryOK, Kinds
  <2> QED BY <2>1, <1>1, <1>4 DEF DirOK
<1>7. EndsLast(x)
  <2> SUFFICES ASSUME NEW i \in Slots0, NEW j \in Slots0, i < j, x[i].kind = "end" PROVE x[j].kind = "end"
    BY DEF EndsLast
  <2>1. d[i].kind = "end"
    BY <1>4, <1>5
  <2>2. d[j].kind = "end"
    BY <2>1, <1>1 DEF EndsLast
  <2> QED BY <2>2, <1>4 DEF IsFree
<1>8. ASSUME NEW f \in F PROVE \E q, its : Stands(c, x, f, q, its)
  <2>1. PICK q, its : Stands(c, d, f, q, its)
    BY DEF Sound
  <2>2. \A i \in q + 1 .. q + Size(f.name) : i \in Slots0
    BY <2>1, StandsUsed
  <2>3. \A i \in q + 1 .. q + Size(f.name) : x[i] = d[i]
    BY <2>1, <2>2, <1>3, <1>4
  <2>4. Stands(c, x, f, q, its)
    BY <2>1, <2>3, KeptStands
  <2> QED BY <2>4
<1>9. ASSUME NEW i \in Slots0, NEW j \in Slots0, x[i].kind = "short", x[j].kind = "short", x[i].file = x[j].file
      PROVE  i = j \/ x[i].file \in T
  <2>1. x[i] = d[i] /\ x[j] = d[j]
    BY <1>4, <1>5, <1>9
  <2> QED BY <2>1, <1>9 DEF Sound
<1> QED BY <1>6, <1>7, <1>8, <1>9 DEF Sound

\* New entries and removed ones do not meet.
Commute(d, at, blk, e, r, p, m, es) ==
  /\ Removable(e, at, blk) /\ e[at + 1] = d[at + 1] /\ Room(r, p, m)
  /\ \A n : DirOK(e, n) => Removed(e, at, blk) = Put(r, p, es)

\* f_rename puts the new entries where none of the old ones are, so the order does
\* not matter to what is removed.
LEMMA PutThenRemove ==
  ASSUME NEW d, NEW o, DirOK(d, o), NEW at, NEW blk, Removable(d, at, blk),
         NEW m \in Nat \ {0}, NEW p, Room(d, p, m), NEW es, DOMAIN es = 1 .. m,
         NEW e, e = Put(d, p, es), NEW r, r = Removed(d, at, blk)
  PROVE  Commute(d, at, blk, e, r, p, m, es)
<1> DEFINE t == FirstOf(at, blk)
<1>0. IsRemoved(d, at, t, r)
  BY RemovedIs
<1>1. /\ at \in Nat /\ t \in Nat /\ t <= at /\ at + 1 \in Slots0
      /\ \A i \in t + 1 .. at + 1 : i \in Slots0 /\ ~IsFree(d[i])
      /\ r = [i \in Slots0 |-> r[i]]
      /\ \A i \in Slots0 : r[i] = IF i \in t + 1 .. at + 1 THEN Deleted ELSE d[i]
  BY <1>0 DEF IsRemoved
<1>2. /\ p \in 0 .. SlotCount - m /\ SlotCount \in Nat /\ p \in Nat
      /\ \A i \in p + 1 .. p + m : IsFree(d[i])
      /\ \A i \in 1 .. p : d[i].kind # "end"
  BY NamesAre DEF Room
<1>3. /\ e = [i \in Slots0 |-> e[i]]
      /\ \A i \in Slots0 : e[i] = IF i - p \in 1 .. m THEN es[i - p] ELSE d[i]
  <2>1. e = [i \in Slots0 |-> e[i]] /\ \A i \in Slots0 : e[i] = IF i - p \in DOMAIN es THEN es[i - p] ELSE d[i]
    BY <1>2, PutGives
  <2> QED BY <2>1
<1>4. ASSUME NEW i \in t + 1 .. at + 1 PROVE i - p \notin 1 .. m /\ e[i] = d[i]
  <2>1. i \in Slots0 /\ i \notin p + 1 .. p + m
    BY <1>1, <1>2
  <2>2. i - p \notin 1 .. m
    BY <2>1, <1>2 DEF Slots0
  <2> QED BY <2>1, <2>2, <1>3
<1> HIDE DEF t
<1>5. at + 1 \in t + 1 .. at + 1
  BY <1>1
<1>6. Removable(e, at, blk)
  <2>1. LfnBehind(e, at, blk)
    <3> SUFFICES ASSUME blk # Nowhere PROVE blk \in 0 .. at - 1 /\ \A j \in blk + 1 .. at : e[j].kind = "lfn"
      BY DEF LfnBehind
    <3>1. blk \in 0 .. at - 1 /\ \A j \in blk + 1 .. at : d[j].kind = "lfn"
      BY DEF Removable, LfnBehind
    <3>2. t = blk
      BY DEF FirstOf, t
    <3>3. \A j \in blk + 1 .. at : j \in t + 1 .. at + 1
      BY <3>1, <3>2, <1>1
    <3> QED BY <3>1, <3>3, <1>4
  <2> QED BY <2>1, <1>1, <1>4, <1>5 DEF Removable
<1>7. Room(r, p, m)
  <2>1. ASSUME NEW i \in p + 1 .. p + m PROVE IsFree(r[i])
    <3>1. i \in Slots0 /\ IsFree(d[i])
      BY <1>2 DEF Slots0
    <3>2. r[i] = d[i]
      BY <3>1, <1>1
    <3> QED BY <3>1, <3>2
  <2>2. ASSUME NEW i \in 1 .. p PROVE r[i].kind # "end"
    <3>1. i \in Slots0 /\ d[i].kind # "end"
      BY <1>2 DEF Slots0
    <3>2. r[i] = d[i] \/ r[i] = Deleted
      BY <3>1, <1>1
    <3> QED BY <3>1, <3>2 DEF Deleted
  <2> QED BY <2>1, <2>2, <1>2 DEF Room
<1>8. ASSUME NEW n, DirOK(e, n) PROVE Removed(e, at, blk) = Put(r, p, es)
  <2> DEFINE s == Removed(e, at, blk)
             u == Put(r, p, es)
  <2>1. s = [i \in Slots0 |-> s[i]] /\ \A i \in Slots0 : s[i] = IF i \in t + 1 .. at + 1 THEN Deleted ELSE e[i]
    BY <1>6, <1>8, RemovedIs DEF IsRemoved, t
  <2>2. u = [i \in Slots0 |-> u[i]] /\ \A i \in Slots0 : u[i] = IF i - p \in 1 .. m THEN es[i - p] ELSE r[i]
    <3>1. DOMAIN r = Slots0
      BY <1>1
    <3>2. u = [i \in Slots0 |-> IF i - p \in DOMAIN es THEN es[i - p] ELSE r[i]]
      BY <3>1, Zenon DEF Put
    <3> HIDE DEF u
    <3> QED BY <3>2
  <2> HIDE DEF s, u
  <2>3. ASSUME NEW i \in Slots0 PROVE s[i] = u[i]
    BY <2>1, <2>2, <1>1, <1>3, <1>4
  <2>4. s = u
    BY <2>1, <2>2, <2>3
  <2> QED BY <2>4 DEF s, u
<1> QED BY <1>4, <1>5, <1>6, <1>7, <1>8 DEF Commute

\* A tidy directory stays tidy with a new file.
LEMMA TidyPut ==
  ASSUME NEW F, FilesOK(F), NEW d, NEW n, DirOK(d, n), Tidy(checksums, d, F), NEW o \in Nat,
         NEW name \in NameSet, NEW fn, Fits(name) => fn = ShortName(name), NEW id \in 1 .. o,
         NEW es, es = NewEntries(name, fn, id), NEW p, Room(d, p, Size(name)),
         NEW e, e = Put(d, p, es),
         \A i \in Slots0 : d[i].kind = "short" => d[i].fn # fn /\ d[i].file # id,
         \A g \in F : ~SameName(g.name, name)
  PROVE  Tidy(checksums, e, F \cup {[name |-> name, file |-> id]})
<1> DEFINE m == Size(name)
           f == [name |-> name, file |-> id]
           G == F \cup {f}
<1>1. /\ DOMAIN es = 1 .. m /\ m \in Nat \ {0} /\ m \in 1 .. m
      /\ \A k \in 1 .. m : es[k].kind = "lfn" \/ (k = m /\ es[k].kind = "short")
      /\ es[m].kind = "short" /\ es[m].fn = fn /\ es[m].file = id
  <2>1. m = Size(name)
    OBVIOUS
  <2> HIDE DEF m
  <2>2. AreNew(es, m, fn, id, o)
    BY <2>1, NewKinds
  <2> QED BY <2>2 DEF AreNew
<1>2. /\ p \in 0 .. SlotCount - m /\ SlotCount \in Nat /\ p \in Nat
      /\ \A i \in p + 1 .. p + m : IsFree(d[i])
  BY NamesAre DEF Room
<1>3. \A i \in Slots0 : e[i] = IF i - p \in 1 .. m THEN es[i - p] ELSE d[i]
  <2>1. \A i \in Slots0 : e[i] = IF i - p \in DOMAIN es THEN es[i - p] ELSE d[i]
    BY <1>2, PutGives
  <2> QED BY <1>1, <2>1
<1>4. Stands(checksums, e, f, p, fn)
  BY NewStands
<1>5. f.name = name /\ f.file = id /\ f \in G
  OBVIOUS
<1>6. m = Size(f.name)
  OBVIOUS
<1> HIDE DEF f, m
<1>7. ASSUME NEW i \in Slots0 PROVE i \in p + 1 .. p + m <=> i - p \in 1 .. m
  BY <1>1, <1>2 DEF Slots0
<1>8. ASSUME NEW i \in Slots0 PROVE IsFree(e[i]) \/ Covered(checksums, e, G, i)
  <2>1. CASE i \in p + 1 .. p + m
    BY <2>1, <1>4, <1>5, <1>6 DEF Covered
  <2>2. CASE i \notin p + 1 .. p + m
    <3>1. e[i] = d[i]
      BY <2>2, <1>3, <1>7
    <3>2. CASE IsFree(d[i])
      BY <3>1, <3>2
    <3>3. CASE ~IsFree(d[i])
      <4>1. Covered(checksums, d, F, i)
        BY <3>3 DEF Tidy
      <4>2. PICK h \in F : \E q, its : Stands(checksums, d, h, q, its) /\ i \in q + 1 .. q + Size(h.name)
        BY <4>1 DEF Covered
      <4>3. PICK q, its : Stands(checksums, d, h, q, its) /\ i \in q + 1 .. q + Size(h.name)
        BY <4>2
      <4>4. \A j \in q + 1 .. q + Size(h.name) : j \in Slots0 /\ ~IsFree(d[j])
        BY <4>3, StandsUsed
      <4>5. \A j \in q + 1 .. q + Size(h.name) : e[j] = d[j]
        BY <4>4, <1>2, <1>3, <1>7
      <4>6. Stands(checksums, e, h, q, its)
        BY <4>3, <4>5, KeptStands
      <4>7. h \in G
        OBVIOUS
      <4> QED BY <4>3, <4>6, <4>7 DEF Covered
    <3> QED BY <3>2, <3>3
  <2> QED BY <2>1, <2>2
<1>9. ASSUME NEW i \in Slots0, e[i].kind = "short"
      PROVE  (e[i] = d[i] /\ e[i].fn # fn /\ e[i].file # id) \/ (i = p + m /\ e[i].fn = fn /\ e[i].file = id)
  <2>1. CASE i - p \in 1 .. m
    <3>1. e[i] = es[i - p] /\ i - p = m
      BY <2>1, <1>1, <1>3, <1>9
    <3>2. i = p + m
      BY <3>1, <1>1, <1>2 DEF Slots0
    <3> QED BY <3>1, <3>2, <1>1
  <2>2. CASE i - p \notin 1 .. m
    BY <2>2, <1>3, <1>9
  <2> QED BY <2>1, <2>2
<1>10. ASSUME NEW i \in Slots0, NEW j \in Slots0, e[i].kind = "short", e[j].kind = "short"
       PROVE  i = j \/ (e[i].fn # e[j].fn /\ e[i].file # e[j].file)
  <2>1. CASE e[i] = d[i] /\ e[j] = d[j]
    BY <2>1, <1>10 DEF Tidy
  <2>2. CASE ~ (e[i] = d[i] /\ e[j] = d[j])
    BY <2>2, <1>9, <1>10
  <2> QED BY <2>1, <2>2
<1>11. ASSUME NEW g \in G, NEW h \in G, SameName(g.name, h.name) PROVE g = h
  <2>1. CASE g \in F /\ h \in F
    BY <2>1, <1>11 DEF Tidy
  <2>2. CASE g = f /\ h \in F
    <3>1. SameName(h.name, g.name)
      BY <1>11 DEF SameName
    <3> QED BY <3>1, <2>2, <1>5
  <2>3. CASE g \in F /\ h = f
    BY <2>3, <1>11, <1>5
  <2> QED BY <2>1, <2>2, <2>3
<1>12. Tidy(checksums, e, G)
  BY <1>8, <1>10, <1>11 DEF Tidy
<1> QED BY <1>12 DEF f

\* It stays tidy without one of its files.
LEMMA TidyRemoved ==
  ASSUME NEW F, FilesOK(F), NEW c, NEW d, NEW o, DirOK(d, o), Tidy(c, d, F),
         NEW h \in F, NEW q, NEW its, Stands(c, d, h, q, its),
         NEW at, NEW blk, Removable(d, at, blk), at + 1 = q + Size(h.name),
         blk = (IF Size(h.name) > 1 THEN q ELSE Nowhere), NEW r, r = Removed(d, at, blk)
  PROVE  Tidy(c, r, F \ {h})
<1> DEFINE t == FirstOf(at, blk)
           m == Size(h.name)
           G == F \ {h}
<1>1. /\ at \in Nat /\ t \in Nat
      /\ \A i \in Slots0 : r[i] = IF i \in t + 1 .. at + 1 THEN Deleted ELSE d[i]
  BY RemovedIs DEF IsRemoved
<1>2. m \in Nat \ {0} /\ q \in Nat
  <2>1. Standing(c, d, h, q, its, m)
    BY StandsIs DEF FilesOK
  <2> HIDE DEF m
  <2> QED BY <2>1 DEF Standing
<1>3. at + 1 = q + m /\ blk = (IF m > 1 THEN q ELSE Nowhere)
  OBVIOUS
<1>4. d[q + m].kind = "short" /\ d[q + m].file = h.file /\ q + m \in Slots0
  BY FoundEntry
<1>5. m = Size(h.name)
  OBVIOUS
<1> HIDE DEF m
<1>6. t = q
  <2>1. q # Nowhere
    BY <1>2 DEF Nowhere
  <2>2. CASE m > 1
    BY <2>1, <2>2, <1>3 DEF FirstOf
  <2>3. CASE ~ (m > 1)
    BY <2>3, <1>1, <1>2, <1>3 DEF FirstOf
  <2> QED BY <2>2, <2>3
<1> HIDE DEF t
<1>7. \A i \in Slots0 : r[i] = IF i \in q + 1 .. q + m THEN Deleted ELSE d[i]
  BY <1>1, <1>3, <1>6
<1>8. Deleted.kind = "deleted"
  BY DEF Deleted
<1>9. ASSUME NEW i \in Slots0 PROVE IsFree(r[i]) \/ Covered(c, r, G, i)
  <2>1. CASE i \in q + 1 .. q + m
    BY <2>1, <1>7, <1>8 DEF IsFree
  <2>2. CASE i \notin q + 1 .. q + m /\ IsFree(d[i])
    BY <2>2, <1>7
  <2>3. CASE i \notin q + 1 .. q + m /\ ~IsFree(d[i])
    <3>1. Covered(c, d, F, i)
      BY <2>3 DEF Tidy
    <3>2. PICK g \in F : \E x, y : Stands(c, d, g, x, y) /\ i \in x + 1 .. x + Size(g.name)
      BY <3>1 DEF Covered
    <3>3. PICK x, y : Stands(c, d, g, x, y) /\ i \in x + 1 .. x + Size(g.name)
      BY <3>2
    <3>4. g # h
      <4> SUFFICES ASSUME g = h PROVE FALSE
        OBVIOUS
      <4>1. d[x + m].kind = "short" /\ d[x + m].file = h.file /\ x + m \in Slots0
        BY <3>3, <1>5, FoundEntry
      <4>2. x + m = q + m
        BY <4>1, <1>4 DEF Tidy
      <4>3. x \in Nat
        BY <3>3, NamesAre DEF Stands
      <4>4. x = q
        BY <4>2, <4>3, <1>2
      <4> QED BY <4>4, <3>3, <2>3, <1>5
    <3>5. ASSUME NEW j \in x + 1 .. x + Size(g.name) PROVE j \in Slots0 /\ j \notin q + 1 .. q + m
      <4>1. j \in Slots0
        BY <3>3, StandsUsed
      <4>2. j \in q + 1 .. q + Size(h.name) => g = h
        BY <3>3, StandApart
      <4> QED BY <4>1, <4>2, <3>4, <1>5
    <3>6. \A j \in x + 1 .. x + Size(g.name) : r[j] = d[j]
      BY <3>5, <1>7
    <3>7. Stands(c, r, g, x, y)
      BY <3>3, <3>6, KeptStands
    <3> QED BY <3>3, <3>4, <3>7 DEF Covered
  <2> QED BY <2>1, <2>2, <2>3
<1>10. ASSUME NEW i \in Slots0, NEW j \in Slots0, r[i].kind = "short", r[j].kind = "short"
       PROVE  i = j \/ (r[i].fn # r[j].fn /\ r[i].file # r[j].file)
  <2>1. r[i] = d[i] /\ r[j] = d[j]
    BY <1>7, <1>8, <1>10
  <2> QED BY <2>1, <1>10 DEF Tidy
<1>11. \A f, g \in G : SameName(f.name, g.name) => f = g
  BY DEF Tidy
<1> QED BY <1>9, <1>10, <1>11 DEF Tidy

\* A directory stays sound when less is asked of it.
LEMMA SoundMore ==
  ASSUME NEW c, NEW d, NEW F, NEW T, NEW n, Sound(c, d, F, T, n), NEW G, G \subseteq F,
         NEW U, T \subseteq U, NEW o \in Nat, n \in Nat, n <= o
  PROVE  Sound(c, d, G, U, o)
<1>1. ASSUME NEW i \in Slots0, EntryOK(d[i], n) PROVE EntryOK(d[i], o)
  <2>1. 1 .. n \subseteq 1 .. o
    OBVIOUS
  <2> QED BY <2>1, <1>1 DEF EntryOK
<1>2. DirOK(d, o)
  BY <1>1 DEF Sound, DirOK
<1> QED BY <1>2 DEF Sound

\* Every directory on the way to a new file f, and the one at its end.
PutWays(c, d, e, F, U, o, f) ==
  /\ \A x \in Cuts(d, e) : Sound(c, x, F, U, o)
  /\ Sound(c, e, F, U, o) /\ Sound(c, e, F \cup {f}, U, o)
  /\ Way(SectorWrites(d, e), d, e, Cuts(d, e)) /\ SectorWrites(d, e) # <<>>

\* On the way to a new file every other file stands, and at the end the new one too.
LEMMA PutWay ==
  ASSUME NEW F, FilesOK(F), NEW T, NEW n \in Nat, NEW o \in Nat, n <= o, NEW d, Sound(checksums, d, F, T, n),
         NEW name \in NameSet, NEW fn, Fits(name) => fn = ShortName(name), NEW id \in 1 .. o,
         NEW es, es = NewEntries(name, fn, id), NEW p, Room(d, p, Size(name)), NEW e, e = Put(d, p, es),
         NEW U, T \subseteq U, id \in U \/ \A i \in Slots0 : d[i].kind = "short" => d[i].file # id
  PROVE  PutWays(checksums, d, e, F, U, o, [name |-> name, file |-> id])
<1> DEFINE m == Size(name)
           f == [name |-> name, file |-> id]
<1>1. DirOK(d, n)
  BY DEF Sound
<1>2. AreNew(es, m, fn, id, o)
  <2>1. m = Size(name)
    OBVIOUS
  <2> HIDE DEF m
  <2> QED BY <2>1, NewKinds
<1>3. /\ p \in 0 .. SlotCount - m /\ SlotCount \in Nat /\ p \in Nat
      /\ \A i \in p + 1 .. p + m : IsFree(d[i])
  BY NamesAre DEF Room
<1>4. m \in Nat \ {0} /\ DOMAIN es = 1 .. m /\ m \in 1 .. m /\ es[m].kind = "short"
  BY <1>2 DEF AreNew
<1>5. e = [i \in Slots0 |-> e[i]] /\ \A i \in Slots0 : e[i] = IF i - p \in DOMAIN es THEN es[i - p] ELSE d[i]
  BY <1>1, <1>3, PutGives
<1>6. ASSUME NEW s \in Nat PROVE Sound(checksums, CutAt(d, e, s), F, U, o)
  <2> DEFINE x == CutAt(d, e, s)
  <2>1. PutTo(d, p, es, x)
    <3> HIDE DEF m
    <3> QED BY <1>1, <1>3, <1>4, PutCut
  <2> HIDE DEF x
  <2>2. Sound(checksums, x, F, U, o)
    BY <2>1, PutSound
  <2> QED BY <2>2 DEF x
<1>7. \A x \in Cuts(d, e) : Sound(checksums, x, F, U, o)
  BY <1>6 DEF Cuts
<1>8. Sound(checksums, e, F, U, o)
  BY <1>5, <1>6, CutLast
<1>9. Stands(checksums, e, f, p, fn)
  BY <1>1, NewStands
<1>10. Sound(checksums, e, F \cup {f}, U, o)
  <2> HIDE DEF f
  <2> QED BY <1>8, <1>9 DEF Sound
<1>11. d = [i \in Slots0 |-> d[i]]
  BY <1>1 DEF DirOK
<1>12. d # e
  <2> HIDE DEF m
  <2>1. p + m \in Slots0 /\ (p + m) - p = m /\ p + m \in p + 1 .. p + m
    BY <1>3, <1>4 DEF Slots0
  <2>2. e[p + m] = es[m] /\ IsFree(d[p + m])
    BY <2>1, <1>3, <1>4, <1>5
  <2> QED BY <2>2, <1>4 DEF IsFree
<1>13. Way(SectorWrites(d, e), d, e, Cuts(d, e)) /\ SectorWrites(d, e) # <<>>
  BY <1>5, <1>11, <1>12, SectorWritesAre
<1> HIDE DEF f
<1>14. PutWays(checksums, d, e, F, U, o, f)
  BY <1>7, <1>8, <1>10, <1>13 DEF PutWays
<1> QED BY <1>14 DEF f

\* Every directory on the way to one without a file's entries.
RemoveWays(c, d, r, F, T, o) ==
  /\ \A x \in Cuts(d, r) : Sound(c, x, F, T, o)
  /\ Sound(c, r, F, T, o)
  /\ Way(SectorWrites(d, r), d, r, Cuts(d, r))

\* On the way to a directory without a file every other file stands.
LEMMA RemoveWay ==
  ASSUME NEW F, FilesOK(F), NEW T, NEW o, NEW d, Sound(checksums, d, F, T, o),
         NEW at, NEW blk, Removable(d, at, blk), \A f \in F : f.file # d[at + 1].file,
         NEW r, r = Removed(d, at, blk)
  PROVE  RemoveWays(checksums, d, r, F, T, o)
<1>1. DirOK(d, o)
  BY DEF Sound
<1>2. r = [i \in Slots0 |-> r[i]] /\ d = [i \in Slots0 |-> d[i]]
  <2>1. r = [i \in Slots0 |-> r[i]]
    BY <1>1, RemovedIs DEF IsRemoved
  <2> QED BY <2>1, <1>1 DEF DirOK
<1>3. ASSUME NEW s \in Nat PROVE Sound(checksums, CutAt(d, r, s), F, T, o)
  <2> DEFINE x == CutAt(d, r, s)
  <2>1. x = [i \in Slots0 |-> x[i]] /\ \A i \in Slots0 : x[i] = d[i] \/ x[i] = r[i]
    BY DEF CutAt
  <2> HIDE DEF x
  <2>2. Sound(checksums, x, F, T, o)
    BY <2>1, RemoveSound
  <2> QED BY <2>2 DEF x
<1>4. \A x \in Cuts(d, r) : Sound(checksums, x, F, T, o)
  BY <1>3 DEF Cuts
<1>5. Sound(checksums, r, F, T, o)
  BY <1>2, <1>3, CutLast
<1>6. Way(SectorWrites(d, r), d, r, Cuts(d, r))
  BY <1>2, SectorWritesAre
<1> QED BY <1>4, <1>5, <1>6 DEF RemoveWays

\* Nothing in the directory is taken for a new file.
Unique(d, F, name, fn) ==
  /\ \A i \in Slots0 : d[i].kind = "short" => d[i].fn # fn
  /\ \A g \in F : ~SameName(g.name, name)

\* A name that leads to no file is not that of another, and its short name is
\* not that of another either.
LEMMA NewUnique ==
  ASSUME NEW F, FilesOK(F), NEW c, NEW d, NEW T, NEW o, Sound(c, d, F, T, o), Tidy(c, d, F), NEW name \in NameSet,
         \A f \in F : \A q, its : Stands(c, d, f, q, its) => ~Leads(name, f, its),
         NEW fn, (Fits(name) /\ fn = ShortName(name)) \/ \A i \in Slots0 : d[i].kind = "short" => d[i].fn # fn
  PROVE  Unique(d, F, name, fn)
<1>1. ASSUME NEW g \in F, SameName(g.name, name) PROVE FALSE
  <2>1. PICK q, its : Stands(c, d, g, q, its)
    BY DEF Sound
  <2>2. SameName(name, g.name)
    BY <1>1 DEF SameName
  <2> QED BY <2>1, <2>2 DEF Leads
<1>2. ASSUME NEW i \in Slots0, d[i].kind = "short", d[i].fn = fn PROVE FALSE
  <2>1. Fits(name) /\ fn = ShortName(name)
    BY <1>2
  <2>2. Covered(c, d, F, i)
    BY <1>2 DEF Tidy, IsFree
  <2>3. PICK f \in F : \E q, its : Stands(c, d, f, q, its) /\ i \in q + 1 .. q + Size(f.name)
    BY <2>2 DEF Covered
  <2>4. PICK q, its : Stands(c, d, f, q, its) /\ i \in q + 1 .. q + Size(f.name)
    BY <2>3
  <2>5. i = q + Size(f.name)
    BY <1>2, <2>4, StandsUsed
  <2>6. d[i].fn = its
    BY <2>4, <2>5, FoundEntry
  <2> QED BY <1>2, <2>1, <2>4, <2>6 DEF Leads
<1> QED BY <1>1, <1>2 DEF Unique

\* The short name that a new entry gets.
LEMMA ShortIsNew ==
  ASSUME NEW o \in Nat, DirOK(dir, o), EndsLast(dir), NEW name \in NameSet, NewShort(name) # {},
         NEW fn, fn = CHOOSE x \in NewShort(name) : TRUE
  PROVE  /\ Fits(name) => fn = ShortName(name)
         /\ \/ Fits(name) /\ fn = ShortName(name)
            \/ \A i \in Slots0 : dir[i].kind = "short" => dir[i].fn # fn
<1>1. fn \in NewShort(name)
  OBVIOUS
<1>2. CASE Fits(name)
  BY <1>1, <1>2 DEF NewShort
<1>3. CASE ~Fits(name)
  <2>1. PICK k \in Number(ShortName(name)) : fn = gen_numname(ShortName(name), k)
    BY <1>1, <1>3 DEF NewShort
  <2>2. dir_find(dir, LfnBuf, fn, {"short"}).at = Nowhere
    BY <2>1 DEF Number
  <2> QED BY <1>3, <2>2, FindsShort
<1> QED BY <1>2, <1>3

-----------------------------------------------------------------------------
(* The inductive invariant.                                                *)

\* The files F are there and the call in progress adds O, but not those of T.
Recorded(F, O, T, n) ==
  /\ n \in Nat /\ IsFiniteSet(F) /\ IsFiniteSet(O) /\ FilesOK(F \cup O)
  /\ Ids(F \cup O) \subseteq (1 .. n) \ T /\ Ids(F) \cap Ids(O) = {}

\* The writes u lead from d to e by the directories of K.
Course(d, u, c, F, O, T, x, n, e, K) ==
  /\ Way(u, d, e, K)
  /\ \A y \in K : Sound(c, y, F, T \cup Ids(O), n)
  /\ Sound(c, e, F \cup O, T, n)
  /\ x = TRUE \/ Tidy(c, e, F \cup O)

\* The invariant of the directory d with u left to write, the buffer b, c values of
\* the checksum, the files F and O as above, the doubtful ones T, whether the power
\* failed, and n calls.
Held(d, u, b, c, F, O, T, x, n) ==
  /\ BufType(b) /\ x \in BOOLEAN /\ Recorded(F, O, T, n)
  /\ u = <<>> => O = {}
  /\ x = TRUE \/ T = {}
  /\ \E e, K : Course(d, u, c, F, O, T, x, n, e, K)

NamesInv == Held(dir, unwritten, LfnBuf, checksums, files, outcome, doubtful, crashed, ops)

\* The same between two calls.
Resting(d, b, c, F, O, T, x, n) ==
  /\ O = {} /\ Recorded(F, {}, T, n) /\ n \in Nat /\ FilesOK(F) /\ IsFiniteSet(F)
  /\ Ids(F) \subseteq (1 .. n) \ T
  /\ BufType(b) /\ x \in BOOLEAN /\ (x = TRUE \/ T = {})
  /\ Sound(c, d, F, T, n) /\ (x = TRUE \/ Tidy(c, d, F))

\* The invariant between two calls.
LEMMA HeldAtRest ==
  ASSUME NEW d, NEW b, NEW c, NEW F, NEW O, NEW T, NEW x, NEW n, Held(d, <<>>, b, c, F, O, T, x, n)
  PROVE  Resting(d, b, c, F, O, T, x, n)
<1>1. PICK e, K : Course(d, <<>>, c, F, O, T, x, n, e, K)
  BY DEF Held
<1>2. O = {} /\ F \cup O = F
  BY DEF Held
<1>3. Way(<<>>, d, e, K)
  BY <1>1 DEF Course
<1>4. d = e
  BY <1>3, WayGoesOn
<1>5. Sound(c, d, F, T, n) /\ (x = TRUE \/ Tidy(c, d, F))
  BY <1>1, <1>2, <1>4 DEF Course
<1>6. Recorded(F, {}, T, n)
  BY <1>2 DEF Held
<1>7. n \in Nat /\ FilesOK(F) /\ IsFiniteSet(F) /\ Ids(F) \subseteq (1 .. n) \ T
  <2>1. F \cup {} = F
    OBVIOUS
  <2> QED BY <2>1, <1>6 DEF Recorded
<1>8. BufType(b) /\ x \in BOOLEAN /\ (x = TRUE \/ T = {})
  BY DEF Held
<1> QED BY <1>2, <1>5, <1>6, <1>7, <1>8 DEF Resting

\* A directory in which the files stand and no call is in progress.
LEMMA RestsHeld ==
  ASSUME NEW d, NEW b, BufType(b), NEW c, NEW F, NEW T, NEW x \in BOOLEAN, NEW n, Recorded(F, {}, T, n),
         x = TRUE \/ T = {}, Sound(c, d, F, T, n), x = TRUE \/ Tidy(c, d, F)
  PROVE  Held(d, <<>>, b, c, F, {}, T, x, n)
<1> DEFINE D == [k \in {0} |-> d]
<1>1. D[0] = d /\ Len(<<>>) = 0 /\ 1 .. 0 = {} /\ 0 .. 0 = {0}
  OBVIOUS
<1> HIDE DEF D
<1>2. Along(<<>>, d, d, {d}, D)
  BY <1>1 DEF Along
<1>3. <<>> \in Seq({})
  OBVIOUS
<1>4. Way(<<>>, d, d, {d})
  BY <1>2, <1>3 DEF Way
<1>5. F \cup {} = F /\ Ids({}) = {} /\ T \cup {} = T
  BY DEF Ids
<1>6. Course(d, <<>>, c, F, {}, T, x, n, d, {d})
  BY <1>4, <1>5 DEF Course
<1> QED BY <1>6 DEF Held

\* Another call, another buffer.
LEMMA HeldLater ==
  ASSUME NEW d, NEW b, NEW c, NEW F, NEW O, NEW T, NEW x, NEW n, Held(d, <<>>, b, c, F, O, T, x, n),
         NEW a, BufType(a)
  PROVE  Held(d, <<>>, a, c, F, O, T, x, n + 1)
<1>0. Resting(d, b, c, F, O, T, x, n)
  BY HeldAtRest
<1>1. /\ O = {} /\ Recorded(F, {}, T, n) /\ n \in Nat /\ x \in BOOLEAN /\ (x = TRUE \/ T = {})
      /\ Sound(c, d, F, T, n) /\ (x = TRUE \/ Tidy(c, d, F))
  BY <1>0 DEF Resting
<1>2. n + 1 \in Nat /\ n <= n + 1 /\ 1 .. n \subseteq 1 .. n + 1
  BY <1>1
<1>3. Sound(c, d, F, T, n + 1)
  BY <1>1, <1>2, SoundMore
<1>4. Recorded(F, {}, T, n + 1)
  BY <1>1, <1>2 DEF Recorded
<1>5. Held(d, <<>>, a, c, F, {}, T, x, n + 1)
  BY <1>1, <1>3, <1>4, RestsHeld
<1> QED BY <1>1, <1>5

\* A write, and with the last one the files of the call.
LEMMA HeldWritten ==
  ASSUME NEW d, NEW u, u # <<>>, NEW b, NEW c, NEW F, NEW O, NEW T, NEW x, NEW n,
         Held(d, u, b, c, F, O, T, x, n), NEW v, v = Tail(u), NEW e, e = Written(d, Head(u))
  PROVE  /\ v # <<>> => Held(e, v, b, c, F, O, T, x, n)
         /\ v = <<>> => Held(e, v, b, c, F \cup O, {}, T, x, n)
<1>1. PICK g, K : Course(d, u, c, F, O, T, x, n, g, K)
  BY DEF Held
<1>2. Way(v, e, g, K)
  BY <1>1, WayGoesOn DEF Course
<1>3. ASSUME v # <<>> PROVE Held(e, v, b, c, F, O, T, x, n)
  <2>1. Course(e, v, c, F, O, T, x, n, g, K)
    BY <1>1, <1>2 DEF Course
  <2> QED BY <2>1, <1>3 DEF Held
<1>4. ASSUME v = <<>> PROVE Held(e, v, b, c, F \cup O, {}, T, x, n)
  <2>1. e = g
    BY <1>2, <1>4, WayGoesOn
  <2>2. Sound(c, e, F \cup O, T, n) /\ (x = TRUE \/ Tidy(c, e, F \cup O))
    BY <2>1, <1>1 DEF Course
  <2>3. BufType(b) /\ x \in BOOLEAN /\ (x = TRUE \/ T = {}) /\ Recorded(F, O, T, n)
    BY DEF Held
  <2>4. Recorded(F \cup O, {}, T, n)
    <3>1. IsFiniteSet(F \cup O) /\ IsFiniteSet({})
      BY <2>3, FS_Union, FS_EmptySet DEF Recorded
    <3>2. (F \cup O) \cup {} = F \cup O /\ Ids({}) = {}
      BY DEF Ids
    <3> QED BY <2>3, <3>1, <3>2 DEF Recorded
  <2>5. Held(e, <<>>, b, c, F \cup O, {}, T, x, n)
    BY <2>2, <2>3, <2>4, RestsHeld
  <2> QED BY <2>5, <1>4
<1> QED BY <1>3, <1>4

\* The power fails.
LEMMA HeldCrashed ==
  ASSUME NEW d, NEW u, NEW b, NEW c, NEW F, NEW O, NEW T, NEW x, NEW n,
         Held(d, u, b, c, F, O, T, x, n), NEW a, BufType(a)
  PROVE  Held(d, <<>>, a, c, F, {}, T \cup Ids(O), TRUE, n)
<1>1. PICK e, K : Course(d, u, c, F, O, T, x, n, e, K)
  BY DEF Held
<1>2. d \in K
  BY <1>1, WayGoesOn DEF Course
<1>3. Sound(c, d, F, T \cup Ids(O), n)
  BY <1>1, <1>2 DEF Course
<1>4. Recorded(F, {}, T \cup Ids(O), n)
  <2>1. Recorded(F, O, T, n)
    BY DEF Held
  <2>2. IsFiniteSet({}) /\ F \cup {} = F /\ Ids({}) = {} /\ Ids(F) \subseteq Ids(F \cup O)
    BY FS_EmptySet DEF Ids
  <2> QED BY <2>1, <2>2 DEF Recorded, FilesOK
<1> QED BY <1>3, <1>4, RestsHeld

\* The files G stay and those of O are to come when f is registered.
Renewed(F, T, name, id, G, O, f) ==
  /\ f = [name |-> name, file |-> id]
  /\ G = {g \in F : g.file # id}
  /\ O = IF id \in T THEN {} ELSE {f}

\* The files when another is registered under the number id.
LEMMA RecordedNew ==
  ASSUME NEW F, NEW T, NEW n, Recorded(F, {}, T, n), NEW id \in 1 .. n + 1, NEW name \in NameSet,
         NEW G, NEW O, NEW f, Renewed(F, T, name, id, G, O, f)
  PROVE  Recorded(G, O, T, n + 1)
<1>0. G = {g \in F : g.file # id} /\ O = IF id \in T THEN {} ELSE {f}
  BY DEF Renewed
<1>1. n \in Nat /\ IsFiniteSet(F) /\ FilesOK(F) /\ Ids(F) \subseteq (1 .. n) \ T
  <2>1. F \cup {} = F
    OBVIOUS
  <2> QED BY <2>1 DEF Recorded
<1>2. IsFiniteSet(G) /\ IsFiniteSet(O)
  <2>1. G \subseteq F
    BY <1>0
  <2> QED BY <1>0, <1>1, <2>1, FS_Subset, FS_EmptySet, FS_Singleton
<1>3. f.name = name /\ f.file = id
  BY DEF Renewed
<1>4. O = IF id \in T THEN {} ELSE {f}
  BY <1>0
<1>5. FilesOK(G \cup O)
  <2>1. \A g \in G \cup O : (g \in F /\ g.file # id) \/ g = f
    BY <1>0
  <2> QED BY <2>1, <1>1, <1>3 DEF FilesOK
<1>6. Ids(G) \subseteq ((1 .. n + 1) \ T) \ {id} /\ Ids(O) \subseteq (1 .. n + 1) \ T /\ Ids(O) \subseteq {id}
  <2>1. 1 .. n \subseteq 1 .. n + 1
    BY <1>1
  <2> QED BY <2>1, <1>0, <1>1, <1>3 DEF Ids
<1>7. Ids(G \cup O) = Ids(G) \cup Ids(O)
  BY DEF Ids
<1>8. Ids(G \cup O) \subseteq (1 .. n + 1) \ T /\ Ids(G) \cap Ids(O) = {}
  BY <1>6, <1>7
<1>9. n + 1 \in Nat
  BY <1>1
<1> QED BY <1>2, <1>5, <1>8, <1>9 DEF Recorded

\* The writes u lead from d by the directories of K to e, where f is added.
NewCourse(d, u, c, G, T, id, f, x, o, e, K) ==
  /\ u # <<>> /\ Way(u, d, e, K)
  /\ \A y \in K : Sound(c, y, G, T \cup {id}, o)
  /\ Sound(c, e, G, T, o) /\ (id \in T \/ Sound(c, e, G \cup {f}, T, o))
  /\ x = TRUE \/ Tidy(c, e, G \cup {f})

\* A call that adds a file keeps the invariant.
LEMMA HeldNew ==
  ASSUME NEW F, NEW T, NEW n, Recorded(F, {}, T, n), NEW id \in 1 .. n + 1, NEW name \in NameSet,
         NEW G, NEW O, NEW f, Renewed(F, T, name, id, G, O, f),
         NEW b, BufType(b), NEW x \in BOOLEAN, x = TRUE \/ T = {},
         NEW c, NEW d, NEW u, NEW e, NEW K, NewCourse(d, u, c, G, T, id, f, x, n + 1, e, K)
  PROVE  Held(d, u, b, c, G, O, T, x, n + 1)
<1>1. Recorded(G, O, T, n + 1)
  BY RecordedNew
<1>2. f.file = id /\ O = IF id \in T THEN {} ELSE {f}
  BY DEF Renewed
<1>3. T \cup Ids(O) = T \cup {id}
  BY <1>2 DEF Ids
<1>4. Sound(c, e, G \cup O, T, n + 1) /\ (x = TRUE \/ Tidy(c, e, G \cup O))
  <2>1. CASE id \in T
    <3>1. G \cup O = G /\ x = TRUE
      BY <2>1, <1>2
    <3> QED BY <3>1 DEF NewCourse
  <2>2. CASE id \notin T
    <3>1. O = {f}
      BY <2>2, <1>2
    <3> QED BY <3>1, <2>2 DEF NewCourse
  <2> QED BY <2>1, <2>2
<1>5. Course(d, u, c, G, O, T, x, n + 1, e, K)
  BY <1>3, <1>4 DEF Course, NewCourse
<1> QED BY <1>1, <1>5 DEF Held, NewCourse

\* What is found is a short entry with its long entries in front of it.
LEMMA FoundRemovable ==
  ASSUME NEW o \in Nat, DirOK(dir, o), NEW name \in NameSet, NEW it, it = Find(name), Found(it)
  PROVE  Removable(dir, it.at, it.blk) /\ dir[it.at + 1].file \in 1 .. o
<1>1. Shape(dir, SlotCount, it)
  BY SearchShape, FindIs
<1>2. it.stop \in BOOLEAN
  BY <1>1 DEF Shape, IsSearch
<1>3. it.at \in 0 .. SlotCount - 1 /\ dir[it.at + 1].kind = "short" /\ LfnBehind(dir, it.at, it.blk)
  BY <1>1, <1>2 DEF Shape, Found
<1>4. it.at \in Nat /\ it.at + 1 \in Slots0
  BY <1>3, NamesAre DEF Slots0
<1> QED BY <1>3, <1>4 DEF Removable, DirOK, EntryOK

\* What is put and written for a new file.
Creation(name, id, fn, e, u) ==
  /\ name \in NameSet /\ NewShort(name) # {} /\ Gaps(dir, Size(name)) # {}
  /\ fn = CHOOSE y \in NewShort(name) : TRUE
  /\ e = Put(dir, Gap(dir, Size(name)), NewEntries(name, fn, id))
  /\ u = Then(SectorWrites(dir, e), SectorWrites(e, e))

\* Registering a new file.
LEMMA CreateHeld ==
  ASSUME NEW b, NEW c, c = checksums, NEW F, NEW O, NEW T, NEW x, NEW n,
         Held(dir, <<>>, b, c, F, O, T, x, n),
         NEW a, BufType(a), NEW name, NEW fn, NEW e, NEW u, Creation(name, n + 1, fn, e, u),
         x = TRUE \/ \A f \in F : \A q, its : Stands(c, dir, f, q, its) => ~Leads(name, f, its),
         NEW G, NEW P, NEW f, Renewed(F, T, name, n + 1, G, P, f)
  PROVE  Held(dir, u, a, c, G, P, T, x, n + 1)
<1> DEFINE m == Size(name)
           id == n + 1
           es == NewEntries(name, fn, id)
           p == Gap(dir, m)
<1>0. f = [name |-> name, file |-> id] /\ G = {g \in F : g.file # id}
  BY DEF Renewed
<1>b. /\ name \in NameSet /\ NewShort(name) # {} /\ Gaps(dir, m) # {}
      /\ fn = CHOOSE y \in NewShort(name) : TRUE
      /\ e = Put(dir, p, es)
      /\ u = Then(SectorWrites(dir, e), SectorWrites(e, e))
  BY Zenon DEF Creation
<1>1. /\ Recorded(F, {}, T, n) /\ n \in Nat /\ FilesOK(F) /\ IsFiniteSet(F)
      /\ Ids(F) \subseteq (1 .. n) \ T
      /\ x \in BOOLEAN /\ (x = TRUE \/ T = {})
      /\ Sound(c, dir, F, T, n) /\ (x = TRUE \/ Tidy(c, dir, F))
  <2>1. Resting(dir, b, c, F, O, T, x, n)
    BY HeldAtRest
  <2> QED BY <2>1 DEF Resting
<1>2. id \in Nat /\ n <= id /\ id \in 1 .. id /\ id \notin 1 .. n
  BY <1>1
<1>3. G = F
  <2>1. \A g \in F : g.file \in 1 .. n
    BY <1>1 DEF Ids
  <2> QED BY <2>1, <1>0, <1>2
<1>4. DirOK(dir, n) /\ EndsLast(dir)
  BY <1>1 DEF Sound
<1>5. \A i \in Slots0 : dir[i].kind = "short" => dir[i].file # id
  BY <1>2, <1>4 DEF DirOK, EntryOK
<1>6. /\ Fits(name) => fn = ShortName(name)
      /\ \/ Fits(name) /\ fn = ShortName(name)
         \/ \A i \in Slots0 : dir[i].kind = "short" => dir[i].fn # fn
  BY <1>b, <1>1, <1>4, ShortIsNew
<1>7. m \in Nat \ {0}
  BY <1>b, SizeIs
<1>8. Room(dir, p, m)
  <2> HIDE DEF m
  <2> QED BY <1>b, <1>4, <1>7, RoomIs
<1> HIDE DEF id, es, p, m
<1>9. es = NewEntries(name, fn, id) /\ e = Put(dir, p, es) /\ Room(dir, p, Size(name))
  BY <1>b, <1>8 DEF es, m, id
<1>10. /\ \A y \in Cuts(dir, e) : Sound(c, y, F, T, id)
       /\ Sound(c, e, F, T, id)
       /\ Sound(c, e, F \cup {f}, T, id)
       /\ Way(SectorWrites(dir, e), dir, e, Cuts(dir, e)) /\ SectorWrites(dir, e) # <<>>
  <2>1. Sound(checksums, dir, F, T, n) /\ T \subseteq T
    BY <1>1
  <2>2. PutWays(checksums, dir, e, F, T, id, [name |-> name, file |-> id])
    BY <2>1, <1>b, <1>1, <1>2, <1>5, <1>6, <1>9, PutWay
  <2> QED BY <2>2, <1>0 DEF PutWays
<1>11. Way(SectorWrites(e, e), e, e, Cuts(e, e)) /\ \A y \in Cuts(e, e) : y = e
  <2>1. e = [i \in Slots0 |-> e[i]]
    BY <1>10 DEF Sound, DirOK
  <2>2. \A s \in Nat : CutAt(e, e, s) = e
    BY <2>1 DEF CutAt
  <2>3. \A y \in Cuts(e, e) : y = e
    BY <2>2 DEF Cuts
  <2> QED BY <2>1, <2>3, SectorWritesAre
<1> DEFINE K == Cuts(dir, e) \cup Cuts(e, e)
<1>12. Way(u, dir, e, K) /\ u # <<>>
  BY <1>b, <1>10, <1>11, ThenWay
<1>13. \A y \in K : Sound(c, y, F, T, id)
  BY <1>10, <1>11
<1>14. \A y \in K : Sound(c, y, F, T \cup {id}, id)
  <2> HIDE DEF K
  <2> QED BY <1>2, <1>13, SoundMore
<1>15. x = TRUE \/ Tidy(c, e, F \cup {f})
  <2> SUFFICES ASSUME x # TRUE PROVE Tidy(checksums, e, F \cup {f})
    OBVIOUS
  <2>1. Tidy(c, dir, F) /\ \A g \in F : \A q, its : Stands(c, dir, g, q, its) => ~Leads(name, g, its)
    BY <1>1
  <2>2. Unique(dir, F, name, fn)
    BY <2>1, <1>b, <1>1, <1>6, NewUnique
  <2>3. /\ \A i \in Slots0 : dir[i].kind = "short" => dir[i].fn # fn /\ dir[i].file # id
        /\ \A g \in F : ~SameName(g.name, name)
    BY <2>2, <1>5 DEF Unique
  <2>4. Tidy(checksums, e, F \cup {[name |-> name, file |-> id]})
    BY <2>1, <2>3, <1>b, <1>1, <1>2, <1>4, <1>6, <1>9, TidyPut
  <2> QED BY <2>4, <1>0
<1> HIDE DEF K
<1>16. Held(dir, u, a, c, G, P, T, x, n + 1)
  <2>1. id = n + 1 /\ Renewed(F, T, name, id, G, P, f)
    BY DEF id
  <2>2. NewCourse(dir, u, c, G, T, id, f, x, n + 1, e, K)
    BY <2>1, <1>3, <1>10, <1>12, <1>14, <1>15 DEF NewCourse
  <2>3. id \in 1 .. n + 1
    BY <2>1, <1>2
  <2>4. Recorded(F, {}, T, n) /\ x \in BOOLEAN /\ (x = TRUE \/ T = {}) /\ BufType(a) /\ name \in NameSet
    BY <1>1, <1>b
  <2> QED BY ONLY <2>1, <2>2, <2>3, <2>4, HeldNew, Zenon
<1> QED BY <1>16

\* What a name is found to be between two calls is the file it leads to.
FoundFile(h, q, its, n, it) ==
  /\ Stands(checksums, dir, h, q, its) /\ Leads(n, h, its)
  /\ it.at + 1 = q + Size(h.name) /\ it.blk = (IF Size(h.name) > 1 THEN q ELSE Nowhere)

\* What is removed for a name, and the files that stay.
Removal(name, it, r, F, G) ==
  /\ name \in NameSet /\ it = Find(name) /\ Found(it) /\ r = Removed(dir, it.at, it.blk)
  /\ G = {g \in F : g.file # dir[it.at + 1].file}

\* Removing a file.
LEMMA UnlinkHeld ==
  ASSUME NEW c, c = checksums, NEW F, NEW O, NEW T, NEW x, NEW n,
         Held(dir, <<>>, LfnBuf, c, F, O, T, x, n),
         NEW a, BufType(a), NEW name, NEW it, NEW r, NEW G, Removal(name, it, r, F, G)
  PROVE  Held(dir, SectorWrites(dir, r), a, c, G, {}, T, x, n + 1)
<1> DEFINE id == dir[it.at + 1].file
           u == SectorWrites(dir, r)
<1>0. Resting(dir, LfnBuf, c, F, O, T, x, n)
  BY HeldAtRest
<1>b. /\ name \in NameSet /\ it = Find(name) /\ Found(it) /\ r = Removed(dir, it.at, it.blk)
      /\ G = {g \in F : g.file # dir[it.at + 1].file}
  BY Zenon DEF Removal
<1>1. /\ Recorded(F, {}, T, n) /\ n \in Nat /\ FilesOK(F) /\ IsFiniteSet(F)
      /\ Ids(F) \subseteq (1 .. n) \ T /\ BufType(LfnBuf)
      /\ x \in BOOLEAN /\ (x = TRUE \/ T = {})
      /\ Sound(c, dir, F, T, n) /\ (x = TRUE \/ Tidy(c, dir, F))
  BY <1>0 DEF Resting
<1>2. DirOK(dir, n)
  BY <1>1 DEF Sound
<1>3. Removable(dir, it.at, it.blk)
  BY <1>b, <1>1, <1>2, FoundRemovable
<1>4. G \subseteq F /\ (\A g \in G : g.file # dir[it.at + 1].file) /\ FilesOK(G) /\ IsFiniteSet(G)
  <2>1. G \subseteq F
    BY <1>b
  <2>2. IsFiniteSet(G)
    BY <1>1, <2>1, FS_Subset
  <2> QED BY <2>1, <2>2, <1>b, <1>1 DEF FilesOK
<1>5. Sound(checksums, dir, G, T, n + 1) /\ n + 1 \in Nat
  <2>1. n + 1 \in Nat /\ n <= n + 1
    BY <1>1
  <2> QED BY <2>1, <1>1, <1>4, SoundMore
<1>6. RemoveWays(checksums, dir, r, G, T, n + 1)
  BY <1>b, <1>3, <1>4, <1>5, RemoveWay
<1>7. x = TRUE \/ Tidy(c, r, G)
  <2> SUFFICES ASSUME x # TRUE PROVE Tidy(c, r, G)
    OBVIOUS
  <2>1. Tidy(checksums, dir, F) /\ Sound(checksums, dir, F, T, n)
    BY <1>1
  <2>2. \E h \in F : \E q, its :
          /\ Stands(checksums, dir, h, q, its) /\ Leads(name, h, its)
          /\ it.at + 1 = q + Size(h.name) /\ it.blk = IF Size(h.name) > 1 THEN q ELSE Nowhere
    BY <2>1, <1>b, <1>1, FoundIs
  <2>3. PICK h \in F : \E q, its : FoundFile(h, q, its, name, it)
    BY <2>2 DEF FoundFile
  <2>4. PICK q, its : FoundFile(h, q, its, name, it)
    BY <2>3
  <2>5. dir[it.at + 1].file = h.file
    <3>1. dir[q + Size(h.name)].file = h.file
      BY <2>4, <1>1, FoundEntry DEF FoundFile
    <3> QED BY <3>1, <2>4 DEF FoundFile
  <2>6. G = F \ {h}
    BY <2>5, <1>b, <1>1 DEF FilesOK
  <2>7. Tidy(c, r, F \ {h})
    BY <2>1, <2>4, <1>b, <1>1, <1>2, <1>3, TidyRemoved DEF FoundFile
  <2> QED BY <2>6, <2>7
<1>8. Recorded(G, {}, T, n + 1)
  <2>1. Ids(G) \subseteq Ids(F) /\ Ids({}) = {} /\ G \cup {} = G /\ F \cup {} = F /\ 1 .. n \subseteq 1 .. n + 1
    BY <1>1, <1>4 DEF Ids
  <2> QED BY <2>1, <1>1, <1>4, <1>5, FS_EmptySet DEF Recorded
<1>9. Course(dir, u, c, G, {}, T, x, n + 1, r, Cuts(dir, r))
  <2>1. Ids({}) = {} /\ T \cup {} = T /\ G \cup {} = G
    BY DEF Ids
  <2> QED BY <2>1, <1>6, <1>7 DEF Course, RemoveWays
<1> QED BY <1>1, <1>8, <1>9 DEF Held

\* No other file has the new name of a file.
LEMMA RenameUnique ==
  ASSUME NEW F, FilesOK(F), NEW o \in Nat, DirOK(dir, o), EndsLast(dir), Tidy(checksums, dir, F),
         NEW old \in NameSet, NEW it, NEW h \in F, NEW q, NEW its, FoundFile(h, q, its, old, it),
         NEW new \in NameSet, NEW b, BufType(b), NEW buf, buf = InBuffer(b, new),
         NEW other, other = FindIn(buf, new), other.at = Nowhere \/ other.at = it.at,
         NEW f \in F \ {h}, NEW p, NEW fn, Stands(checksums, dir, f, p, fn)
  PROVE  ~Leads(new, f, fn)
<1>1. other = dir_find(dir, buf, ShortName(new), By(new))
  BY DEF FindIn, By
<1>2. Exact(checksums, dir, F, new, buf, SlotCount, other)
  BY <1>1, FindsExactly
<1>3. CASE other.at = Nowhere
  <2>1. p + Size(f.name) <= SlotCount
    <3>1. p \in 0 .. SlotCount - Size(f.name) /\ SlotCount \in Nat /\ Size(f.name) \in Nat
      BY NamesAre, SizeIs DEF Stands, FilesOK
    <3> HIDE DEF Size
    <3> QED BY <3>1
  <2> QED BY <2>1, <1>2, <1>3 DEF Exact
<1>4. CASE other.at # Nowhere
  <2>1. PICK g \in F : \E t, gn :
          Stands(checksums, dir, g, t, gn) /\ Leads(new, g, gn) /\ other.at + 1 = t + Size(g.name)
    BY <1>2, <1>4 DEF Exact
  <2>2. PICK t, gn : Stands(checksums, dir, g, t, gn) /\ Leads(new, g, gn) /\ other.at + 1 = t + Size(g.name)
    BY <2>1
  <2>3. dir[it.at + 1].file = g.file
    <3>1. dir[t + Size(g.name)].file = g.file
      BY <2>2, FoundEntry
    <3> QED BY <3>1, <2>2, <1>4
  <2>4. dir[it.at + 1].file = h.file
    <3>1. dir[q + Size(h.name)].file = h.file
      BY FoundEntry DEF FoundFile
    <3> QED BY <3>1 DEF FoundFile
  <2>5. g = h
    BY <2>3, <2>4 DEF FilesOK
  <2>6. Leads(new, f, fn) => f = g
    BY <2>2, LeadsToOne
  <2> QED BY <2>5, <2>6
<1> QED BY <1>3, <1>4

\* The entry of a file after one under its new name has been put.
LEMMA RenameTidy ==
  ASSUME NEW F, FilesOK(F), NEW T, NEW n \in Nat, Sound(checksums, dir, F, T, n), Tidy(checksums, dir, F),
         BufType(LfnBuf), NEW old \in NameSet, NEW it, it = Find(old), Found(it),
         NEW new \in NameSet, NEW b, BufType(b), NEW other, other = FindIn(InBuffer(b, new), new),
         other.at = Nowhere \/ other.at = it.at,
         NEW r, r = Removed(dir, it.at, it.blk),
         NEW G, NEW P, NEW f, NEW id, Renewed(F, T, new, id, G, P, f), Sound(checksums, r, G, T, n),
         NEW fn, Fits(new) => fn = ShortName(new),
         (Fits(new) /\ fn = ShortName(new)) \/ \A i \in Slots0 : dir[i].kind = "short" => dir[i].fn # fn,
         id = dir[it.at + 1].file, \A i \in Slots0 : r[i].kind = "short" => r[i].file # id,
         NEW es, es = NewEntries(new, fn, id), NEW p, Room(r, p, Size(new)), NEW e, e = Put(r, p, es)
  PROVE  Tidy(checksums, e, G \cup {f})
<1>0. f = [name |-> new, file |-> id] /\ G = {g \in F : g.file # dir[it.at + 1].file}
  BY DEF Renewed
<1>1. DirOK(dir, n) /\ EndsLast(dir)
  BY DEF Sound
<1>2. Removable(dir, it.at, it.blk) /\ id \in 1 .. n
  BY <1>1, FoundRemovable
<1>3. \E h \in F : \E q, its :
        /\ Stands(checksums, dir, h, q, its) /\ Leads(old, h, its)
        /\ it.at + 1 = q + Size(h.name) /\ it.blk = IF Size(h.name) > 1 THEN q ELSE Nowhere
  BY FoundIs
<1>4. PICK h \in F : \E q, its : FoundFile(h, q, its, old, it)
  BY <1>3 DEF FoundFile
<1>5. PICK q, its : FoundFile(h, q, its, old, it)
  BY <1>4
<1>6. h.file = id
  <2>1. dir[q + Size(h.name)].file = h.file
    BY <1>5, FoundEntry DEF FoundFile
  <2> QED BY <2>1, <1>5 DEF FoundFile
<1>7. G = F \ {h} /\ FilesOK(G)
  BY <1>0, <1>6 DEF FilesOK
<1>8. Tidy(checksums, r, G)
  <2>1. Tidy(checksums, r, F \ {h})
    BY <1>1, <1>2, <1>5, TidyRemoved DEF FoundFile
  <2> QED BY <2>1, <1>7
<1>9. \A i \in Slots0 : r[i] = dir[i] \/ r[i].kind = "deleted"
  <2> DEFINE t == FirstOf(it.at, it.blk)
  <2>1. \A i \in Slots0 : r[i] = IF i \in t + 1 .. it.at + 1 THEN Deleted ELSE dir[i]
    BY <1>1, <1>2, RemovedIs DEF IsRemoved
  <2> QED BY <2>1 DEF Deleted
<1>10. ASSUME NEW g \in G, NEW y, NEW gn, Stands(checksums, r, g, y, gn) PROVE ~Leads(new, g, gn)
  <2>1. ASSUME NEW i \in y + 1 .. y + Size(g.name) PROVE dir[i] = r[i]
    <3>1. i \in Slots0 /\ ~IsFree(r[i])
      BY <1>7, <1>10, StandsUsed
    <3> QED BY <3>1, <1>9 DEF IsFree
  <2>2. Stands(checksums, dir, g, y, gn)
    BY <2>1, <1>7, <1>10, KeptStands
  <2> QED BY <2>2, <1>1, <1>5, <1>7, RenameUnique
<1>11. (Fits(new) /\ fn = ShortName(new)) \/ \A i \in Slots0 : r[i].kind = "short" => r[i].fn # fn
  BY <1>9
<1>12. Unique(r, G, new, fn)
  BY <1>7, <1>8, <1>10, <1>11, NewUnique
<1>13. /\ \A i \in Slots0 : r[i].kind = "short" => r[i].fn # fn /\ r[i].file # id
       /\ \A g \in G : ~SameName(g.name, new)
  BY <1>12 DEF Unique
<1>14. DirOK(r, n)
  BY DEF Sound
<1>15. Tidy(checksums, e, G \cup {[name |-> new, file |-> id]})
  BY <1>2, <1>7, <1>8, <1>13, <1>14, TidyPut
<1> QED BY <1>15, <1>0

\* What is put and removed for the new name of a file.
Renaming(old, it, new, b, fn, id, d, e, u) ==
  /\ old \in NameSet /\ new \in NameSet /\ it = Find(old) /\ Found(it) /\ id = dir[it.at + 1].file
  /\ FindIn(InBuffer(b, new), new).at \in {Nowhere, it.at}
  /\ NewShort(new) # {} /\ Gaps(dir, Size(new)) # {}
  /\ fn = CHOOSE y \in NewShort(new) : TRUE
  /\ d = Put(dir, Gap(dir, Size(new)), NewEntries(new, fn, id))
  /\ e = Removed(d, it.at, it.blk)
  /\ u = Then(SectorWrites(dir, d), SectorWrites(d, e))

\* A call that renames a file keeps the invariant.
LEMMA RenameHeld ==
  ASSUME NEW c, c = checksums, NEW F, NEW O, NEW T, NEW x, NEW n,
         Held(dir, <<>>, LfnBuf, c, F, O, T, x, n),
         NEW a, BufType(a), NEW b, BufType(b), NEW old, NEW it, NEW new, NEW fn, NEW id, NEW d, NEW e, NEW u,
         Renaming(old, it, new, b, fn, id, d, e, u),
         NEW G, NEW P, NEW f, Renewed(F, T, new, id, G, P, f)
  PROVE  Held(dir, u, a, c, G, P, T, x, n + 1)
<1> DEFINE m == Size(new)
           o == n + 1
           es == NewEntries(new, fn, id)
           p == Gap(dir, m)
           r == Removed(dir, it.at, it.blk)
           U == T \cup {id}
<1>0. f = [name |-> new, file |-> id] /\ G = {g \in F : g.file # id}
  BY DEF Renewed
<1>b. /\ old \in NameSet /\ new \in NameSet /\ it = Find(old) /\ Found(it) /\ id = dir[it.at + 1].file
      /\ FindIn(InBuffer(b, new), new).at \in {Nowhere, it.at}
      /\ NewShort(new) # {} /\ Gaps(dir, m) # {}
      /\ fn = CHOOSE y \in NewShort(new) : TRUE
      /\ d = Put(dir, p, es)
      /\ e = Removed(d, it.at, it.blk)
      /\ u = Then(SectorWrites(dir, d), SectorWrites(d, e))
  BY Zenon DEF Renaming
<1>a. Resting(dir, LfnBuf, c, F, O, T, x, n)
  BY HeldAtRest
<1>1. /\ Recorded(F, {}, T, n) /\ n \in Nat /\ FilesOK(F)
      /\ BufType(LfnBuf)
      /\ x \in BOOLEAN /\ (x = TRUE \/ T = {})
      /\ Sound(c, dir, F, T, n) /\ (x = TRUE \/ Tidy(c, dir, F))
  BY <1>a DEF Resting
<1>2. o \in Nat /\ n <= o /\ 1 .. n \subseteq 1 .. o /\ o = n + 1
  BY <1>1
<1>3. G \subseteq F /\ FilesOK(G) /\ \A g \in G : g.file # id
  BY <1>0, <1>1 DEF FilesOK
<1>4. DirOK(dir, n) /\ EndsLast(dir)
  BY <1>1 DEF Sound
<1>5. /\ Fits(new) => fn = ShortName(new)
      /\ \/ Fits(new) /\ fn = ShortName(new)
         \/ \A i \in Slots0 : dir[i].kind = "short" => dir[i].fn # fn
  BY <1>b, <1>1, <1>4, ShortIsNew
<1>6. Removable(dir, it.at, it.blk) /\ id \in 1 .. n
  BY <1>b, <1>1, <1>4, FoundRemovable
<1>7. m \in Nat \ {0}
  BY <1>b, SizeIs
<1>8. Room(dir, p, m)
  <2> HIDE DEF m
  <2> QED BY <1>b, <1>4, <1>7, RoomIs
<1> HIDE DEF es, p, m, r, o, U
<1>9. /\ es = NewEntries(new, fn, id) /\ d = Put(dir, p, es) /\ Room(dir, p, Size(new))
      /\ r = Removed(dir, it.at, it.blk) /\ id \in 1 .. o
  BY <1>b, <1>2, <1>6, <1>8 DEF es, m, r
<1>10. DOMAIN es = 1 .. m
  <2>1. m = Size(new)
    BY DEF m
  <2>2. AreNew(es, m, fn, id, o)
    BY <2>1, <1>b, <1>9, NewKinds
  <2> QED BY <2>2 DEF AreNew
\* First the new entries ...
<1>11. Sound(checksums, dir, G, T, n)
  BY <1>1, <1>3, SoundMore
<1>12. PutWays(checksums, dir, d, G, U, o, f)
  <2>1. T \subseteq U /\ id \in U
    BY DEF U
  <2>2. PutWays(checksums, dir, d, G, U, o, [name |-> new, file |-> id])
    BY <2>1, <1>b, <1>1, <1>2, <1>3, <1>5, <1>9, <1>11, PutWay
  <2> QED BY <2>2, <1>0
\* ... then the old ones.
<1>13. Sound(checksums, d, G, U, o) /\ DirOK(d, o)
  BY <1>12 DEF PutWays, Sound
<1>14. Removable(d, it.at, it.blk) /\ d[it.at + 1] = dir[it.at + 1] /\ Room(r, p, m) /\ e = Put(r, p, es)
  <2>1. Commute(dir, it.at, it.blk, d, r, p, m, es)
    BY <1>4, <1>6, <1>7, <1>8, <1>9, <1>10, PutThenRemove
  <2> QED BY <2>1, <1>b, <1>13 DEF Commute
<1>15. RemoveWays(checksums, d, e, G, U, o)
  <2>1. \A g \in G : g.file # d[it.at + 1].file
    BY <1>b, <1>3, <1>14
  <2> QED BY <2>1, <1>b, <1>3, <1>13, <1>14, RemoveWay
<1> DEFINE K == Cuts(dir, d) \cup Cuts(d, e)
<1>16. Way(u, dir, e, K) /\ u # <<>>
  <2>1. Way(SectorWrites(dir, d), dir, d, Cuts(dir, d)) /\ SectorWrites(dir, d) # <<>>
    BY <1>12 DEF PutWays
  <2>2. Way(SectorWrites(d, e), d, e, Cuts(d, e))
    BY <1>15 DEF RemoveWays
  <2> QED BY <2>1, <2>2, <1>b, ThenWay
<1>17. \A y \in K : Sound(checksums, y, G, U, o)
  BY <1>12, <1>15 DEF PutWays, RemoveWays
<1> HIDE DEF K
\* The end is as if the old entries had been removed first.
<1>18. Sound(checksums, r, G, T, n)
  <2>1. RemoveWays(checksums, dir, r, G, T, n)
    BY <1>b, <1>3, <1>6, <1>9, <1>11, RemoveWay
  <2> QED BY <2>1 DEF RemoveWays
<1>19. ASSUME id \notin T, NEW i \in Slots0, r[i].kind = "short" PROVE r[i].file # id
  <2> DEFINE t == FirstOf(it.at, it.blk)
  <2>1. /\ it.at \in Nat /\ t \in Nat /\ t <= it.at
        /\ \A j \in Slots0 : r[j] = IF j \in t + 1 .. it.at + 1 THEN Deleted ELSE dir[j]
    BY <1>4, <1>6, <1>9, RemovedIs DEF IsRemoved
  <2> HIDE DEF t
  <2>2. r[i] = dir[i] /\ i # it.at + 1
    BY <2>1, <1>19 DEF Deleted
  <2>3. it.at + 1 \in Slots0 /\ dir[it.at + 1].kind = "short"
    BY <1>6 DEF Removable
  <2> QED BY <2>2, <2>3, <1>b, <1>1, <1>19 DEF Sound
<1>20. PutWays(checksums, r, e, G, T, o, f)
  <2>1. id \in T \/ \A i \in Slots0 : r[i].kind = "short" => r[i].file # id
    BY <1>19
  <2>2. Room(r, p, Size(new)) /\ T \subseteq T
    BY <1>14 DEF m
  <2>3. PutWays(checksums, r, e, G, T, o, [name |-> new, file |-> id])
    BY <2>1, <2>2, <1>b, <1>1, <1>2, <1>3, <1>5, <1>9, <1>14, <1>18, PutWay, ZenonT(40)
  <2> QED BY <2>3, <1>0
<1>21. x = TRUE \/ Tidy(c, e, G \cup {f})
  <2> SUFFICES ASSUME x # TRUE PROVE Tidy(checksums, e, G \cup {f})
    OBVIOUS
  <2>1. Sound(checksums, dir, F, T, n) /\ Tidy(checksums, dir, F)
    BY <1>1
  <2>2. \A i \in Slots0 : r[i].kind = "short" => r[i].file # id
    BY <1>1, <1>19
  <2>3. Room(r, p, Size(new)) /\ id = dir[it.at + 1].file
    BY <1>b, <1>14 DEF m
  <2>4. FilesOK(F) /\ n \in Nat /\ BufType(LfnBuf) /\ e = Put(r, p, es)
    BY <1>1, <1>14
  <2> DEFINE other == FindIn(InBuffer(b, new), new)
  <2>5. /\ old \in NameSet /\ it = Find(old) /\ Found(it) /\ new \in NameSet /\ BufType(b)
        /\ other = FindIn(InBuffer(b, new), new) /\ (other.at = Nowhere \/ other.at = it.at)
        /\ Renewed(F, T, new, id, G, P, f)
    BY <1>b
  <2> HIDE DEF other
  <2> QED BY ONLY <2>1, <2>2, <2>3, <2>4, <2>5, <1>5, <1>9, <1>18, RenameTidy, ZenonT(60)
<1>22. NewCourse(dir, u, c, G, T, id, f, x, n + 1, e, K)
  <2>1. Sound(c, e, G, T, o) /\ Sound(c, e, G \cup {f}, T, o)
    BY <1>20 DEF PutWays
  <2> QED BY <2>1, <1>2, <1>16, <1>17, <1>21 DEF NewCourse, U
<1>23. id \in 1 .. n + 1
  BY <1>2, <1>9
<1>24. Recorded(F, {}, T, n) /\ x \in BOOLEAN /\ (x = TRUE \/ T = {}) /\ BufType(a) /\ new \in NameSet
       /\ Renewed(F, T, new, id, G, P, f)
  BY <1>b, <1>1
<1> QED BY ONLY <1>22, <1>23, <1>24, HeldNew, Zenon

\* The invariant of an empty directory.
LEMMA NamesBegin == NamesInit => NamesInv
<1> SUFFICES ASSUME NamesInit PROVE NamesInv
  OBVIOUS
<1> USE DEF NamesInit
<1>1. /\ unwritten = <<>> /\ files = {} /\ outcome = {} /\ doubtful = {} /\ crashed = FALSE /\ ops = 0
      /\ dir = [i \in 1 .. SlotCount |-> End] /\ LfnBuf = [i \in 0 .. MaxName |-> Term]
  OBVIOUS
<1> HIDE DEF NamesInit
<1>2. BufType(LfnBuf)
  BY <1>1 DEF BufType, BufChars
<1>3. dir = [i \in Slots0 |-> dir[i]] /\ \A i \in Slots0 : dir[i].kind = "end"
  BY <1>1 DEF Slots0, End
<1>4. Sound(checksums, dir, {}, {}, 0)
  BY <1>3 DEF Sound, DirOK, EntryOK, Kinds, EndsLast
<1>5. Tidy(checksums, dir, {})
  BY <1>3 DEF Tidy, IsFree
<1>6. Recorded({}, {}, {}, 0)
  BY FS_EmptySet DEF Recorded, FilesOK, Ids
<1>7. Held(dir, <<>>, LfnBuf, checksums, {}, {}, {}, FALSE, 0)
  BY <1>2, <1>4, <1>5, <1>6, RestsHeld
<1> QED BY <1>1, <1>7 DEF NamesInv

\* The buffer that a listing leaves.
LEMMA ListingBuf ==
  ASSUME NamesInv, AtRest
  PROVE  BufType(Listing.buf)
<1>1. Resting(dir, LfnBuf, checksums, files, outcome, doubtful, crashed, ops)
  BY HeldAtRest DEF NamesInv, AtRest
<1>2. DirOK(dir, ops) /\ BufType(LfnBuf) /\ ops \in Nat
  BY <1>1 DEF Resting, Sound
<1>4. EndsLast(dir)
  BY <1>1 DEF Resting, Sound
<1>3. Reading(dir, SlotCount, Listing)
  BY <1>2, <1>4, ListingIs
<1> QED BY <1>3 DEF Reading, IsReading

\* A call that writes nothing.
LEMMA NothingHeld ==
  ASSUME NamesInv, Call, NothingWritten, BufType(LfnBuf')
  PROVE  NamesInv'
<1>1. /\ unwritten = <<>> /\ unwritten' = <<>> /\ dir' = dir /\ checksums' = checksums /\ files' = files
      /\ outcome' = outcome /\ doubtful' = doubtful /\ crashed' = crashed /\ ops' = ops + 1
  BY DEF Call, NothingWritten, AtRest
<1>2. Held(dir, <<>>, LfnBuf, checksums, files, outcome, doubtful, crashed, ops)
  BY <1>1 DEF NamesInv
<1>3. Held(dir, <<>>, LfnBuf', checksums, files, outcome, doubtful, crashed, ops + 1)
  BY <1>2, HeldLater
<1> QED BY <1>1, <1>3 DEF NamesInv

\* f_open with FA_CREATE_NEW keeps the invariant: all the entries or none are used.
LEMMA CreateKeeps ==
  ASSUME NamesInv, NEW name \in NameSet, Create(name)
  PROVE  NamesInv'
<1>1. /\ unwritten = <<>> /\ dir' = dir /\ checksums' = checksums
      /\ doubtful' = doubtful /\ crashed' = crashed /\ ops' = ops + 1 /\ Call
      /\ LfnBuf' = InBuffer(LfnBuf, name)
  BY DEF Create, Call, AtRest
<1>2. Held(dir, <<>>, LfnBuf, checksums, files, outcome, doubtful, crashed, ops)
  BY <1>1 DEF NamesInv
<1>3. Resting(dir, LfnBuf, checksums, files, outcome, doubtful, crashed, ops)
  BY <1>2, HeldAtRest
<1>4. BufType(LfnBuf')
  BY <1>1, <1>3, InBufferIs DEF Resting
<1>5. CASE NothingWritten
  BY <1>1, <1>4, <1>5, NothingHeld
<1>6. CASE ~NothingWritten
  <2> DEFINE m == Size(name)
             fn == CHOOSE y \in NewShort(name) : TRUE
             e == Put(dir, Gap(dir, m), NewEntries(name, fn, ops'))
             f == [name |-> name, file |-> ops']
  <2>1. ~Found(Find(name)) /\ Register(name, ops', LAMBDA d : d)
    BY <1>6 DEF Create
  <2>2. /\ NewShort(name) # {} /\ Gaps(dir, m) # {}
        /\ unwritten' = Then(SectorWrites(dir, e), SectorWrites(e, e))
        /\ outcome' = IF ops' \in doubtful THEN {} ELSE {f}
        /\ files' = files \ Settled(ops')
    BY <2>1, <1>6, Zenon DEF Register, Size
  <2>3. files' = {g \in files : g.file # ops'}
    BY <2>2 DEF Settled
  <2>4. Renewed(files, doubtful, name, ops + 1, files', outcome', f)
    BY <2>2, <2>3, <1>1 DEF Renewed
  <2>5. crashed = TRUE \/ \A g \in files : \A q, its : Stands(checksums, dir, g, q, its) => ~Leads(name, g, its)
    <3> SUFFICES ASSUME crashed # TRUE
                 PROVE  \A g \in files : \A q, its : Stands(checksums, dir, g, q, its) => ~Leads(name, g, its)
      OBVIOUS
    <3>1. /\ FilesOK(files) /\ ops \in Nat /\ Sound(checksums, dir, files, doubtful, ops)
          /\ Tidy(checksums, dir, files) /\ BufType(LfnBuf)
      BY <1>3 DEF Resting
    <3> QED BY <2>1, <3>1, FoundIs
  <2> HIDE DEF m, fn, e, f
  <2>6. Creation(name, ops + 1, fn, e, unwritten')
    BY <2>2, <1>1 DEF Creation, m, fn, e
  <2>7. Held(dir, unwritten', LfnBuf', checksums, files', outcome', doubtful, crashed, ops + 1)
    BY <2>4, <2>5, <2>6, <1>2, <1>4, CreateHeld
  <2> QED BY <2>7, <1>1 DEF NamesInv
<1> QED BY <1>5, <1>6

\* f_unlink keeps the invariant.
LEMMA UnlinkKeeps ==
  ASSUME NamesInv, NEW name \in NameSet, Unlink(name)
  PROVE  NamesInv'
<1> DEFINE it == Find(name)
           r == Removed(dir, it.at, it.blk)
<1>1. /\ unwritten = <<>> /\ dir' = dir /\ checksums' = checksums
      /\ doubtful' = doubtful /\ crashed' = crashed /\ ops' = ops + 1 /\ Call
      /\ LfnBuf' = InBuffer(LfnBuf, name)
  BY DEF Unlink, Call, AtRest
<1>2. Held(dir, <<>>, LfnBuf, checksums, files, outcome, doubtful, crashed, ops)
  BY <1>1 DEF NamesInv
<1>3. BufType(LfnBuf')
  <2>1. Resting(dir, LfnBuf, checksums, files, outcome, doubtful, crashed, ops)
    BY <1>2, HeldAtRest
  <2> QED BY <2>1, <1>1, InBufferIs DEF Resting
<1>4. CASE NothingWritten
  BY <1>1, <1>3, <1>4, NothingHeld
<1>5. CASE ~NothingWritten
  <2>1. /\ Found(it) /\ unwritten' = SectorWrites(dir, r) /\ outcome' = {}
        /\ files' = files \ Settled(dir[it.at + 1].file)
    BY <1>5 DEF Unlink
  <2>2. files' = {g \in files : g.file # dir[it.at + 1].file}
    BY <2>1 DEF Settled
  <2>3. Removal(name, it, r, files, files')
    BY <2>1, <2>2, Zenon DEF Removal
  <2> HIDE DEF it, r
  <2>4. Held(dir, SectorWrites(dir, r), LfnBuf', checksums, files', {}, doubtful, crashed, ops + 1)
    BY <2>3, <1>2, <1>3, UnlinkHeld
  <2> QED BY <2>1, <2>4, <1>1 DEF NamesInv
<1> QED BY <1>4, <1>5

\* f_rename keeps the invariant.
LEMMA RenameKeeps ==
  ASSUME NamesInv, NEW old \in NameSet, NEW new \in NameSet, Rename(old, new)
  PROVE  NamesInv'
<1> DEFINE it == Find(old)
           b == InBuffer(LfnBuf, old)
           other == FindIn(InBuffer(b, new), new)
<1>1. /\ unwritten = <<>> /\ dir' = dir /\ checksums' = checksums
      /\ doubtful' = doubtful /\ crashed' = crashed /\ ops' = ops + 1 /\ Call
      /\ LfnBuf' = IF Found(it) THEN InBuffer(b, new) ELSE b
  BY DEF Rename, Call, AtRest
<1>2. Held(dir, <<>>, LfnBuf, checksums, files, outcome, doubtful, crashed, ops)
  BY <1>1 DEF NamesInv
<1>3. BufType(b) /\ BufType(InBuffer(b, new)) /\ BufType(LfnBuf')
  <2>1. Resting(dir, LfnBuf, checksums, files, outcome, doubtful, crashed, ops)
    BY <1>2, HeldAtRest
  <2>2. BufType(b)
    BY <2>1, InBufferIs DEF Resting
  <2> HIDE DEF b
  <2>3. BufType(InBuffer(b, new))
    BY <2>2, InBufferIs
  <2> QED BY <2>2, <2>3, <1>1
<1>4. CASE NothingWritten
  BY <1>1, <1>3, <1>4, NothingHeld
<1>5. CASE ~NothingWritten
  <2> DEFINE m == Size(new)
             fn == CHOOSE y \in NewShort(new) : TRUE
             id == dir[it.at + 1].file
             d == Put(dir, Gap(dir, m), NewEntries(new, fn, id))
             e == Removed(d, it.at, it.blk)
             f == [name |-> new, file |-> id]
  <2>1. /\ Found(it) /\ ~ (Found(other) /\ other.at # it.at)
        /\ Register(new, id, LAMBDA y : Removed(y, it.at, it.blk))
    BY <1>5, Zenon DEF Rename
  <2>2. /\ NewShort(new) # {} /\ Gaps(dir, m) # {}
        /\ unwritten' = Then(SectorWrites(dir, d), SectorWrites(d, e))
        /\ outcome' = IF id \in doubtful THEN {} ELSE {f}
        /\ files' = files \ Settled(id)
    BY <2>1, <1>5, Zenon DEF Register, Size
  <2>3. files' = {g \in files : g.file # id}
    BY <2>2 DEF Settled
  <2>4. Renewed(files, doubtful, new, id, files', outcome', f)
    BY <2>2, <2>3 DEF Renewed
  <2>5. other.at = Nowhere \/ other.at = it.at
    BY <2>1 DEF Found
  <2> HIDE DEF m, fn, d, e, f, it, other, id
  <2>6. Renaming(old, it, new, b, fn, id, d, e, unwritten')
    BY <2>1, <2>2, <2>5 DEF Renaming, m, fn, d, e, id, it, other
  <2> HIDE DEF b
  <2>7. Held(dir, unwritten', LfnBuf', checksums, files', outcome', doubtful, crashed, ops + 1)
    BY <2>4, <2>6, <1>2, <1>3, RenameHeld
  <2> QED BY <2>7, <1>1 DEF NamesInv
<1> QED BY <1>4, <1>5

\* One write of a sector takes the directory one step along.
LEMMA WriteKeeps ==
  ASSUME NamesInv, WriteSector
  PROVE  NamesInv'
<1> DEFINE u == unwritten
           d == Written(dir, Head(u))
<1>1. /\ u # <<>> /\ unwritten' = Tail(u) /\ LfnBuf' = LfnBuf /\ checksums' = checksums /\ doubtful' = doubtful
      /\ crashed' = crashed /\ ops' = ops
      /\ IF unwritten' = <<>> THEN files' = files \cup outcome /\ outcome' = {}
         ELSE files' = files /\ outcome' = outcome
  BY DEF WriteSector, AtRest
<1>2. dir' = d
  BY Zenon DEF WriteSector, Written
<1>3. Held(dir, u, LfnBuf, checksums, files, outcome, doubtful, crashed, ops)
  BY DEF NamesInv
<1> HIDE DEF u
<1>4. d = Written(dir, Head(u))
  OBVIOUS
<1> HIDE DEF d
<1>5. /\ unwritten' # <<>> => Held(d, unwritten', LfnBuf, checksums, files, outcome, doubtful, crashed, ops)
      /\ unwritten' = <<>> => Held(d, unwritten', LfnBuf, checksums, files \cup outcome, {}, doubtful, crashed, ops)
  BY <1>1, <1>3, <1>4, HeldWritten
<1> QED BY <1>1, <1>2, <1>5 DEF NamesInv

\* A power failure leaves the directory where it was on its way.
LEMMA CrashKeeps ==
  ASSUME NamesInv, Crash
  PROVE  NamesInv'
<1>1. /\ dir' = dir /\ unwritten' = <<>> /\ checksums' = checksums /\ files' = files /\ outcome' = {}
      /\ doubtful' = doubtful \cup {f.file : f \in outcome} /\ crashed' = TRUE /\ ops' = ops
      /\ LfnBuf' = [i \in 0 .. MaxName |-> Term]
  BY DEF Crash
<1>2. BufType(LfnBuf')
  BY <1>1 DEF BufType, BufChars
<1>3. doubtful' = doubtful \cup Ids(outcome)
  BY <1>1 DEF Ids
<1>4. Held(dir, <<>>, LfnBuf', checksums, files, {}, doubtful \cup Ids(outcome), TRUE, ops)
  BY <1>2, HeldCrashed DEF NamesInv
<1> QED BY <1>1, <1>3, <1>4 DEF NamesInv

\* The inductive invariant of the directory, for every set of names, buffer, directory,
\* number of calls and power failures: whatever remains to be written, every file
\* stands on the way there, and unless the power failed nothing else does.
THEOREM NamesHeld == NamesSpec => []NamesInv
<1>1. ASSUME NamesInv, [NamesNext]_nameVars PROVE NamesInv'
  <2>1. CASE UNCHANGED nameVars
    BY <1>1, <2>1 DEF nameVars, NamesInv
  <2>2. CASE NamesNext
    <3>1. ASSUME NEW n \in NameSet, Create(n) \/ Unlink(n) \/ Lookup(n) \/ \E m \in NameSet : Rename(n, m)
          PROVE  NamesInv'
      <4>1. CASE Create(n)
        BY <1>1, <4>1, CreateKeeps
      <4>2. CASE Unlink(n)
        BY <1>1, <4>2, UnlinkKeeps
      <4>3. CASE Lookup(n)
        <5>1. Call /\ NothingWritten /\ BufType(LfnBuf')
          <6>1. Call /\ NothingWritten /\ LfnBuf' = InBuffer(LfnBuf, n)
            BY <4>3 DEF Lookup
          <6> QED BY <6>1, <1>1, InBufferIs DEF NamesInv, Held
        <5> QED BY <5>1, <1>1, NothingHeld
      <4>4. ASSUME NEW m \in NameSet, Rename(n, m) PROVE NamesInv'
        BY <1>1, <4>4, RenameKeeps
      <4> QED BY <3>1, <4>1, <4>2, <4>3, <4>4
    <3>2. CASE List
      <4>1. Call /\ NothingWritten /\ LfnBuf' = Listing.buf /\ AtRest
        BY <3>2 DEF List, Call
      <4>2. BufType(LfnBuf')
        BY <4>1, <1>1, ListingBuf
      <4> QED BY <4>1, <4>2, <1>1, NothingHeld
    <3>3. CASE WriteSector
      BY <1>1, <3>3, WriteKeeps
    <3>4. CASE Crash
      BY <1>1, <3>4, CrashKeeps
    <3> QED BY <2>2, <3>1, <3>2, <3>3, <3>4 DEF NamesNext
  <2> QED BY <1>1, <2>1, <2>2
<1> QED BY <1>1, NamesBegin, PTL DEF NamesSpec

\* What holds between two calls.
AllRest ==
  /\ ops \in Nat /\ FilesOK(files) /\ IsFiniteSet(files) /\ Sound(checksums, dir, files, doubtful, ops)
  /\ crashed \/ Tidy(checksums, dir, files)
  /\ BufType(LfnBuf) /\ \A f \in files : f.file \notin doubtful

\* The invariant gives what holds between two calls.
LEMMA RestGives ==
  ASSUME NamesInv, AtRest
  PROVE  AllRest
<1>1. Resting(dir, LfnBuf, checksums, files, outcome, doubtful, crashed, ops)
  BY HeldAtRest DEF NamesInv, AtRest
<1>2. \A f \in files : f.file \notin doubtful
  BY <1>1 DEF Resting, Ids
<1>3. crashed \/ Tidy(checksums, dir, files)
  BY <1>1, Zenon DEF Resting
<1>4. /\ ops \in Nat /\ FilesOK(files) /\ IsFiniteSet(files) /\ Sound(checksums, dir, files, doubtful, ops)
      /\ BufType(LfnBuf)
  BY <1>1 DEF Resting
<1> QED BY <1>2, <1>3, <1>4, Zenon DEF AllRest

\* FilesKeepNames, for every set of names, buffer, directory and number of
\* calls: a file that no power failure caught is listed once and found by its name.
THEOREM NamesKept == NamesSpec => []FilesKeepNames
<1>1. NamesInv => FilesKeepNames
  <2> SUFFICES ASSUME NamesInv, AtRest, NEW f \in files
               PROVE  /\ \A n \in NameSet :
                           SameName(n, f.name) =>
                             Found(Find(n)) /\ (crashed \/ dir[Find(n).at + 1].file = f.file)
                      /\ Cardinality({i \in DOMAIN Listing.list : Listing.list[i].file = f.file}) = 1
    BY Zenon DEF FilesKeepNames
  <2>1. AllRest
    BY RestGives
  <2> QED BY <2>1, KeepAtRest, Zenon DEF AllRest
<1> QED BY <1>1, NamesHeld, PTL

\* NamesAreTold, for every set of names, buffer, directory and number of calls.
THEOREM NamesRight == NamesSpec => []NamesAreTold
<1>1. NamesInv => NamesAreTold
  <2> SUFFICES ASSUME NamesInv, AtRest, ~crashed PROVE NamesAreTold
    BY DEF NamesAreTold
  <2>1. AllRest
    BY RestGives
  <2> QED BY <2>1, TellAtRest, Zenon DEF NamesAreTold, AllRest
<1> QED BY <1>1, NamesHeld, PTL
=============================================================================
