---------------------------- MODULE Domain_proofs ----------------------------
(* The division of the controllers among the VNFs, for every number of each. *)
EXTENDS Domain, TLAPS

LEMMA DivMod ==
    ASSUME NEW n \in Nat, NEW d \in Nat \ {0}
    PROVE  /\ n \div d \in Nat
           /\ n % d \in 0 .. d - 1
           /\ n = d * (n \div d) + (n % d)
  BY SMT

LEMMA MultMonotone ==
    ASSUME NEW i \in Nat, NEW j \in Nat, i <= j, NEW q \in Nat
    PROVE  i * q <= j * q
<1>1. PICK k \in Nat : j = i + k
  BY j - i \in Nat
<1>2. j * q = i * q + k * q
  BY <1>1
<1>3. k * q \in Nat /\ i * q \in Nat
  OBVIOUS
<1>4. QED
  BY <1>2, <1>3

(***************************************************************************)
(* The slices start in order, and each ends where the next one starts.     *)
(***************************************************************************)
LEMMA SliceStartNat ==
    ASSUME NEW nc \in Nat, NEW nv \in Nat \ {0}, NEW i \in Nat
    PROVE  SliceStart(nc, nv, i) \in Nat
<1>1. nc \div nv \in Nat /\ nc % nv \in Nat
  BY DivMod
<1>2. i * (nc \div nv) \in Nat
  BY <1>1
<1>3. QED
  BY <1>1, <1>2 DEF SliceStart

LEMMA SliceStartMonotone ==
    ASSUME NEW nc \in Nat, NEW nv \in Nat \ {0},
           NEW i \in Nat, NEW j \in Nat, i <= j
    PROVE  SliceStart(nc, nv, i) <= SliceStart(nc, nv, j)
<1> DEFINE q == nc \div nv
           r == nc % nv
<1>1. q \in Nat /\ r \in Nat
  BY DivMod
<1>2. i * q <= j * q /\ i * q \in Int /\ j * q \in Int
  BY <1>1, MultMonotone
<1>3. (IF i <= r THEN i ELSE r) <= (IF j <= r THEN j ELSE r)
  BY <1>1
<1> HIDE DEF q, r
<1>4. i * q + (IF i <= r THEN i ELSE r) <= j * q + (IF j <= r THEN j ELSE r)
  BY <1>1, <1>2, <1>3
<1>5. QED
  BY <1>4 DEF SliceStart, q, r

LEMMA SliceEnds ==
    ASSUME NEW nc \in Nat, NEW nv \in Nat \ {0}
    PROVE  SliceStart(nc, nv, 0) = 0 /\ SliceStart(nc, nv, nv) = nc
<1>1. /\ nc \div nv \in Nat /\ nc % nv \in 0 .. nv - 1
      /\ nc = nv * (nc \div nv) + (nc % nv)
  BY DivMod
<1>2. SliceStart(nc, nv, 0) = 0
  BY <1>1 DEF SliceStart
<1>3. SliceStart(nc, nv, nv) = nc
  BY <1>1 DEF SliceStart
<1>4. QED
  BY <1>2, <1>3

(***************************************************************************)
(* A controller is in one slice at most.                                   *)
(***************************************************************************)
LEMMA SubDomainsDisjoint ==
    ASSUME NEW nc \in Nat, NEW nv \in Nat \ {0},
           NEW i \in VnfIds(nv), NEW j \in VnfIds(nv), i # j
    PROVE  SubDomain(nc, nv, i) \cap SubDomain(nc, nv, j) = {}
<1>0. i \in Nat /\ j \in Nat
  BY DEF VnfIds
<1>1. \A a, b \in Nat : a < b =>
          SubDomain(nc, nv, a) \cap SubDomain(nc, nv, b) = {}
  <2>1. SUFFICES ASSUME NEW a \in Nat, NEW b \in Nat, a < b
                 PROVE  SubDomain(nc, nv, a) \cap SubDomain(nc, nv, b) = {}
    OBVIOUS
  <2>2. SliceStart(nc, nv, a + 1) <= SliceStart(nc, nv, b)
    BY <2>1, SliceStartMonotone, a + 1 \in Nat, a + 1 <= b
  <2>3. /\ SliceStart(nc, nv, a) \in Nat /\ SliceStart(nc, nv, a + 1) \in Nat
        /\ SliceStart(nc, nv, b) \in Nat /\ SliceStart(nc, nv, b + 1) \in Nat
    BY SliceStartNat, a + 1 \in Nat, b + 1 \in Nat
  <2>4. QED
    BY <2>2, <2>3 DEF SubDomain, CtlHostBase
<1>2. QED
  BY <1>0, <1>1, i < j \/ j < i

(***************************************************************************)
(* get_domain() reads back the slice of its VNF: the range from its least  *)
(* to its greatest controller holds no controller of another slice.        *)
(***************************************************************************)
LEMMA InDomainFile ==
    ASSUME NEW nc \in Nat, NEW nv \in Nat \ {0}, NEW i \in VnfIds(nv)
    PROVE  SubDomain(nc, nv, i) =
             { l[2] : l \in { k \in DomainFile(nc, nv) : k[1] = i } }
<1>1. SubDomain(nc, nv, i) \subseteq ControllerHosts(nc)
  <2>0. i \in Nat /\ nv \in Nat /\ 0 <= i /\ i + 1 <= nv /\ i + 1 \in Nat
    BY DEF VnfIds
  <2>1. SliceStart(nc, nv, i) \in Nat /\ SliceStart(nc, nv, i + 1) \in Nat
    BY <2>0, SliceStartNat
  <2>2. SliceStart(nc, nv, i + 1) <= nc
    BY <2>0, SliceStartMonotone, SliceEnds
  <2>3. QED
    BY <2>1, <2>2 DEF SubDomain, ControllerHosts, CtlHostBase
<1>2. ASSUME NEW h \in SubDomain(nc, nv, i)
      PROVE  h \in { l[2] : l \in { k \in DomainFile(nc, nv) : k[1] = i } }
  <2>1. <<i, h>> \in DomainFile(nc, nv)
    BY <1>1, <1>2 DEF DomainFile
  <2>2. QED
    BY <2>1
<1>3. ASSUME NEW h \in { l[2] : l \in { k \in DomainFile(nc, nv) : k[1] = i } }
      PROVE  h \in SubDomain(nc, nv, i)
  BY <1>3 DEF DomainFile
<1>4. QED
  BY <1>2, <1>3

\* The manager of a VNF manages exactly the controllers of its slice.
THEOREM GetDomainIsSubDomain ==
    ASSUME NEW nc \in Nat, NEW nv \in Nat \ {0}, NEW i \in VnfIds(nv)
    PROVE  GetDomain(nc, nv, i) = SubDomain(nc, nv, i)
<1> DEFINE S == SubDomain(nc, nv, i)
<1>1. GetDomain(nc, nv, i) =
        { h \in ControllerHosts(nc) : \E a, b \in S : a <= h /\ h <= b }
  BY InDomainFile DEF GetDomain
<1>2. S \subseteq ControllerHosts(nc)
  BY InDomainFile DEF DomainFile
<1>3. SliceStart(nc, nv, i) \in Nat /\ SliceStart(nc, nv, i + 1) \in Nat
  <2>1. i \in Nat /\ i + 1 \in Nat
    BY DEF VnfIds
  <2>2. QED
    BY <2>1, SliceStartNat
<1>4. QED
  BY <1>1, <1>2, <1>3 DEF SubDomain, ControllerHosts, CtlHostBase

\* No controller is managed by two VNFs, whatever their numbers.
THEOREM DomainsDisjoint ==
    ASSUME NEW nc \in Nat, NEW nv \in Nat \ {0},
           NEW i \in VnfIds(nv), NEW j \in VnfIds(nv), i # j
    PROVE  GetDomain(nc, nv, i) \cap GetDomain(nc, nv, j) = {}
BY SubDomainsDisjoint, GetDomainIsSubDomain

(***************************************************************************)
(* Every controller is managed by a VNF.  The first nc % nv slices have    *)
(* one controller more than the others: the slice of a controller is found *)
(* by one division or the other.                                           *)
(***************************************************************************)
LEMMA SubDomainsCover ==
    ASSUME NEW nc \in Nat, NEW nv \in Nat \ {0}, NEW h \in ControllerHosts(nc)
    PROVE  \E i \in VnfIds(nv) : h \in SubDomain(nc, nv, i)
<1> DEFINE q == nc \div nv
           r == nc % nv
           k == h - CtlHostBase
<1>1. q \in Nat /\ r \in 0 .. nv - 1 /\ nc = nv * q + r
  BY DivMod
<1>2. k \in 0 .. nc - 1 /\ h = k + CtlHostBase
  BY DEF ControllerHosts, CtlHostBase
<1> HIDE DEF q, r, k
<1>3. SUFFICES ASSUME NEW i \in 0 .. nv - 1,
                      i * q + (IF i <= r THEN i ELSE r) <= k,
                      k < (i + 1) * q + (IF i + 1 <= r THEN i + 1 ELSE r)
               PROVE  h \in SubDomain(nc, nv, i)
  <2>1. \E i \in 0 .. nv - 1 :
            /\ i * q + (IF i <= r THEN i ELSE r) <= k
            /\ k < (i + 1) * q + (IF i + 1 <= r THEN i + 1 ELSE r)
    <3>1. CASE k < r * (q + 1)
      <4> DEFINE i == k \div (q + 1)
      <4>1. i \in Nat /\ k % (q + 1) \in 0 .. q /\ k = (q + 1) * i + (k % (q + 1))
        <5>1. k \in Nat /\ q + 1 \in Nat \ {0} /\ q + 1 - 1 = q
          BY <1>1, <1>2
        <5> DEFINE p == q + 1
        <5> HIDE DEF p
        <5>2. p \in Nat \ {0}
          BY <5>1 DEF p
        <5>3. k \div p \in Nat /\ k % p \in 0 .. p - 1 /\ k = p * (k \div p) + (k % p)
          BY <5>1, <5>2, DivMod
        <5>4. QED
          BY <1>1, <5>1, <5>3 DEF p
      <4> HIDE DEF i
      <4>2. (q + 1) * i = i * q + i /\ i * q \in Nat /\ (i + 1) * q = i * q + q
        BY <1>1, <4>1
      <4>3. i < r
        <5>1. SUFFICES ASSUME r <= i PROVE FALSE
          BY <1>1, <4>1
        <5>2. r * (q + 1) <= i * (q + 1)
          <6>1. r \in Nat /\ q + 1 \in Nat
            BY <1>1
          <6>2. QED
            BY <4>1, <5>1, <6>1, MultMonotone
        <5>3. i * (q + 1) = (q + 1) * i
          BY <1>1, <4>1
        <5>4. QED
          BY <1>1, <1>2, <3>1, <4>1, <4>2, <5>2, <5>3
      <4>4. i \in 0 .. nv - 1
        BY <1>1, <4>1, <4>3
      <4>5. i * q + i <= k /\ k < (i + 1) * q + (i + 1)
        BY <1>1, <1>2, <4>1, <4>2
      <4>6. (IF i <= r THEN i ELSE r) = i /\ (IF i + 1 <= r THEN i + 1 ELSE r) = i + 1
        BY <1>1, <4>1, <4>3
      <4>7. QED
        BY <4>4, <4>5, <4>6
    <3>2. CASE r * (q + 1) <= k
      <4> DEFINE d == k - r * (q + 1)
                 e == d \div q
                 i == r + e
      <4>1. q # 0
        BY <1>1, <1>2, <3>2
      <4>2. d \in Nat /\ k = d + r * (q + 1)
        BY <1>1, <1>2, <3>2
      <4> HIDE DEF d
      <4>3. e \in Nat /\ d % q \in 0 .. q - 1 /\ d = q * e + (d % q)
        BY <1>1, <4>1, <4>2, DivMod
      <4> HIDE DEF e
      <4>4. i \in Nat /\ r <= i
        BY <1>1, <4>3
      <4>5. /\ i * q = r * q + q * e /\ (i + 1) * q = r * q + q * e + q
            /\ r * (q + 1) = r * q + r
            /\ i * q \in Nat /\ r * q \in Nat /\ q * e \in Nat
        BY <1>1, <4>3
      <4> HIDE DEF i
      <4>6. i * q + r <= k /\ k < (i + 1) * q + r
        BY <1>1, <1>2, <4>2, <4>3, <4>5
      <4>7. i < nv
        <5>1. SUFFICES ASSUME nv <= i PROVE FALSE
          BY <4>4
        <5>2. nv * q <= i * q /\ nv * q \in Nat
          BY <1>1, <4>4, <5>1, MultMonotone
        <5>3. QED
          BY <1>1, <1>2, <4>5, <4>6, <5>2
      <4>8. (IF i <= r THEN i ELSE r) = r /\ (IF i + 1 <= r THEN i + 1 ELSE r) = r
        BY <1>1, <4>4
      <4>9. QED
        BY <4>4, <4>6, <4>7, <4>8
    <3>3. QED
      BY <1>1, <1>2, <3>1, <3>2
  <2>2. QED
    BY <2>1 DEF VnfIds
<1>4. SliceStart(nc, nv, i) <= k /\ k < SliceStart(nc, nv, i + 1)
  BY <1>3 DEF SliceStart, q, r
<1>5. SliceStart(nc, nv, i) \in Nat /\ SliceStart(nc, nv, i + 1) \in Nat
  BY SliceStartNat, i \in Nat, i + 1 \in Nat
<1>6. QED
  BY <1>2, <1>4, <1>5 DEF SubDomain, CtlHostBase

\* get_vnf() and get_domain() agree: a controller sends its requests to the
\* one VNF whose manager posts rules to it.
THEOREM VnfOfController ==
    ASSUME NEW nc \in Nat, NEW nv \in Nat \ {0}, NEW h \in ControllerHosts(nc)
    PROVE  \E i \in VnfIds(nv) :
              /\ GetVnf(nc, nv, h) = {i}
              /\ h \in GetDomain(nc, nv, i)
<1>1. PICK i \in VnfIds(nv) : h \in SubDomain(nc, nv, i)
  BY SubDomainsCover
<1>2. <<i, h>> \in DomainFile(nc, nv)
  BY <1>1 DEF DomainFile
<1>3. ASSUME NEW l \in DomainFile(nc, nv), l[2] = h
      PROVE  l[1] = i
  <2>1. l[1] \in VnfIds(nv) /\ h \in SubDomain(nc, nv, l[1])
    BY <1>3 DEF DomainFile
  <2>2. QED
    BY <1>1, <2>1, SubDomainsDisjoint
<1>4. { l[1] : l \in { k \in DomainFile(nc, nv) : k[2] = h } } = {i}
  BY <1>2, <1>3
<1>5. GetVnf(nc, nv, h) = {i}
  BY <1>4 DEF GetVnf
<1>6. h \in GetDomain(nc, nv, i)
  BY <1>1, GetDomainIsSubDomain
<1>7. QED
  BY <1>5, <1>6
=============================================================================
