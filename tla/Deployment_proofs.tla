--------------------------- MODULE Deployment_proofs ---------------------------
(***************************************************************************)
(* Safety of Deployment, for every number of controllers and of VNFs, for  *)
(* every order in which the domain file is written and containers start,   *)
(* and for every Ctrl-C.                                                   *)
(***************************************************************************)
EXTENDS Deployment, Domain_proofs, DataInduction

-----------------------------------------------------------------------------
(***************************************************************************)
(* The addresses: those of the controllers, then those of the VNFs.        *)
(***************************************************************************)
Numbers == numCtls \in 1 .. MaxCtls /\ numVnfs \in 1 .. MaxVnfs

LEMMA Addresses ==
    ASSUME Numbers
    PROVE  /\ numCtls \in Nat \ {0} /\ numVnfs \in Nat \ {0}
           /\ ControllerHosts(numCtls) \cup VnfHosts = CtlHostBase .. numCtls + numVnfs + 1
           /\ ControllerHosts(numCtls) \cup VnfHosts \subseteq Hosts
           /\ ControllerHosts(numCtls) \cap VnfHosts = {}
           /\ NoHost \notin Hosts /\ Hosts \subseteq Nat
           /\ NoId \notin VnfIds(numVnfs)
           /\ \A i, j \in VnfIds(numVnfs) :
                 /\ VnfHost(numCtls, i) \in VnfHosts
                 /\ VnfHost(numCtls, i) = VnfHost(numCtls, j) => i = j
<1>1. /\ numCtls \in Nat \ {0} /\ numVnfs \in Nat \ {0}
      /\ numCtls <= MaxCtls /\ numVnfs <= MaxVnfs /\ MaxCtls \in Nat /\ MaxVnfs \in Nat
  BY DeploymentAssumption DEF Numbers
<1>2. VnfHosts = numCtls + 2 .. numCtls + numVnfs + 1
  <2>1. ASSUME NEW h \in numCtls + 2 .. numCtls + numVnfs + 1 PROVE h \in VnfHosts
    <3>1. h - (numCtls + 2) \in VnfIds(numVnfs) /\ h = VnfHost(numCtls, h - (numCtls + 2))
      BY <1>1 DEF VnfIds, VnfHost
    <3> QED
      BY <3>1 DEF VnfHosts
  <2>2. ASSUME NEW i \in VnfIds(numVnfs)
        PROVE  VnfHost(numCtls, i) \in numCtls + 2 .. numCtls + numVnfs + 1
    BY <1>1 DEF VnfIds, VnfHost
  <2> QED
    BY <2>1, <2>2 DEF VnfHosts
<1>3. ControllerHosts(numCtls) = 2 .. numCtls + 1
  BY DEF ControllerHosts, CtlHostBase
<1>4. Hosts = 2 .. MaxCtls + MaxVnfs + 1
  BY <1>1 DEF Hosts, CtlHostBase
<1>5. \A i, j \in VnfIds(numVnfs) :
         /\ VnfHost(numCtls, i) \in VnfHosts
         /\ VnfHost(numCtls, i) = VnfHost(numCtls, j) => i = j
  BY <1>1 DEF VnfHosts, VnfHost, VnfIds
<1>6. ControllerHosts(numCtls) \cup VnfHosts = CtlHostBase .. numCtls + numVnfs + 1
  BY <1>1, <1>2, <1>3 DEF CtlHostBase
<1>7. /\ ControllerHosts(numCtls) \cap VnfHosts = {}
      /\ ControllerHosts(numCtls) \cup VnfHosts \subseteq Hosts
  BY <1>1, <1>2, <1>3, <1>4
<1>8. NoHost \notin Hosts /\ Hosts \subseteq Nat /\ NoId \notin VnfIds(numVnfs)
  BY <1>1, <1>4 DEF NoHost, NoId, VnfIds
<1> QED
  BY <1>1, <1>5, <1>6, <1>7, <1>8

(***************************************************************************)
(* The slices of the controllers.                                          *)
(***************************************************************************)
Slice(i) == SubDomain(numCtls, numVnfs, i)

LEMMA SliceSize ==
    ASSUME NEW nc \in Nat, NEW nv \in Nat \ {0}, NEW i \in Nat
    PROVE  /\ Cardinality(SubDomain(nc, nv, i)) \in {nc \div nv, (nc \div nv) + 1}
           /\ IsFiniteSet(SubDomain(nc, nv, i))
           /\ Cardinality(SubDomain(nc, nv, i)) =
                 SliceStart(nc, nv, i + 1) - SliceStart(nc, nv, i)
<1> DEFINE q == nc \div nv
           r == nc % nv
           s == SliceStart(nc, nv, i)
           e == SliceStart(nc, nv, i + 1)
<1>1. q \in Nat /\ r \in Nat
  <2>1. q \in Nat /\ r \in 0 .. nv - 1
    BY DivMod
  <2> HIDE DEF q, r
  <2> QED
    BY <2>1
<1>2. s \in Nat /\ e \in Nat
  <2>1. i + 1 \in Nat
    OBVIOUS
  <2> QED
    BY <2>1, SliceStartNat
<1>3. e - s \in {q, q + 1}
  <2>1. s = i * q + (IF i <= r THEN i ELSE r)
    BY DEF SliceStart
  <2>2. e = (i + 1) * q + (IF i + 1 <= r THEN i + 1 ELSE r)
    BY DEF SliceStart
  <2> HIDE DEF q, r, s, e
  <2>3. (i + 1) * q = i * q + q /\ i * q \in Nat
    BY <1>1
  <2> QED
    BY <1>1, <2>1, <2>2, <2>3
<1>4. SubDomain(nc, nv, i) = 2 + s .. 2 + e - 1
  BY DEF SubDomain, CtlHostBase
<1> HIDE DEF q, s, e
<1>5. s <= e
  BY <1>1, <1>2, <1>3
<1>6. /\ IsFiniteSet(2 + s .. 2 + e - 1)
      /\ Cardinality(2 + s .. 2 + e - 1) = e - s
  <2>1. 2 + s \in Int /\ 2 + e - 1 \in Int
    BY <1>2
  <2> DEFINE a == 2 + s
             b == 2 + e - 1
  <2>2. IsFiniteSet(a .. b) /\ Cardinality(a .. b) = IF a > b THEN 0 ELSE b - a + 1
    <3> HIDE DEF a, b
    <3> QED
      BY <2>1, FS_Interval DEF a, b
  <2> QED
    BY <1>2, <1>5, <2>2
<1> QED
  BY <1>3, <1>4, <1>6 DEF q, s, e

LEMMA Slices ==
    ASSUME Numbers
    PROVE  /\ \A i \in VnfIds(numVnfs) : Slice(i) \subseteq ControllerHosts(numCtls)
           /\ \A i, j \in VnfIds(numVnfs) : i # j => Slice(i) \cap Slice(j) = {}
           /\ \A h \in ControllerHosts(numCtls) : \E i \in VnfIds(numVnfs) : h \in Slice(i)
           /\ \A i \in VnfIds(numVnfs) : \A a, b \in Slice(i) : \A g \in Nat :
                 a <= g /\ g <= b => g \in Slice(i)
<1>1. numCtls \in Nat /\ numVnfs \in Nat \ {0}
  BY Addresses
<1>2. ASSUME NEW i \in VnfIds(numVnfs), NEW h \in Slice(i) PROVE h \in ControllerHosts(numCtls)
  <2>1. h \in { l[2] : l \in { k \in DomainFile(numCtls, numVnfs) : k[1] = i } }
    BY <1>1, InDomainFile DEF Slice
  <2> QED
    BY <2>1 DEF DomainFile
<1>3. \A i, j \in VnfIds(numVnfs) : i # j => Slice(i) \cap Slice(j) = {}
  BY <1>1, SubDomainsDisjoint DEF Slice
<1>4. \A h \in ControllerHosts(numCtls) : \E i \in VnfIds(numVnfs) : h \in Slice(i)
  BY <1>1, SubDomainsCover DEF Slice
<1>5. ASSUME NEW i \in VnfIds(numVnfs), NEW a \in Slice(i), NEW b \in Slice(i), NEW g \in Nat,
             a <= g, g <= b
      PROVE  g \in Slice(i)
  <2>1. i \in Nat
    BY DEF VnfIds
  <2>2. SliceStart(numCtls, numVnfs, i) \in Nat /\ SliceStart(numCtls, numVnfs, i + 1) \in Nat
    <3>1. i + 1 \in Nat
      BY <2>1
    <3> QED
      BY <1>1, <2>1, <3>1, SliceStartNat
  <2> DEFINE s == SliceStart(numCtls, numVnfs, i)
             e == SliceStart(numCtls, numVnfs, i + 1)
  <2>3. Slice(i) = 2 + s .. 2 + e - 1
    BY DEF Slice, SubDomain, CtlHostBase
  <2> HIDE DEF s, e
  <2>4. s \in Nat /\ e \in Nat
    BY <2>2 DEF s, e
  <2> QED
    BY <1>5, <2>3, <2>4
<1> QED
  BY <1>2, <1>3, <1>4, <1>5

-----------------------------------------------------------------------------
(***************************************************************************)
(* The domain file, in whatever order print_domain() writes it: the lines  *)
(* of every VNF, and none twice.                                           *)
(***************************************************************************)
Line == [vnf : VnfHosts, ctl : ControllerHosts(numCtls)]

OwnLines(i) == { [vnf |-> VnfHost(numCtls, i), ctl |-> h] : h \in Slice(i) }

Complete(lines) ==
    /\ lines \in Seq(Line)
    /\ Elements(lines) = UNION { OwnLines(i) : i \in VnfIds(numVnfs) }
    /\ NoRepeats(lines)

LEMMA LinesOfVnf ==
    ASSUME Numbers, NEW i \in VnfIds(numVnfs)
    PROVE  /\ LinesOf(i) \in Seq(Line)
           /\ Elements(LinesOf(i)) = OwnLines(i)
           /\ NoRepeats(LinesOf(i))
<1> DEFINE s == SliceStart(numCtls, numVnfs, i)
           e == SliceStart(numCtls, numVnfs, i + 1)
           v == VnfHost(numCtls, i)
           k == e - s
           lines == [n \in 1 .. k |-> [vnf |-> v, ctl |-> 2 + s + n - 1]]
<1>1. i \in Nat /\ i + 1 \in Nat /\ numCtls \in Nat /\ numVnfs \in Nat \ {0}
  BY Addresses DEF VnfIds
<1>2. s \in Nat /\ e \in Nat /\ s <= e
  <2>1. i <= i + 1
    BY <1>1
  <2>2. s \in Nat /\ e \in Nat
    BY <1>1, SliceStartNat
  <2> QED
    BY <1>1, <2>1, <2>2, SliceStartMonotone
<1>3. Slice(i) = 2 + s .. 2 + e - 1 /\ Cardinality(Slice(i)) = k
  BY <1>1, SliceSize DEF Slice, SubDomain, CtlHostBase
<1>4. LinesOf(i) = lines
  BY <1>3 DEF LinesOf, Slice, CtlHostBase
<1>5. v \in VnfHosts /\ Slice(i) \subseteq ControllerHosts(numCtls)
  BY Addresses, Slices
<1> HIDE DEF s, e, v
<1>6. k \in Nat
  BY <1>2
<1> HIDE DEF k
<1>7. ASSUME NEW n \in 1 .. k PROVE 2 + s + n - 1 \in Slice(i)
  BY <1>2, <1>3, <1>6 DEF k
<1>8. lines \in [1 .. k -> Line]
  BY <1>5, <1>7 DEF Line
<1>9. lines \in Seq(Line)
  BY <1>6, <1>8, SeqDef
<1>10. Len(lines) = k
  BY <1>6, <1>8, <1>9, LenProperties
<1>11. NoRepeats(lines)
  <2> SUFFICES ASSUME NEW m \in 1 .. k, NEW n \in 1 .. k, lines[m] = lines[n] PROVE m = n
    BY <1>10 DEF NoRepeats
  <2>1. 2 + s + m - 1 = 2 + s + n - 1
    <3>1. lines[m].ctl = 2 + s + m - 1 /\ lines[n].ctl = 2 + s + n - 1
      OBVIOUS
    <3> HIDE DEF lines
    <3> QED
      BY <3>1
  <2> QED
    BY <1>2, <1>6, <2>1
<1>12. Elements(lines) = OwnLines(i)
  <2>1. ASSUME NEW n \in 1 .. k PROVE lines[n] \in OwnLines(i)
    BY <1>7 DEF OwnLines, v
  <2>2. ASSUME NEW h \in Slice(i) PROVE \E n \in 1 .. k : lines[n] = [vnf |-> v, ctl |-> h]
    <3>1. h - s - 1 \in 1 .. k /\ 2 + s + (h - s - 1) - 1 = h
      BY <1>2, <1>3, <1>6 DEF k
    <3> QED
      BY <3>1
  <2>3. Elements(lines) = { lines[n] : n \in 1 .. k }
    BY <1>10 DEF Elements
  <2> HIDE DEF lines
  <2>4. Elements(lines) \subseteq OwnLines(i)
    BY <2>1, <2>3
  <2>5. OwnLines(i) \subseteq Elements(lines)
    BY <2>2, <2>3 DEF OwnLines, v
  <2> QED
    BY <2>4, <2>5
<1> QED
  BY <1>4, <1>9, <1>11, <1>12

\* An order without repetition of as many VNFs as there are has them all.
LEMMA OrderIsOnto ==
    ASSUME Numbers, NEW order \in [1 .. numVnfs -> VnfIds(numVnfs)], IsInjective(order)
    PROVE  \A i \in VnfIds(numVnfs) : \E n \in 1 .. numVnfs : order[n] = i
<1>1. numVnfs \in Nat \ {0}
  BY Addresses
<1>2. /\ IsFiniteSet(VnfIds(numVnfs)) /\ Cardinality(VnfIds(numVnfs)) = numVnfs
      /\ Cardinality(1 .. numVnfs) = numVnfs
  <2>1. 0 \in Int /\ 1 \in Int /\ numVnfs \in Int /\ numVnfs - 1 \in Int
    BY <1>1
  <2>2. /\ IsFiniteSet(0 .. numVnfs - 1)
        /\ Cardinality(0 .. numVnfs - 1) =
              IF 0 > numVnfs - 1 THEN 0 ELSE (numVnfs - 1) - 0 + 1
        /\ Cardinality(1 .. numVnfs) = IF 1 > numVnfs THEN 0 ELSE numVnfs - 1 + 1
    BY <2>1, FS_Interval
  <2> QED
    BY <1>1, <2>2 DEF VnfIds
<1>3. order \in Injection(1 .. numVnfs, VnfIds(numVnfs))
  BY DEF Injection
<1>4. order \in Surjection(1 .. numVnfs, VnfIds(numVnfs))
  BY <1>2, <1>3, FS_Injection
<1> QED
  BY <1>4 DEF Surjection

LEMMA PrintedFile ==
    ASSUME Numbers, NEW order \in [1 .. numVnfs -> VnfIds(numVnfs)], IsInjective(order)
    PROVE  Complete(FlattenSeq([n \in 1 .. numVnfs |-> LinesOf(order[n])]))
<1> DEFINE ss == [n \in 1 .. numVnfs |-> LinesOf(order[n])]
<1>1. numVnfs \in Nat \ {0}
  BY Addresses
<1>2. \A n \in 1 .. numVnfs :
         /\ order[n] \in VnfIds(numVnfs) /\ ss[n] \in Seq(Line)
         /\ Elements(ss[n]) = OwnLines(order[n]) /\ NoRepeats(ss[n])
  BY LinesOfVnf
<1>3. ss \in [1 .. numVnfs -> Seq(Line)]
  BY LinesOfVnf
<1> HIDE DEF ss
<1>4. \A m, n \in 1 .. numVnfs : m # n => Elements(ss[m]) \cap Elements(ss[n]) = {}
  <2> SUFFICES ASSUME NEW m \in 1 .. numVnfs, NEW n \in 1 .. numVnfs, m # n
               PROVE  OwnLines(order[m]) \cap OwnLines(order[n]) = {}
    BY <1>2
  <2>1. order[m] # order[n] /\ order[m] \in VnfIds(numVnfs) /\ order[n] \in VnfIds(numVnfs)
    BY DEF IsInjective
  <2>2. VnfHost(numCtls, order[m]) # VnfHost(numCtls, order[n])
    BY <2>1, Addresses
  <2>3. \A l \in OwnLines(order[m]) : l.vnf = VnfHost(numCtls, order[m])
    BY DEF OwnLines
  <2>4. \A l \in OwnLines(order[n]) : l.vnf = VnfHost(numCtls, order[n])
    BY DEF OwnLines
  <2> QED
    BY <2>2, <2>3, <2>4
<1>5. UNION { Elements(ss[n]) : n \in 1 .. numVnfs } =
         UNION { OwnLines(i) : i \in VnfIds(numVnfs) }
  <2>1. ASSUME NEW l, NEW n \in 1 .. numVnfs, l \in Elements(ss[n])
        PROVE  \E i \in VnfIds(numVnfs) : l \in OwnLines(i)
    BY <1>2, <2>1
  <2>2. ASSUME NEW l, NEW i \in VnfIds(numVnfs), l \in OwnLines(i)
        PROVE  \E n \in 1 .. numVnfs : l \in Elements(ss[n])
    <3>1. PICK n \in 1 .. numVnfs : order[n] = i
      BY OrderIsOnto
    <3> QED
      BY <1>2, <2>2, <3>1
  <2> QED
    BY <2>1, <2>2
<1>6. /\ FlattenSeq(ss) \in Seq(Line)
      /\ Elements(FlattenSeq(ss)) = UNION { Elements(ss[n]) : n \in 1 .. numVnfs }
      /\ NoRepeats(FlattenSeq(ss))
  BY <1>1, <1>2, <1>3, <1>4, FlattenElements
<1>7. Complete(FlattenSeq(ss))
  BY <1>5, <1>6 DEF Complete
<1> QED
  BY <1>7 DEF ss

(***************************************************************************)
(* What the readers of a complete file find.                               *)
(***************************************************************************)
LEMMA Lookup ==
    ASSUME Numbers, Complete(file)
    PROVE  /\ file # <<>> /\ Len(file) \in DOMAIN file
           /\ \A n \in DOMAIN file : \E i \in VnfIds(numVnfs) : \E h \in Slice(i) :
                 file[n] = [vnf |-> VnfHost(numCtls, i), ctl |-> h]
           /\ \A i \in VnfIds(numVnfs) : \A h \in Slice(i) : \E n \in DOMAIN file :
                 file[n] = [vnf |-> VnfHost(numCtls, i), ctl |-> h]
           /\ \A m, n \in DOMAIN file : file[m].ctl = file[n].ctl => m = n
<1>1. /\ DOMAIN file = 1 .. Len(file) /\ Len(file) \in Nat
      /\ file \in [1 .. Len(file) -> Line]
  BY LenProperties DEF Complete
<1>2. \A n \in DOMAIN file : \E i \in VnfIds(numVnfs) : \E h \in Slice(i) :
         file[n] = [vnf |-> VnfHost(numCtls, i), ctl |-> h]
  <2> TAKE n \in DOMAIN file
  <2>1. file[n] \in Elements(file)
    BY <1>1 DEF Elements
  <2> QED
    BY <2>1 DEF Complete, OwnLines
<1>3. \A i \in VnfIds(numVnfs) : \A h \in Slice(i) : \E n \in DOMAIN file :
         file[n] = [vnf |-> VnfHost(numCtls, i), ctl |-> h]
  <2> TAKE i \in VnfIds(numVnfs)
  <2> TAKE h \in Slice(i)
  <2>1. [vnf |-> VnfHost(numCtls, i), ctl |-> h] \in Elements(file)
    BY DEF Complete, OwnLines
  <2> QED
    BY <1>1, <2>1 DEF Elements
<1>4. \A m, n \in DOMAIN file : file[m].ctl = file[n].ctl => m = n
  <2> SUFFICES ASSUME NEW m \in DOMAIN file, NEW n \in DOMAIN file,
                      file[m].ctl = file[n].ctl
               PROVE  m = n
    OBVIOUS
  <2>1. PICK i \in VnfIds(numVnfs) : \E h \in Slice(i) :
           file[m] = [vnf |-> VnfHost(numCtls, i), ctl |-> h]
    BY <1>2
  <2>2. PICK j \in VnfIds(numVnfs) : \E h \in Slice(j) :
           file[n] = [vnf |-> VnfHost(numCtls, j), ctl |-> h]
    BY <1>2
  <2>3. file[m].ctl \in Slice(i) /\ file[m].ctl \in Slice(j)
    BY <2>1, <2>2
  <2>4. i = j
    BY <2>3, Slices
  <2>5. file[m] = file[n]
    BY <2>1, <2>2, <2>4
  <2> QED
    BY <1>1, <2>5 DEF Complete, NoRepeats
<1>5. file # <<>> /\ Len(file) \in DOMAIN file
  <2>1. CtlHostBase \in ControllerHosts(numCtls)
    BY Addresses DEF ControllerHosts, CtlHostBase
  <2>2. \E n \in DOMAIN file : TRUE
    BY <1>3, <2>1, Slices
  <2> QED
    BY <1>1, <2>2
<1> QED
  BY <1>2, <1>3, <1>4, <1>5

LEMMA Readers ==
    ASSUME Numbers, Complete(file)
    PROVE  /\ \A i \in VnfIds(numVnfs) :
                 /\ HostsOf(VnfHost(numCtls, i)) = Slice(i)
                 /\ Span(Slice(i)) = Slice(i)
                 /\ \A h \in Slice(i) : ReadVnf(h) = VnfHost(numCtls, i)
           /\ \A h : HostsOf(h) # {} => h \in VnfHosts
           /\ \A h \in Hosts : ReadVnf(h) \in VnfHosts
<1>1. ASSUME NEW i \in VnfIds(numVnfs)
      PROVE  HostsOf(VnfHost(numCtls, i)) = Slice(i)
  <2>1. ASSUME NEW n \in DOMAIN file, file[n].vnf = VnfHost(numCtls, i)
        PROVE  file[n].ctl \in Slice(i)
    <3>1. PICK j \in VnfIds(numVnfs) : \E h \in Slice(j) :
             file[n] = [vnf |-> VnfHost(numCtls, j), ctl |-> h]
      BY Lookup
    <3>2. VnfHost(numCtls, j) = VnfHost(numCtls, i) /\ file[n].ctl \in Slice(j)
      BY <2>1, <3>1
    <3> QED
      BY <3>2, Addresses
  <2>2. ASSUME NEW h \in Slice(i)
        PROVE  \E n \in DOMAIN file : file[n].vnf = VnfHost(numCtls, i) /\ file[n].ctl = h
    BY Lookup
  <2> QED
    BY <2>1, <2>2 DEF HostsOf
<1>2. ASSUME NEW i \in VnfIds(numVnfs) PROVE Span(Slice(i)) = Slice(i)
  <2>1. Slice(i) \subseteq ControllerHosts(numCtls) /\ ControllerHosts(numCtls) \subseteq Nat
    BY Addresses, Slices
  <2>2. \A a, b \in Slice(i) : \A g \in Nat : a <= g /\ g <= b => g \in Slice(i)
    BY Slices
  <2>3. \A g \in Slice(i) : g <= g
    BY <2>1
  <2> QED
    BY <2>1, <2>2, <2>3 DEF Span
<1>3. ASSUME NEW i \in VnfIds(numVnfs), NEW h \in Slice(i)
      PROVE  ReadVnf(h) = VnfHost(numCtls, i)
  <2>1. PICK n \in DOMAIN file : file[n] = [vnf |-> VnfHost(numCtls, i), ctl |-> h]
    BY Lookup
  <2>2. \A m \in DOMAIN file : file[m].ctl = h => m = n
    BY <2>1, Lookup
  <2>3. \A m \in 1 .. n - 1 : file[m].ctl # h
    <3>1. DOMAIN file = 1 .. Len(file) /\ Len(file) \in Nat
      BY LenProperties DEF Complete
    <3>2. \A m \in 1 .. n - 1 : m \in DOMAIN file /\ m # n
      BY <3>1
    <3> QED
      BY <2>2, <3>2
  <2> DEFINE First(m) == file[m].ctl = h /\ \A l \in 1 .. m - 1 : file[l].ctl # h
  <2>4. First(n) /\ \A m \in DOMAIN file : First(m) => m = n
    BY <2>1, <2>2, <2>3
  <2>5. (CHOOSE m \in DOMAIN file : First(m)) = n
    <3> HIDE DEF First
    <3> QED
      BY <2>4
  <2>6. \E m \in DOMAIN file : file[m].ctl = h
    BY <2>1
  <2>7. ReadVnf(h) = file[CHOOSE m \in DOMAIN file : First(m)].vnf
    BY <2>6 DEF ReadVnf
  <2>8. file[n].vnf = VnfHost(numCtls, i)
    BY <2>1
  <2> DEFINE first == CHOOSE m \in DOMAIN file : First(m)
  <2>9. first = n /\ ReadVnf(h) = file[first].vnf
    BY <2>5, <2>7
  <2> HIDE DEF first
  <2> QED
    BY <2>8, <2>9
<1>4. ASSUME NEW h, HostsOf(h) # {} PROVE h \in VnfHosts
  <2>1. PICK n \in DOMAIN file : file[n].vnf = h
    BY <1>4 DEF HostsOf
  <2> QED
    BY <2>1, Lookup DEF VnfHosts
<1>5. ASSUME NEW h PROVE ReadVnf(h) \in VnfHosts
  <2>1. \A n \in DOMAIN file : file[n].vnf \in VnfHosts /\ file[n].ctl \in ControllerHosts(numCtls)
    BY Lookup, Slices DEF VnfHosts
  <2>2. CASE \E n \in DOMAIN file : file[n].ctl = h
    <3>1. PICK n \in DOMAIN file : file[n].ctl = h
      BY <2>2
    <3>2. PICK i \in VnfIds(numVnfs) : h \in Slice(i)
      BY <2>1, <3>1, Slices
    <3> QED
      BY <1>3, <3>2 DEF VnfHosts
  <2>3. CASE ~ \E n \in DOMAIN file : file[n].ctl = h
    BY <2>1, <2>3, Lookup DEF ReadVnf, LastVnf
  <2> QED
    BY <2>2, <2>3
<1> QED
  BY <1>1, <1>2, <1>3, <1>4, <1>5

-----------------------------------------------------------------------------
(***************************************************************************)
(* The inductive invariant.  Until the file is printed nothing runs; from  *)
(* then on it is complete.  A host has the VNF and the domain that it has  *)
(* read there, only a VNF's gets further than its start, and its acceptor  *)
(* has the id of its line.  No more containers run than have started, and  *)
(* none at an address beyond those that network.py has numbered.           *)
(***************************************************************************)
Fresh ==
    /\ launched = 0 /\ interrupted = {}
    /\ \A h \in Hosts :
          phase[h] = "off" /\ toVnf[h] = NoHost /\ domain[h] = {} /\ acceptor[h] = NoId

FileInv ==
    IF main = "print" THEN file = <<>> /\ Fresh ELSE Complete(file)

ReadInv ==
    \A h \in Hosts :
        /\ toVnf[h] # NoHost => toVnf[h] = ReadVnf(h)
        /\ domain[h] # {} => domain[h] = Span(HostsOf(h))

RoleInv ==
    \A h \in Hosts :
        /\ phase[h] \in {"listening", "servers", "client"} => h \in VnfHosts
        /\ acceptor[h] # NoId => h = VnfHost(numCtls, acceptor[h])

RunningHosts == { h \in Hosts : Running(h) }
Foreseen     == ControllerHosts(numCtls) \cup VnfHosts

CountInv == RunningHosts \subseteq Foreseen /\ Cardinality(RunningHosts) <= started

\* What TypeOK says, but for the lines of the file, which FileInv does.
Types ==
    /\ Numbers
    /\ main \in {"print", "running", "interrupted"}
    /\ launched \in 0 .. ToLaunch /\ started \in 0 .. launched
    /\ phase \in [Hosts -> {"off", "started", "listening", "servers", "client"}]
    /\ toVnf \in [Hosts -> VnfHosts \cup {NoHost}]
    /\ connected \in [Hosts -> BOOLEAN]
    /\ domain \in [Hosts -> SUBSET ControllerHosts(numCtls)]
    /\ acceptor \in [Hosts -> VnfIds(numVnfs) \cup {NoId}]
    /\ ended \subseteq Hosts /\ interrupted \subseteq Hosts

InterruptInv == interrupts \in Cardinality(interrupted) .. MaxInterrupts

DeploymentInv ==
    Types /\ InterruptInv /\ FileInv /\ ReadInv /\ RoleInv /\ CountInv

LEMMA FiniteHosts ==
    ASSUME NEW S, S \subseteq Hosts
    PROVE  IsFiniteSet(S) /\ Cardinality(S) \in Nat
<1>1. IsFiniteSet(Hosts)
  <2>1. CtlHostBase \in Int /\ CtlHostBase + MaxCtls + MaxVnfs - 1 \in Int
    BY DeploymentAssumption DEF CtlHostBase
  <2> QED
    BY <2>1, FS_Interval DEF Hosts
<1> QED
  BY <1>1, FS_Subset, FS_CardinalityType

\* Nothing that is read of a network changes once its file is printed.
LEMMA NetKept ==
    ASSUME numCtls' = numCtls, numVnfs' = numVnfs
    PROVE  /\ Numbers' = Numbers /\ VnfHosts' = VnfHosts /\ Foreseen' = Foreseen
           /\ ToLaunch' = ToLaunch
           /\ file' = file =>
                 /\ Complete(file)' = Complete(file)
                 /\ \A h : ReadVnf(h)' = ReadVnf(h) /\ Span(HostsOf(h))' = Span(HostsOf(h))
<1>1. Numbers' = Numbers
  BY DEF Numbers
<1>2. VnfHosts' = VnfHosts
  BY DEF VnfHosts
<1>3. ToLaunch' = ToLaunch /\ Foreseen' = Foreseen
  BY <1>2 DEF ToLaunch, Foreseen
<1>4. ASSUME file' = file PROVE Complete(file)' = Complete(file)
  BY <1>2, <1>4 DEF Complete, Line, OwnLines, Slice
<1>5. ASSUME file' = file, NEW h
      PROVE  ReadVnf(h)' = ReadVnf(h) /\ Span(HostsOf(h))' = Span(HostsOf(h))
  BY <1>5 DEF ReadVnf, LastVnf, Span, HostsOf
<1> QED
  BY <1>1, <1>2, <1>3, <1>4, <1>5

LEMMA InitInv ==
    ASSUME Init
    PROVE  DeploymentInv
<1>1. Numbers /\ Types
  <2>1. Numbers
    BY DEF Init, Numbers
  <2>2. ToLaunch \in Nat
    BY <2>1, Addresses DEF ToLaunch
  <2> QED
    BY <2>1, <2>2 DEF Init, Types
<1>2. InterruptInv
  <2>1. Cardinality(interrupted) = 0
    BY FS_EmptySet DEF Init
  <2> QED
    BY <2>1, DeploymentAssumption DEF Init, InterruptInv
<1>3. FileInv /\ ReadInv /\ RoleInv
  BY DEF Init, FileInv, Fresh, ReadInv, RoleInv
<1>4. CountInv
  <2>1. RunningHosts = {}
    BY DEF Init, RunningHosts, Running
  <2>2. Cardinality({}) = 0
    BY FS_EmptySet
  <2> QED
    BY <2>1, <2>2 DEF Init, CountInv
<1> QED
  BY <1>1, <1>2, <1>3, <1>4 DEF DeploymentInv

\* A host runs only when the file is there.
LEMMA RunningReads ==
    ASSUME DeploymentInv, NEW h \in Hosts, Running(h)
    PROVE  main # "print" /\ Complete(file)
BY DEF DeploymentInv, FileInv, Fresh, Running

-----------------------------------------------------------------------------
(* network.py *)

LEMMA PrintDomainStep ==
    ASSUME DeploymentInv, PrintDomain
    PROVE  DeploymentInv'
<1> USE DEF PrintDomain
<1>1. Fresh /\ Numbers
  BY DEF DeploymentInv, FileInv, Types
<1>2. Types' /\ InterruptInv'
  BY NetKept DEF DeploymentInv, Types, InterruptInv, ends
<1>3. FileInv'
  <2>1. PICK order \in [1 .. numVnfs -> VnfIds(numVnfs)] :
           /\ IsInjective(order)
           /\ file' = FlattenSeq([n \in 1 .. numVnfs |-> LinesOf(order[n])])
    OBVIOUS
  <2>2. Complete(file')
    BY <1>1, <2>1, PrintedFile
  <2>3. Complete(file)' = Complete(file')
    BY NetKept DEF Complete, Line, OwnLines, Slice
  <2> QED
    BY <2>2, <2>3 DEF FileInv
<1>4. ReadInv' /\ RoleInv'
  BY <1>1 DEF ReadInv, RoleInv, Fresh
<1>5. CountInv'
  BY NetKept DEF DeploymentInv, CountInv, RunningHosts, Running
<1> QED
  BY <1>2, <1>3, <1>4, <1>5 DEF DeploymentInv

LEMMA RunContainerStep ==
    ASSUME DeploymentInv, RunContainer
    PROVE  DeploymentInv'
<1> USE DEF RunContainer
<1>1. Types'
  <2>1. numCtls \in Nat /\ numVnfs \in Nat
    BY Addresses DEF DeploymentInv, Types
  <2>2. launched' \in 0 .. ToLaunch /\ started \in 0 .. launched'
    BY <2>1 DEF DeploymentInv, Types, ToLaunch
  <2> QED
    BY <2>2, NetKept DEF DeploymentInv, Types, ends
<1>2. FileInv' /\ ReadInv'
  BY NetKept DEF DeploymentInv, FileInv, ReadInv
<1>3. RoleInv' /\ CountInv' /\ InterruptInv'
  BY NetKept DEF DeploymentInv, RoleInv, CountInv, RunningHosts, Running, InterruptInv, ends
<1> QED
  BY <1>1, <1>2, <1>3 DEF DeploymentInv

-----------------------------------------------------------------------------
(* What ends hosts: stop_network(), NoDomain, and the end of a container. *)

LEMMA ClearKeeps ==
    ASSUME DeploymentInv, NEW gone, Clear(gone), numCtls' = numCtls, numVnfs' = numVnfs,
           started' = started, file' = file, main # "print", main' # "print"
    PROVE  /\ phase' \in [Hosts -> {"off", "started", "listening", "servers", "client"}]
           /\ toVnf' \in [Hosts -> VnfHosts \cup {NoHost}]
           /\ connected' \in [Hosts -> BOOLEAN]
           /\ domain' \in [Hosts -> SUBSET ControllerHosts(numCtls)]
           /\ acceptor' \in [Hosts -> VnfIds(numVnfs) \cup {NoId}]
           /\ FileInv' /\ ReadInv' /\ RoleInv' /\ CountInv'
<1> USE DEF Clear
<1>1. /\ phase' \in [Hosts -> {"off", "started", "listening", "servers", "client"}]
      /\ toVnf' \in [Hosts -> VnfHosts \cup {NoHost}]
  BY DEF DeploymentInv, Types
<1>2. connected' \in [Hosts -> BOOLEAN]
  BY DEF DeploymentInv, Types
<1>3. domain' \in [Hosts -> SUBSET ControllerHosts(numCtls)]
  BY DEF DeploymentInv, Types
<1>4. acceptor' \in [Hosts -> VnfIds(numVnfs) \cup {NoId}]
  BY DEF DeploymentInv, Types
<1>5. FileInv'
  BY NetKept DEF DeploymentInv, FileInv
<1>6. ReadInv'
  BY NetKept DEF DeploymentInv, ReadInv
<1>7. RoleInv'
  BY NetKept DEF DeploymentInv, RoleInv
<1>8. CountInv'
  <2>1. RunningHosts' \subseteq RunningHosts /\ RunningHosts \subseteq Hosts
    BY DEF RunningHosts, Running
  <2>2. Cardinality(RunningHosts') <= Cardinality(RunningHosts)
    BY <2>1, FiniteHosts, FS_Subset
  <2>3. /\ Cardinality(RunningHosts') \in Nat /\ Cardinality(RunningHosts) \in Nat
        /\ started \in Nat
    BY <2>1, FiniteHosts, Addresses DEF DeploymentInv, Types
  <2> QED
    BY <2>1, <2>2, <2>3, NetKept DEF DeploymentInv, CountInv
<1> QED
  BY <1>1, <1>2, <1>3, <1>4, <1>5, <1>6, <1>7, <1>8

LEMMA StopNetworkStep ==
    ASSUME DeploymentInv, StopNetwork
    PROVE  DeploymentInv'
<1> USE DEF StopNetwork
<1>1. /\ phase' \in [Hosts -> {"off", "started", "listening", "servers", "client"}]
      /\ toVnf' \in [Hosts -> VnfHosts \cup {NoHost}]
      /\ connected' \in [Hosts -> BOOLEAN]
      /\ domain' \in [Hosts -> SUBSET ControllerHosts(numCtls)]
      /\ acceptor' \in [Hosts -> VnfIds(numVnfs) \cup {NoId}]
      /\ FileInv' /\ ReadInv' /\ RoleInv' /\ CountInv'
  BY ClearKeeps
<1>2. Types'
  BY <1>1, NetKept DEF DeploymentInv, Types
<1>3. InterruptInv'
  <2>1. Cardinality(interrupted') = 0
    BY FS_EmptySet
  <2>2. Cardinality(interrupted) \in Nat
    BY FiniteHosts DEF DeploymentInv, Types
  <2> QED
    BY <2>1, <2>2, DeploymentAssumption DEF DeploymentInv, InterruptInv
<1> QED
  BY <1>1, <1>2, <1>3 DEF DeploymentInv

LEMMA NoDomainStep ==
    ASSUME DeploymentInv, NEW h \in Hosts, NoDomain(h)
    PROVE  DeploymentInv'
<1> USE DEF NoDomain, net
<1>1. main # "print"
  BY RunningReads DEF Running
<1>2. /\ phase' \in [Hosts -> {"off", "started", "listening", "servers", "client"}]
      /\ toVnf' \in [Hosts -> VnfHosts \cup {NoHost}]
      /\ connected' \in [Hosts -> BOOLEAN]
      /\ domain' \in [Hosts -> SUBSET ControllerHosts(numCtls)]
      /\ acceptor' \in [Hosts -> VnfIds(numVnfs) \cup {NoId}]
      /\ FileInv' /\ ReadInv' /\ RoleInv' /\ CountInv'
  BY <1>1, ClearKeeps
<1>3. Types' /\ InterruptInv'
  BY <1>2, NetKept DEF DeploymentInv, Types, InterruptInv
<1> QED
  BY <1>2, <1>3 DEF DeploymentInv

LEMMA ContainerEndsStep ==
    ASSUME DeploymentInv, NEW h \in Hosts, ContainerEnds(h)
    PROVE  DeploymentInv'
<1> USE DEF ContainerEnds, net
<1>1. main # "print"
  BY DEF DeploymentInv, FileInv, Fresh
<1>2. /\ phase' \in [Hosts -> {"off", "started", "listening", "servers", "client"}]
      /\ toVnf' \in [Hosts -> VnfHosts \cup {NoHost}]
      /\ connected' \in [Hosts -> BOOLEAN]
      /\ domain' \in [Hosts -> SUBSET ControllerHosts(numCtls)]
      /\ acceptor' \in [Hosts -> VnfIds(numVnfs) \cup {NoId}]
      /\ FileInv' /\ ReadInv' /\ RoleInv' /\ CountInv'
  BY <1>1, ClearKeeps
<1>3. Types'
  BY <1>2, NetKept DEF DeploymentInv, Types
<1>4. InterruptInv'
  <2>1. Cardinality(interrupted') \in Nat /\ Cardinality(interrupted) \in Nat
    BY FiniteHosts DEF DeploymentInv, Types
  <2>2. Cardinality(interrupted') <= Cardinality(interrupted)
    BY FiniteHosts, FS_Subset DEF DeploymentInv, Types
  <2> QED
    BY <2>1, <2>2, DeploymentAssumption DEF DeploymentInv, InterruptInv
<1> QED
  BY <1>2, <1>3, <1>4 DEF DeploymentInv

-----------------------------------------------------------------------------
(***************************************************************************)
(* Docker.  As long as network.py has run more containers than have        *)
(* started, an address that it has numbered is free: so is the lowest.     *)
(***************************************************************************)
LEMMA AddressFree ==
    ASSUME DeploymentInv, started < launched
    PROVE  LowestFree \in Foreseen /\ LowestFree \in Hosts /\ ~ Running(LowestFree)
<1> DEFINE Free == Hosts \ RunningHosts
           IsLowest(h) == ~ Running(h) /\ \A g \in CtlHostBase .. h - 1 : Running(g)
<1>1. /\ Foreseen = CtlHostBase .. numCtls + numVnfs + 1
      /\ Foreseen \subseteq Hosts /\ Hosts \subseteq Nat
      /\ numCtls \in Nat \ {0} /\ numVnfs \in Nat \ {0}
  BY Addresses DEF DeploymentInv, Types, Foreseen
<1>2. Cardinality(Foreseen) = ToLaunch
  <2> DEFINE b == numCtls + numVnfs + 1
  <2>1. 2 \in Int /\ b \in Int /\ b >= 2 /\ b - 2 + 1 = ToLaunch
    BY <1>1 DEF ToLaunch
  <2>2. Foreseen = 2 .. b
    BY <1>1 DEF CtlHostBase
  <2> HIDE DEF b
  <2>3. Cardinality(2 .. b) = IF 2 > b THEN 0 ELSE b - 2 + 1
    BY <2>1, FS_Interval
  <2> QED
    BY <2>1, <2>2, <2>3
<1>3. Foreseen \ RunningHosts # {}
  <2> SUFFICES ASSUME Foreseen \subseteq RunningHosts PROVE FALSE
    OBVIOUS
  <2>1. RunningHosts = Foreseen
    BY DEF DeploymentInv, CountInv
  <2>2. ToLaunch <= started
    BY <1>2, <2>1 DEF DeploymentInv, CountInv
  <2>3. started \in Nat /\ launched \in Nat /\ launched <= ToLaunch /\ ToLaunch \in Nat
    BY <1>1 DEF DeploymentInv, Types, ToLaunch
  <2> QED
    BY <2>2, <2>3
<1>4. PICK f \in Foreseen : f \in Free
  BY <1>1, <1>3
<1>5. PICK h \in Free : \A g \in Free : h <= g
  BY <1>1, <1>4, LeastNat
<1>6. h \in Foreseen
  <2>1. h <= f /\ h \in Hosts
    BY <1>4, <1>5
  <2>2. CtlHostBase <= h /\ h \in Nat
    BY <1>1, <2>1 DEF Hosts, CtlHostBase
  <2> QED
    BY <1>1, <1>4, <2>1, <2>2 DEF CtlHostBase
<1>7. IsLowest(h)
  <2>1. ~ Running(h)
    BY <1>5 DEF RunningHosts
  <2>2. ASSUME NEW g \in CtlHostBase .. h - 1 PROVE Running(g)
    <3>1. g \in Foreseen /\ ~ (h <= g)
      BY <1>1, <1>6 DEF CtlHostBase
    <3> QED
      BY <1>1, <1>5, <3>1 DEF RunningHosts
  <2> QED
    BY <2>1, <2>2
<1>8. ASSUME NEW l \in Hosts, IsLowest(l) PROVE l = h
  <2>1. l \in Nat /\ h \in Nat /\ CtlHostBase <= l /\ CtlHostBase <= h
    BY <1>1, <1>5 DEF Hosts, CtlHostBase
  <2>2. ~ (l < h)
    <3> SUFFICES ASSUME l < h PROVE FALSE
      OBVIOUS
    <3>1. l \in CtlHostBase .. h - 1
      BY <2>1 DEF CtlHostBase
    <3> QED
      BY <1>7, <1>8, <3>1
  <2>3. ~ (h < l)
    <3> SUFFICES ASSUME h < l PROVE FALSE
      OBVIOUS
    <3>1. h \in CtlHostBase .. l - 1
      BY <2>1 DEF CtlHostBase
    <3> QED
      BY <1>7, <1>8, <3>1
  <2> QED
    BY <2>1, <2>2, <2>3
<1>9. h \in Hosts
  BY <1>5
<1>10. LowestFree = h
  <2>1. LowestFree = CHOOSE l \in Hosts : IsLowest(l)
    BY DEF LowestFree
  <2> HIDE DEF IsLowest
  <2> QED
    BY <1>7, <1>8, <1>9, <2>1
<1> QED
  BY <1>6, <1>7, <1>9, <1>10

LEMMA StartContainerStep ==
    ASSUME DeploymentInv, StartContainer
    PROVE  DeploymentInv'
<1> DEFINE l == LowestFree
<1>1. l \in Foreseen /\ l \in Hosts /\ ~ Running(l)
  BY AddressFree DEF StartContainer
<1>2. /\ started < launched /\ started' = started + 1
      /\ phase' = [phase EXCEPT ![l] = "started"]
      /\ UNCHANGED <<net, toVnf, connected, domain, acceptor, ends>>
  BY DEF StartContainer
<1> HIDE DEF l
<1> USE DEF net, ends
<1>3. Types' /\ InterruptInv'
  <2>1. started' \in 0 .. launched'
    BY <1>2 DEF DeploymentInv, Types
  <2>2. phase' \in [Hosts -> {"off", "started", "listening", "servers", "client"}]
    BY <1>2 DEF DeploymentInv, Types
  <2> QED
    BY <1>2, <2>1, <2>2, NetKept DEF DeploymentInv, Types, InterruptInv
<1>4. FileInv'
  <2>1. main # "print"
    BY <1>2 DEF DeploymentInv, FileInv, Fresh, Types
  <2> QED
    BY <1>2, <2>1, NetKept DEF DeploymentInv, FileInv
<1>5. ReadInv' /\ RoleInv'
  BY <1>2, NetKept DEF DeploymentInv, ReadInv, RoleInv, Types
<1>6. CountInv'
  <2>1. RunningHosts' = RunningHosts \cup {l}
    BY <1>1, <1>2 DEF RunningHosts, Running, DeploymentInv, Types
  <2>2. l \notin RunningHosts /\ RunningHosts \subseteq Hosts
    BY <1>1 DEF RunningHosts
  <2>3. Cardinality(RunningHosts') = Cardinality(RunningHosts) + 1
    BY <2>1, <2>2, FiniteHosts, FS_AddElement
  <2>4. Cardinality(RunningHosts) \in Nat /\ started \in Nat
    BY <2>2, FiniteHosts DEF DeploymentInv, Types
  <2> QED
    BY <1>1, <1>2, <2>1, <2>3, <2>4, NetKept DEF DeploymentInv, CountInv
<1> QED
  BY <1>3, <1>4, <1>5, <1>6 DEF DeploymentInv

-----------------------------------------------------------------------------
(* ryu-manager and vnf-manager.py on a host. *)

LEMMA FindVnfStep ==
    ASSUME DeploymentInv, NEW h \in Hosts, FindVnf(h)
    PROVE  DeploymentInv'
<1> USE DEF FindVnf, net, ends
<1>1. main # "print" /\ Complete(file) /\ Numbers
  BY RunningReads DEF DeploymentInv, Types
<1>2. Types' /\ InterruptInv'
  <2>1. ReadVnf(h) \in VnfHosts
    BY <1>1, Readers
  <2>2. toVnf' \in [Hosts -> VnfHosts \cup {NoHost}]
    BY <2>1 DEF DeploymentInv, Types
  <2> QED
    BY <2>2, NetKept DEF DeploymentInv, Types, InterruptInv
<1>3. FileInv' /\ ReadInv'
  BY <1>1, NetKept DEF DeploymentInv, FileInv, ReadInv, Types
<1>4. RoleInv' /\ CountInv'
  BY NetKept DEF DeploymentInv, RoleInv, CountInv, RunningHosts, Running
<1> QED
  BY <1>2, <1>3, <1>4 DEF DeploymentInv

LEMMA ConnectStep ==
    ASSUME DeploymentInv, NEW h \in Hosts, Connect(h)
    PROVE  DeploymentInv'
<1> USE DEF Connect, net, ends
<1>1. Types' /\ InterruptInv'
  BY NetKept DEF DeploymentInv, Types, InterruptInv
<1>2. FileInv' /\ ReadInv'
  BY NetKept DEF DeploymentInv, FileInv, ReadInv, Fresh
<1>3. RoleInv' /\ CountInv'
  BY NetKept DEF DeploymentInv, RoleInv, CountInv, RunningHosts, Running
<1> QED
  BY <1>1, <1>2, <1>3 DEF DeploymentInv

\* A step of a host that runs and goes on running, seen from its phase.
LEMMA PhaseStep ==
    ASSUME DeploymentInv, NEW h \in Hosts, Running(h), UNCHANGED <<net, started, toVnf, connected>>,
           UNCHANGED ends, NEW p \in {"started", "listening", "servers", "client"},
           phase' = [phase EXCEPT ![h] = p]
    PROVE  /\ main # "print" /\ Complete(file) /\ FileInv' /\ CountInv' /\ InterruptInv'
           /\ phase' \in [Hosts -> {"off", "started", "listening", "servers", "client"}]
<1> USE DEF net, ends
<1>1. main # "print" /\ Complete(file)
  BY RunningReads
<1>2. FileInv' /\ InterruptInv'
  BY <1>1, NetKept DEF DeploymentInv, FileInv, InterruptInv
<1>3. CountInv'
  <2>1. RunningHosts' = RunningHosts
    BY DEF RunningHosts, Running, DeploymentInv, Types
  <2> QED
    BY <2>1, NetKept DEF DeploymentInv, CountInv
<1>4. phase' \in [Hosts -> {"off", "started", "listening", "servers", "client"}]
  BY DEF DeploymentInv, Types
<1> QED
  BY <1>1, <1>2, <1>3, <1>4

LEMMA FindDomainStep ==
    ASSUME DeploymentInv, NEW h \in Hosts, FindDomain(h)
    PROVE  DeploymentInv'
<1> USE DEF FindDomain
<1>1. /\ main # "print" /\ Complete(file) /\ FileInv' /\ CountInv' /\ InterruptInv'
      /\ phase' \in [Hosts -> {"off", "started", "listening", "servers", "client"}]
  BY PhaseStep DEF Running
<1> USE DEF net, ends
<1>2. Types'
  <2>1. domain' \in [Hosts -> SUBSET ControllerHosts(numCtls)]
    BY DEF DeploymentInv, Types, Span
  <2> QED
    BY <1>1, <2>1, NetKept DEF DeploymentInv, Types
<1>3. ReadInv'
  BY NetKept DEF DeploymentInv, ReadInv, Types
<1>4. RoleInv'
  <2>1. h \in VnfHosts
    BY <1>1, Readers DEF DeploymentInv, Types
  <2> QED
    BY <2>1, NetKept DEF DeploymentInv, RoleInv, Types
<1> QED
  BY <1>1, <1>2, <1>3, <1>4 DEF DeploymentInv

LEMMA RunServersStep ==
    ASSUME DeploymentInv, NEW h \in Hosts, RunServers(h)
    PROVE  DeploymentInv'
<1> USE DEF RunServers
<1>1. /\ main # "print" /\ Complete(file) /\ FileInv' /\ CountInv' /\ InterruptInv'
      /\ phase' \in [Hosts -> {"off", "started", "listening", "servers", "client"}]
  BY PhaseStep DEF Running
<1> USE DEF net, ends
<1>2. AcceptorId(h) \in VnfIds(numVnfs) /\ h = VnfHost(numCtls, AcceptorId(h)) /\ h \in VnfHosts
  <2>1. h \in VnfHosts
    BY DEF DeploymentInv, RoleInv
  <2>2. \E i \in VnfIds(numVnfs) : VnfHost(numCtls, i) = h
    BY <2>1 DEF VnfHosts
  <2> QED
    BY <2>1, <2>2 DEF AcceptorId
<1>3. Types' /\ ReadInv'
  BY <1>1, <1>2, NetKept DEF DeploymentInv, Types, ReadInv
<1>4. RoleInv'
  BY <1>2, NetKept DEF DeploymentInv, RoleInv, Types
<1> QED
  BY <1>1, <1>3, <1>4 DEF DeploymentInv

\* The client starts, or ends on SIGINT.
LEMMA ClientStep ==
    ASSUME DeploymentInv, NEW h \in Hosts, RunClient(h) \/ ClientEnds(h)
    PROVE  DeploymentInv'
<1> USE DEF RunClient, ClientEnds
<1>1. PICK p \in {"servers", "client"} : phase' = [phase EXCEPT ![h] = p]
  OBVIOUS
<1>2. /\ phase[h] \in {"servers", "client"}
      /\ UNCHANGED <<net, started, toVnf, connected, domain, acceptor, ends>>
  OBVIOUS
<1>3. /\ FileInv' /\ CountInv' /\ InterruptInv'
      /\ phase' \in [Hosts -> {"off", "started", "listening", "servers", "client"}]
  BY <1>1, <1>2, PhaseStep DEF Running
<1> USE DEF net, ends
<1>4. Types' /\ ReadInv'
  BY <1>2, <1>3, NetKept DEF DeploymentInv, Types, ReadInv
<1>5. RoleInv'
  BY <1>1, <1>2, NetKept DEF DeploymentInv, RoleInv, Types
<1> QED
  BY <1>3, <1>4, <1>5 DEF DeploymentInv

LEMMA InterruptStep ==
    ASSUME DeploymentInv, NEW h \in Hosts, Interrupt(h)
    PROVE  DeploymentInv'
<1> USE DEF Interrupt, net
<1>1. main # "print"
  BY RunningReads
<1>2. Types' /\ FileInv' /\ ReadInv'
  BY <1>1, NetKept DEF DeploymentInv, Types, FileInv, ReadInv
<1>3. RoleInv' /\ CountInv'
  BY NetKept DEF DeploymentInv, RoleInv, CountInv, RunningHosts, Running
<1>4. InterruptInv'
  <2>1. Cardinality(interrupted') = Cardinality(interrupted) + 1
    BY FiniteHosts, FS_AddElement DEF DeploymentInv, Types
  <2>2. Cardinality(interrupted) \in Nat
    BY FiniteHosts DEF DeploymentInv, Types
  <2> QED
    BY <2>1, <2>2, DeploymentAssumption DEF DeploymentInv, InterruptInv
<1> QED
  BY <1>2, <1>3, <1>4 DEF DeploymentInv

LEMMA AcceptorEndsStep ==
    ASSUME DeploymentInv, NEW h \in Hosts, AcceptorEnds(h)
    PROVE  DeploymentInv'
<1> USE DEF AcceptorEnds, net, ends
<1>1. Types' /\ InterruptInv'
  BY NetKept DEF DeploymentInv, Types, InterruptInv
<1>2. FileInv' /\ ReadInv'
  BY NetKept DEF DeploymentInv, FileInv, ReadInv, Fresh, Types
<1>3. RoleInv' /\ CountInv'
  BY NetKept DEF DeploymentInv, RoleInv, CountInv, RunningHosts, Running, Types
<1> QED
  BY <1>1, <1>2, <1>3 DEF DeploymentInv

-----------------------------------------------------------------------------
(***************************************************************************)
(* The theorems.                                                           *)
(***************************************************************************)
LEMMA StepInv ==
    ASSUME DeploymentInv, [Next]_vars
    PROVE  DeploymentInv'
<1>1. CASE PrintDomain
  BY <1>1, PrintDomainStep
<1>2. CASE RunContainer
  BY <1>2, RunContainerStep
<1>3. CASE StopNetwork
  BY <1>3, StopNetworkStep
<1>4. CASE StartContainer
  BY <1>4, StartContainerStep
<1>5. ASSUME NEW h \in Hosts, FindVnf(h) \/ Connect(h) \/ ManagerNext(h)
      PROVE  DeploymentInv'
  BY <1>5, FindVnfStep, ConnectStep, FindDomainStep, NoDomainStep, RunServersStep, ClientStep
     DEF ManagerNext
<1>6. ASSUME NEW h \in Hosts,
             Interrupt(h) \/ ClientEnds(h) \/ AcceptorEnds(h) \/ ContainerEnds(h)
      PROVE  DeploymentInv'
  BY <1>6, InterruptStep, ClientStep, AcceptorEndsStep, ContainerEndsStep
<1>7. CASE UNCHANGED vars
  <2> USE <1>7 DEF vars, net, ends
  <2>1. Types' /\ InterruptInv' /\ FileInv' /\ ReadInv'
    BY NetKept DEF DeploymentInv, Types, InterruptInv, FileInv, ReadInv, Fresh
  <2>2. RoleInv' /\ CountInv'
    BY NetKept DEF DeploymentInv, RoleInv, CountInv, RunningHosts, Running
  <2> QED
    BY <2>1, <2>2 DEF DeploymentInv
<1> QED
  BY <1>1, <1>2, <1>3, <1>4, <1>5, <1>6, <1>7 DEF Next

THEOREM DeploymentInvariant == Spec => []DeploymentInv
<1>1. Init => DeploymentInv
  BY InitInv
<1>2. DeploymentInv /\ [Next]_vars => DeploymentInv'
  BY StepInv
<1> QED
  BY <1>1, <1>2, PTL DEF Spec

(***************************************************************************)
(* Every variable stays in its range, whatever containers end and start:   *)
(* what network.py numbers, the lines that it writes, what each host does  *)
(* and knows, and the count of Ctrl-C.                                     *)
(***************************************************************************)
THEOREM DeploymentTypes == Spec => []TypeOK
<1>1. ASSUME DeploymentInv PROVE TypeOK
  <2>1. ASSUME NEW n \in DOMAIN file
        PROVE  file[n].vnf \in VnfHosts /\ file[n].ctl \in ControllerHosts(numCtls)
    <3>1. CASE main = "print"
      <4>1. file = <<>>
        BY <1>1, <3>1 DEF DeploymentInv, FileInv
      <4> QED
        BY <4>1
    <3>2. CASE main # "print"
      <4>1. Complete(file) /\ Numbers
        BY <1>1, <3>2 DEF DeploymentInv, FileInv, Types
      <4> QED
        BY <4>1, Lookup, Slices DEF VnfHosts
    <3> QED
      BY <3>1, <3>2
  <2> QED
    BY <1>1, <2>1 DEF DeploymentInv, Types, InterruptInv, Numbers, TypeOK
<1> QED
  BY <1>1, DeploymentInvariant, PTL

(***************************************************************************)
(* The two readers of the domain file, get_vnf() of a controller and       *)
(* get_domain() of a VNF's manager, agree: the VNF that a controller       *)
(* sends its requests to is the one that posts its rules, and no other.    *)
(***************************************************************************)
THEOREM ControllersPairedUp == Spec => []PairedUp
<1>1. ASSUME DeploymentInv PROVE PairedUp
  <2> SUFFICES ASSUME NEW h \in ControllerHosts(numCtls), NEW v \in VnfHosts,
                      toVnf[h] # NoHost, domain[v] # {}
               PROVE  toVnf[h] = v <=> h \in domain[v]
    BY DEF PairedUp
  <2>1. Numbers /\ h \in Hosts /\ v \in Hosts
    BY <1>1, Addresses DEF DeploymentInv, Types
  <2>2. Complete(file)
    BY <1>1, <2>1 DEF DeploymentInv, FileInv, Fresh
  <2>3. PICK i \in VnfIds(numVnfs) : v = VnfHost(numCtls, i)
    BY DEF VnfHosts
  <2>4. PICK j \in VnfIds(numVnfs) : h \in Slice(j)
    BY <2>1, Slices
  <2>5. domain[v] = Slice(i)
    BY <1>1, <2>1, <2>2, <2>3, Readers DEF DeploymentInv, ReadInv
  <2>6. toVnf[h] = VnfHost(numCtls, j)
    BY <1>1, <2>1, <2>2, <2>4, Readers DEF DeploymentInv, ReadInv
  <2>7. VnfHost(numCtls, j) = VnfHost(numCtls, i) <=> i = j
    BY <2>1, Addresses
  <2>8. h \in Slice(i) <=> i = j
    BY <2>1, <2>4, Slices
  <2> QED
    BY <2>3, <2>5, <2>6, <2>7, <2>8
<1> QED
  BY <1>1, DeploymentInvariant, PTL

(***************************************************************************)
(* build_domain() gives each controller to one VNF, whatever the order of  *)
(* the lines, and no VNF two controllers more than another.                *)
(***************************************************************************)
THEOREM ControllersEvenlyDivided == Spec => []EvenlyDivided
<1>1. ASSUME DeploymentInv PROVE EvenlyDivided
  <2> SUFFICES ASSUME main # "print"
               PROVE  /\ \A h \in ControllerHosts(numCtls) :
                            Cardinality({ n \in DOMAIN file : file[n].ctl = h }) = 1
                      /\ \A v, w \in VnfHosts :
                            Cardinality(HostsOf(v)) <= Cardinality(HostsOf(w)) + 1
    BY DEF EvenlyDivided
  <2>1. Complete(file) /\ Numbers
    BY <1>1 DEF DeploymentInv, FileInv, Types
  <2>2. ASSUME NEW h \in ControllerHosts(numCtls)
        PROVE  Cardinality({ n \in DOMAIN file : file[n].ctl = h }) = 1
    <3>1. PICK i \in VnfIds(numVnfs) : h \in Slice(i)
      BY <2>1, Slices
    <3>2. PICK n \in DOMAIN file : file[n] = [vnf |-> VnfHost(numCtls, i), ctl |-> h]
      BY <2>1, <3>1, Lookup
    <3>3. \A m \in DOMAIN file : file[m].ctl = h <=> m = n
      BY <2>1, <3>2, Lookup
    <3>4. { m \in DOMAIN file : file[m].ctl = h } = {n}
      BY <3>3
    <3> QED
      BY <3>4, FS_Singleton
  <2>3. ASSUME NEW v \in VnfHosts, NEW w \in VnfHosts
        PROVE  Cardinality(HostsOf(v)) <= Cardinality(HostsOf(w)) + 1
    <3> DEFINE q == numCtls \div numVnfs
    <3>1. PICK i \in VnfIds(numVnfs), j \in VnfIds(numVnfs) :
             v = VnfHost(numCtls, i) /\ w = VnfHost(numCtls, j)
      BY DEF VnfHosts
    <3>2. HostsOf(v) = Slice(i) /\ HostsOf(w) = Slice(j)
      BY <2>1, <3>1, Readers
    <3>3. numCtls \in Nat /\ numVnfs \in Nat \ {0} /\ i \in Nat /\ j \in Nat
      BY <2>1, Addresses DEF VnfIds
    <3>4. Cardinality(Slice(i)) \in {q, q + 1} /\ Cardinality(Slice(j)) \in {q, q + 1}
      <4>1. ASSUME NEW k \in Nat PROVE Cardinality(Slice(k)) \in {q, q + 1}
        <5>1. Cardinality(SubDomain(numCtls, numVnfs, k)) \in {q, q + 1}
          BY <3>3, SliceSize, Zenon
        <5> QED
          BY <5>1 DEF Slice
      <4> QED
        BY <3>3, <4>1
    <3>5. q \in Nat
      BY <3>3, DivMod
    <3> HIDE DEF q
    <3> QED
      BY <3>2, <3>4, <3>5
  <2> QED
    BY <2>2, <2>3
<1> QED
  BY <1>1, DeploymentInvariant, PTL

(***************************************************************************)
(* paxos.conf.example: "Ids must start from 0 and must be unique."         *)
(* Acceptors that run at the same time have different ids, whatever        *)
(* containers have ended and had their addresses given to others.          *)
(***************************************************************************)
THEOREM AcceptorsUnique == Spec => []UniqueAcceptors
<1>1. DeploymentInv => UniqueAcceptors
  BY DEF DeploymentInv, RoleInv, UniqueAcceptors
<1> QED
  BY <1>1, DeploymentInvariant, PTL

(***************************************************************************)
(* No container has an address that network.py has not written down before *)
(* it ran the first, although Docker gives the address of one that has     *)
(* ended to another and network.py does not look.                          *)
(***************************************************************************)
THEOREM NoAddressUnforeseen == Spec => []AddressesForeseen
<1>1. DeploymentInv => AddressesForeseen
  BY DEF DeploymentInv, CountInv, RunningHosts, Foreseen, AddressesForeseen
<1> QED
  BY <1>1, DeploymentInvariant, PTL
===============================================================================
