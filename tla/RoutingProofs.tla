----------------------------- MODULE RoutingProofs -----------------------------
(***************************************************************************)
(* Proofs about Routing, for every set of ingresses and pages.             *)
(***************************************************************************)
EXTENDS Routing, FiniteSetTheorems, SequenceTheorems, WellFoundedInduction, TLAPS

\* A non-empty set of natural numbers has a least element.
LEMMA Least ==
    ASSUME NEW T, T \subseteq Nat, T # {}
    PROVE  \E m \in T : \A n \in T : m <= n
<1> DEFINE R == OpToRel(<, Nat)
<1>1. IsWellFoundedOn(R, Nat)
  BY NatLessThanWellFounded
<1> HIDE DEF R
<1>2. PICK m \in T : \A n \in T : ~(<<n, m>> \in R)
  BY <1>1, WFMin
<1>3. \A n \in T : ~(n < m)
  BY <1>2 DEF R, OpToRel
<1> QED BY <1>3

\* A bounded one has a greatest.
LEMMA GreatestNat ==
    ASSUME NEW T, T \subseteq Nat, T # {}, NEW b \in Nat, \A n \in T : n <= b
    PROVE  \E m \in T : \A n \in T : n <= m
<1> DEFINE D == {b - n : n \in T}
<1>1. D \subseteq Nat /\ D # {}
  <2>1. \A n \in T : b - n \in Nat
    OBVIOUS
  <2>2. PICK n \in T : TRUE
    OBVIOUS
  <2>3. b - n \in D
    OBVIOUS
  <2> QED BY <2>1, <2>3
<1> HIDE DEF D
<1>2. PICK d \in D : \A e \in D : d <= e
  BY <1>1, Least
<1>3. PICK m \in T : d = b - m
  BY DEF D
<1>4. \A n \in T : b - m <= b - n
  BY <1>2, <1>3 DEF D
<1> QED BY <1>4

\* In a finite set that a relation orders totally, some element is above all.
LEMMA Greatest ==
    ASSUME NEW S, IsFiniteSet(S), S # {}, NEW R,
           \A p \in S : <<p, p>> \in R,
           \A p, q \in S : <<p, q>> \in R \/ <<q, p>> \in R,
           \A p, q, r \in S : <<p, q>> \in R /\ <<q, r>> \in R => <<p, r>> \in R
    PROVE  \E p \in S : \A q \in S : <<p, q>> \in R
<1> DEFINE Below(p) == {q \in S : <<p, q>> \in R}
           T == {Cardinality(Below(p)) : p \in S}
<1>1. \A p \in S : /\ IsFiniteSet(Below(p)) /\ Cardinality(Below(p)) \in Nat
                   /\ Cardinality(Below(p)) <= Cardinality(S)
  BY FS_Subset, FS_CardinalityType
<1>2. T \subseteq Nat /\ T # {} /\ \A n \in T : n <= Cardinality(S)
  <2> HIDE DEF Below
  <2>1. PICK p \in S : TRUE
    OBVIOUS
  <2>2. Cardinality(Below(p)) \in T
    BY <2>1
  <2> QED BY <1>1, <2>2
<1>3. Cardinality(S) \in Nat
  BY FS_CardinalityType
<1>4. PICK m \in T : \A n \in T : n <= m
  <2> HIDE DEF T
  <2> QED BY <1>2, <1>3, GreatestNat
<1>5. PICK p \in S : m = Cardinality(Below(p))
  OBVIOUS
<1>6. ASSUME NEW q \in S, <<p, q>> \notin R PROVE FALSE
  <2>1. <<q, p>> \in R /\ Below(p) \subseteq Below(q)
    BY <1>6
  <2>2. q \in Below(q) /\ q \notin Below(p)
    BY <1>6
  <2>3. Below(p) \in SUBSET Below(q) /\ Below(p) # Below(q)
    BY <2>1, <2>2
  <2>4. Cardinality(Below(q)) <= m
    BY <1>4
  <2>5. IsFiniteSet(Below(q)) /\ Cardinality(Below(q)) \in Nat
    BY <1>1
  <2> HIDE DEF Below
  <2>6. /\ Cardinality(Below(p)) <= Cardinality(Below(q))
        /\ Cardinality(Below(q)) = Cardinality(Below(p)) => Below(q) = Below(p)
    BY <2>3, <2>5, FS_Subset
  <2> QED BY <1>1, <1>5, <2>3, <2>4, <2>5, <2>6
<1> QED BY <1>6

-----------------------------------------------------------------------------
(***************************************************************************)
(* Paths.                                                                  *)
(***************************************************************************)
PathType == Seq(Segments)

\* A path under another one begins with its segments.
LEMMA UnderSegments ==
    ASSUME NEW p \in PathType, NEW q \in PathType
    PROVE  Under(p, q) <=> Len(q) <= Len(p) /\ \A i \in 1 .. Len(q) : q[i] = p[i]
<1>1. ASSUME Len(q) <= Len(p)
      PROVE  SubSeq(q, 1, Len(q)) = SubSeq(p, 1, Len(q)) <=>
                \A i \in 1 .. Len(q) : q[i] = p[i]
  <2>1. /\ SubSeq(q, 1, Len(q)) = [i \in 1 .. Len(q) |-> q[i]]
        /\ SubSeq(p, 1, Len(q)) = [i \in 1 .. Len(q) |-> p[i]]
    BY <1>1 DEF PathType
  <2> QED BY <2>1
<1> QED BY <1>1 DEF Under, IsPrefix

\* The segments of the URL of an endpoint.
LEMMA RouteSegments ==
    ASSUME NEW m \in PathType, NEW e \in Endpoints
    PROVE  /\ Route(m, e) \in PathType /\ Len(Route(m, e)) = Len(m) + 2
           /\ \A i \in 1 .. Len(m) : Route(m, e)[i] = m[i]
           /\ Route(m, e)[Len(m) + 1] = "oauth2" /\ Route(m, e)[Len(m) + 2] = e
           /\ "oauth2" \in Range(Route(m, e))
<1>1. /\ Route(m, e) \in PathType /\ Len(Route(m, e)) = Len(m) + 2
      /\ \A i \in 1 .. Len(m) : Route(m, e)[i] = m[i]
      /\ Route(m, e)[Len(m) + 1] = "oauth2" /\ Route(m, e)[Len(m) + 2] = e
  <2> DEFINE t == <<"oauth2", e>>
  <2>1. t \in Seq(Segments) /\ Len(t) = 2 /\ t[1] = "oauth2" /\ t[2] = e
    BY DEF Segments
  <2>2. Route(m, e) = m \o t
    BY DEF Route
  <2>3. m \in Seq(Segments) /\ Len(m) \in Nat
    BY DEF PathType
  <2> HIDE DEF t
  <2>4. /\ m \o t \in Seq(Segments) /\ Len(m \o t) = Len(m) + Len(t)
        /\ \A i \in 1 .. Len(m) + Len(t) :
              (m \o t)[i] = IF i <= Len(m) THEN m[i] ELSE t[i - Len(m)]
    BY <2>1, <2>3, ConcatProperties
  <2> QED BY <2>1, <2>2, <2>3, <2>4 DEF PathType
<1>2. Len(m) + 1 \in DOMAIN Route(m, e)
  BY <1>1 DEF PathType
<1> QED BY <1>1, <1>2 DEF Range

\* Beginning with a string is an order on paths: reflexive, antisymmetric, ...
LEMMA PrefixOrder ==
    ASSUME NEW p \in PathType, NEW q \in PathType
    PROVE  /\ HasPrefix(p, p)
           /\ HasPrefix(p, q) /\ HasPrefix(q, p) => p = q
           /\ Under(p, q) => HasPrefix(p, q)
<1>1. HasPrefix(p, p)
  BY DEF HasPrefix, PathType
<1>2. ASSUME HasPrefix(p, q), HasPrefix(q, p) PROVE p = q
  <2>1. Len(p) = Len(q)
    BY <1>2 DEF HasPrefix, PathType
  <2>2. ASSUME NEW i \in 1 .. Len(q) PROVE p[i] = q[i]
    <3>1. /\ p[i] = q[i] \/ <<q[i], p[i]>> \in Extends
          /\ q[i] = p[i] \/ <<p[i], q[i]>> \in Extends
      BY <1>2, <2>1, <2>2 DEF HasPrefix
    <3> QED BY <3>1, ExtendsAssumption
  <2> QED BY <2>1, <2>2 DEF PathType
<1>3. Under(p, q) => HasPrefix(p, q)
  BY UnderSegments DEF HasPrefix
<1> QED BY <1>1, <1>2, <1>3

\* ... transitive, ...
LEMMA PrefixTransitive ==
    ASSUME NEW p \in PathType, NEW q \in PathType, NEW r \in PathType,
           HasPrefix(p, q), HasPrefix(q, r)
    PROVE  HasPrefix(p, r)
<1>1. Len(r) <= Len(p)
  BY DEF HasPrefix, PathType
<1>2. ASSUME NEW i \in 1 .. Len(r)
      PROVE  p[i] = r[i] \/ (i = Len(r) /\ <<r[i], p[i]>> \in Extends)
  <2>1. i \in 1 .. Len(q)
    BY <1>2 DEF HasPrefix, PathType
  <2>2. /\ p[i] = q[i] \/ (i = Len(q) /\ <<q[i], p[i]>> \in Extends)
        /\ q[i] = r[i] \/ (i = Len(r) /\ <<r[i], q[i]>> \in Extends)
    BY <1>2, <2>1 DEF HasPrefix
  <2>3. i = Len(q) => i = Len(r)
    BY <1>2 DEF HasPrefix, PathType
  <2>4. <<q[i], p[i]>> \in Extends /\ <<r[i], q[i]>> \in Extends
           => <<r[i], p[i]>> \in Extends
    BY ExtendsAssumption
  <2> QED BY <2>2, <2>3, <2>4
<1> QED BY <1>1, <1>2 DEF HasPrefix

\* ... and total on the prefixes of one path.
LEMMA PrefixTotal ==
    ASSUME NEW p \in PathType, NEW q \in PathType, NEW r \in PathType,
           HasPrefix(p, q), HasPrefix(p, r)
    PROVE  HasPrefix(q, r) \/ HasPrefix(r, q)
<1>0. Len(q) \in Nat /\ Len(r) \in Nat /\ Len(p) \in Nat
  BY DEF PathType
<1>1. ASSUME NEW a \in PathType, NEW b \in PathType, Len(a) < Len(b),
             HasPrefix(p, a), HasPrefix(p, b)
      PROVE  HasPrefix(b, a)
  <2>0. Len(a) \in Nat /\ Len(b) \in Nat
    BY DEF PathType
  <2>1. ASSUME NEW i \in 1 .. Len(a)
        PROVE  b[i] = a[i] \/ (i = Len(a) /\ <<a[i], b[i]>> \in Extends)
    <3>1. i \in 1 .. Len(b) /\ i # Len(b)
      BY <1>1, <2>0, <2>1
    <3> QED BY <1>1, <2>1, <3>1 DEF HasPrefix
  <2> QED BY <1>1, <2>0, <2>1 DEF HasPrefix
<1>2. CASE Len(q) = Len(r)
  <2>1. \A i \in 1 .. Len(q) : i # Len(q) => q[i] = r[i]
    BY <1>2 DEF HasPrefix
  <2>2. CASE Len(q) = 0
    BY <1>0, <1>2, <2>2 DEF HasPrefix
  <2>3. CASE Len(q) # 0
    <3> DEFINE n == Len(q)
    <3>1. n \in 1 .. Len(q) /\ n \in 1 .. Len(r)
      BY <1>0, <1>2, <2>3
    <3>2. /\ p[n] = q[n] \/ <<q[n], p[n]>> \in Extends
          /\ p[n] = r[n] \/ <<r[n], p[n]>> \in Extends
      BY <3>1 DEF HasPrefix
    <3>3. q[n] = r[n] \/ <<q[n], r[n]>> \in Extends \/ <<r[n], q[n]>> \in Extends
      <4> HIDE DEF n
      <4>1. CASE <<q[n], p[n]>> \in Extends /\ <<r[n], p[n]>> \in Extends
        <5> DEFINE e == <<q[n], p[n]>>
                   f == <<r[n], p[n]>>
        <5>1. e[2] = f[2] /\ e[1] = q[n] /\ f[1] = r[n]
          OBVIOUS
        <5>2. e[1] = f[1] \/ {<<e[1], f[1]>>, <<f[1], e[1]>>} \cap Extends # {}
          BY <4>1, <5>1, ExtendsAssumption
        <5> QED BY <5>1, <5>2
      <4> QED BY <3>2, <4>1
    <3> QED BY <1>0, <1>2, <2>1, <3>1, <3>3 DEF HasPrefix
  <2> QED BY <2>2, <2>3
<1> QED BY <1>0, <1>1, <1>2

\* A prefix that is as long as the path that is under it is that path.
LEMMA UnderEqual ==
    ASSUME NEW p \in PathType, NEW q \in PathType, NEW r \in PathType,
           Under(p, q), Under(p, r), Len(q) = Len(r)
    PROVE  q = r
<1>1. \A i \in 1 .. Len(q) : q[i] = r[i]
  BY UnderSegments
<1> QED BY <1>1 DEF PathType

-----------------------------------------------------------------------------
(***************************************************************************)
(* The operators of Routing, for a fixed set I of ingresses.               *)
(***************************************************************************)
PathsOf(I) == {i.path : i \in I}

MatchIn(I, path) ==
    LET match == {p \in PathsOf(I) : HasPrefix(path, p)}
    IN  IF match = {} THEN <<>>
        ELSE CHOOSE p \in match : \A q \in match : HasPrefix(p, q)

RoutedIn(I, p) == \E i \in I : i.host = p.host /\ Under(p.path, i.path)

OwnIn(I, p) ==
    LET match == {i.path : i \in {j \in I : j.host = p.host
                                            /\ Under(p.path, j.path)}}
    IN  CHOOSE q \in match : \A o \in match : Under(q, o)

\* The targets of redirects that some ingress path is a prefix of.
Goals(I) == {t \in {p.path : p \in Pages} \cup PathsOf(I) :
                \E q \in PathsOf(I) : HasPrefix(t, q)}

\* What Parsed makes of a configuration.
IngressOK(I) ==
    /\ IsFiniteSet(I) /\ I # {}
    /\ \A i \in I : /\ i.scheme \in {"http", "https"} /\ i.host # Internal
                    /\ i.path \in AllTargets /\ i.path \in PathType
                    /\ "oauth2" \notin Range(i.path)

\* They are what Routing says of the parsed ingresses.
LEMMA Bridge ==
    /\ Paths = PathsOf(ingresses)
    /\ \A path : MatchingPath(path) = MatchIn(ingresses, path)
    /\ \A p : Routed(p) <=> RoutedIn(ingresses, p)
    /\ \A p : MostSpecific(p) = OwnIn(ingresses, p)
BY DEF Paths, PathsOf, MatchingPath, MatchIn, Routed, RoutedIn, MostSpecific, OwnIn

\* The paths of a configuration are finitely many, and none is an endpoint.
LEMMA PathsFinite ==
    ASSUME NEW I, IngressOK(I)
    PROVE  /\ IsFiniteSet(PathsOf(I)) /\ PathsOf(I) # {}
           /\ PathsOf(I) \subseteq PathType /\ PathsOf(I) \subseteq AllTargets
           /\ \A q \in PathsOf(I) : "oauth2" \notin Range(q)
<1> DEFINE f == [i \in I |-> i.path]
<1>1. f \in Surjection(I, PathsOf(I))
  BY DEF Surjection, PathsOf
<1>2. IsFiniteSet(PathsOf(I))
  BY <1>1, FS_Surjection DEF IngressOK
<1> QED BY <1>2 DEF IngressOK, PathsOf

\* MatchingPath returns the longest of the paths that a path begins with.
LEMMA MatchIsLongest ==
    ASSUME NEW I, IngressOK(I), NEW path \in PathType,
           \E q \in PathsOf(I) : HasPrefix(path, q)
    PROVE  /\ MatchIn(I, path) \in PathsOf(I) /\ MatchIn(I, path) \in PathType
           /\ HasPrefix(path, MatchIn(I, path))
           /\ \A q \in PathsOf(I) : HasPrefix(path, q) => HasPrefix(MatchIn(I, path), q)
<1> DEFINE match == {p \in PathsOf(I) : HasPrefix(path, p)}
           R == {e \in PathType \X PathType : HasPrefix(e[1], e[2])}
<1>1. match # {} /\ match \subseteq PathType /\ IsFiniteSet(match)
  BY PathsFinite, FS_Subset
<1>2. \A p, q \in PathType : <<p, q>> \in R <=> HasPrefix(p, q)
  OBVIOUS
<1>3. \A q \in match : HasPrefix(path, q)
  OBVIOUS
<1>4. MatchIn(I, path) = CHOOSE p \in match : \A q \in match : HasPrefix(p, q)
  BY <1>1 DEF MatchIn
<1>5. \A p \in match : p \in PathsOf(I)
  OBVIOUS
<1>6. \A q \in PathsOf(I) : HasPrefix(path, q) => q \in match
  OBVIOUS
<1> HIDE DEF match, R
<1>7. \A p \in match : <<p, p>> \in R
  BY <1>1, <1>2, PrefixOrder
<1>8. \A p, q \in match : <<p, q>> \in R \/ <<q, p>> \in R
  BY <1>1, <1>2, <1>3, PrefixTotal
<1>9. \A p, q, r \in match : <<p, q>> \in R /\ <<q, r>> \in R => <<p, r>> \in R
  BY <1>1, <1>2, PrefixTransitive
<1>10. \E p \in match : \A q \in match : <<p, q>> \in R
  BY <1>1, <1>7, <1>8, <1>9, Greatest
<1>11. \E p \in match : \A q \in match : HasPrefix(p, q)
  BY <1>1, <1>2, <1>10
<1>12. /\ MatchIn(I, path) \in match
       /\ \A q \in match : HasPrefix(MatchIn(I, path), q)
  BY <1>4, <1>11
<1> QED BY <1>1, <1>3, <1>5, <1>6, <1>12

\* Ingress controllers choose among the ingresses of the page's host.
LEMMA OwnIsMostSpecific ==
    ASSUME NEW I, IngressOK(I), NEW p \in Pages, RoutedIn(I, p)
    PROVE  LET own == OwnIn(I, p)
           IN  /\ own \in PathsOf(I) /\ own \in PathType
               /\ \E i \in I : i.host = p.host /\ i.path = own
               /\ Under(p.path, own)
               /\ \A j \in I : j.host = p.host /\ Under(p.path, j.path) => Under(own, j.path)
<1> DEFINE match == {i.path : i \in {j \in I : j.host = p.host /\ Under(p.path, j.path)}}
           R == {e \in PathType \X PathType : Under(e[1], e[2])}
<1>1. match # {} /\ match \subseteq PathsOf(I) /\ match \subseteq PathType
  BY PathsFinite DEF RoutedIn, PathsOf
<1>2. IsFiniteSet(match)
  BY <1>1, PathsFinite, FS_Subset
<1>3. \A m \in match : Under(p.path, m) /\ \E i \in I : i.host = p.host /\ i.path = m
  OBVIOUS
<1>4. \A j \in I : j.host = p.host /\ Under(p.path, j.path) => j.path \in match
  OBVIOUS
<1>5. \A a, b \in PathType : <<a, b>> \in R <=> Under(a, b)
  OBVIOUS
<1>6. OwnIn(I, p) = CHOOSE q \in match : \A o \in match : Under(q, o)
  BY DEF OwnIn
<1>7. p.path \in PathType
  BY RoutingAssumption DEF PathType
<1> HIDE DEF match, R
<1>8. \A a \in match : <<a, a>> \in R
  BY <1>1, <1>5, UnderSegments DEF PathType
<1>9. ASSUME NEW a \in match, NEW b \in match PROVE <<a, b>> \in R \/ <<b, a>> \in R
  <2>1. a \in PathType /\ b \in PathType /\ Under(p.path, a) /\ Under(p.path, b)
    BY <1>1, <1>3
  <2>2. /\ Len(a) <= Len(p.path) /\ \A i \in 1 .. Len(a) : a[i] = p.path[i]
        /\ Len(b) <= Len(p.path) /\ \A i \in 1 .. Len(b) : b[i] = p.path[i]
    BY <1>7, <2>1, UnderSegments
  <2>3. Len(a) \in Nat /\ Len(b) \in Nat
    BY <2>1 DEF PathType
  <2>4. Under(a, b) \/ Under(b, a)
    BY <2>1, <2>2, <2>3, UnderSegments
  <2> QED BY <1>5, <2>1, <2>4
<1>10. ASSUME NEW a \in match, NEW b \in match, NEW c \in match,
              <<a, b>> \in R, <<b, c>> \in R
       PROVE  <<a, c>> \in R
  <2>1. a \in PathType /\ b \in PathType /\ c \in PathType
    BY <1>1
  <2>2. Under(a, b) /\ Under(b, c)
    BY <1>5, <1>10, <2>1
  <2>3. /\ Len(b) <= Len(a) /\ \A i \in 1 .. Len(b) : b[i] = a[i]
        /\ Len(c) <= Len(b) /\ \A i \in 1 .. Len(c) : c[i] = b[i]
    BY <2>1, <2>2, UnderSegments
  <2>4. Len(a) \in Nat /\ Len(b) \in Nat /\ Len(c) \in Nat
    BY <2>1 DEF PathType
  <2>5. Under(a, c)
    BY <2>1, <2>3, <2>4, UnderSegments
  <2> QED BY <1>5, <2>1, <2>5
<1>11. \E a \in match : \A b \in match : <<a, b>> \in R
  BY <1>1, <1>2, <1>8, <1>9, <1>10, Greatest
<1>12. OwnIn(I, p) \in match /\ \A o \in match : Under(OwnIn(I, p), o)
  BY <1>1, <1>5, <1>6, <1>11
<1> QED BY <1>1, <1>3, <1>4, <1>12

\* The URL of an endpoint names the ingress and the endpoint.
LEMMA RouteInjective ==
    ASSUME NEW m \in PathType, NEW n \in PathType, NEW e \in Endpoints, NEW f \in Endpoints,
           Route(m, e) = Route(n, f)
    PROVE  m = n /\ e = f
<1>1. Len(m) = Len(n) /\ Len(m) \in Nat
  BY RouteSegments DEF PathType
<1>2. \A i \in 1 .. Len(m) : m[i] = n[i]
  <2>1. \A i \in 1 .. Len(m) : Route(m, e)[i] = m[i]
    BY RouteSegments
  <2>2. \A i \in 1 .. Len(n) : Route(n, f)[i] = n[i]
    BY RouteSegments
  <2> QED BY <1>1, <2>1, <2>2
<1>3. e = f
  BY <1>1, RouteSegments
<1> QED BY <1>1, <1>2, <1>3 DEF PathType

\* Which handler chi calls.
LEMMA EndpointOf ==
    ASSUME IngressOK(ingresses)
    PROVE  /\ \A path \in Goals(ingresses) : Endpoint(path) = "app"
           /\ \A m \in PathsOf(ingresses) : /\ Endpoint(Route(m, "login")) = "login"
                                            /\ Endpoint(Route(m, "callback")) = "callback"
                                            /\ Endpoint(Route(m, "logout/local")) = "logout"
<1>1. Paths = PathsOf(ingresses) /\ Paths \subseteq PathType
  BY Bridge, PathsFinite
<1>2. {"login", "callback", "logout/local"} = Endpoints
  BY DEF Endpoints
<1>3. ASSUME NEW path \in Goals(ingresses) PROVE Endpoint(path) = "app"
  <2>1. "oauth2" \notin Range(path)
    BY PathsFinite, RoutingAssumption DEF Goals
  <2>2. \A m \in Paths, e \in Endpoints : path # Route(m, e)
    BY <1>1, <2>1, RouteSegments
  <2> QED BY <1>2, <2>2 DEF Endpoint
<1>4. ASSUME NEW m \in Paths
      PROVE  /\ Endpoint(Route(m, "login")) = "login"
             /\ Endpoint(Route(m, "callback")) = "callback"
             /\ Endpoint(Route(m, "logout/local")) = "logout"
  <2>1. \A n \in Paths, e, f \in Endpoints : Route(m, e) = Route(n, f) => e = f
    BY <1>1, RouteInjective
  <2>2. \A n \in Paths : /\ Route(m, "callback") # Route(n, "login")
                         /\ Route(m, "logout/local") # Route(n, "login")
                         /\ Route(m, "logout/local") # Route(n, "callback")
    BY <1>2, <2>1
  <2> QED BY <2>2 DEF Endpoint
<1> QED BY <1>1, <1>3, <1>4

\* All targets, and the endpoints of an ingress, begin with an ingress path.
LEMMA Matched ==
    ASSUME NEW I, IngressOK(I)
    PROVE  /\ PathsOf(I) \subseteq Goals(I)
           /\ \A t \in Goals(I) : t \in PathType /\ \E q \in PathsOf(I) : HasPrefix(t, q)
           /\ \A m \in PathsOf(I), e \in Endpoints :
                 /\ Route(m, e) \in PathType /\ Under(Route(m, e), m)
                 /\ \E q \in PathsOf(I) : HasPrefix(Route(m, e), q)
           /\ \A p \in Pages : RoutedIn(I, p) => p.path \in Goals(I)
<1>1. PathsOf(I) \subseteq PathType
  BY PathsFinite
<1>2. PathsOf(I) \subseteq Goals(I)
  BY <1>1, PrefixOrder DEF Goals
<1>3. \A t \in Goals(I) : t \in PathType /\ \E q \in PathsOf(I) : HasPrefix(t, q)
  BY <1>1, RoutingAssumption DEF Goals, PathType
<1>4. ASSUME NEW m \in PathsOf(I), NEW e \in Endpoints
      PROVE  /\ Route(m, e) \in PathType /\ Under(Route(m, e), m)
             /\ \E q \in PathsOf(I) : HasPrefix(Route(m, e), q)
  <2>1. m \in PathType /\ Len(m) \in Nat
    BY <1>1 DEF PathType
  <2>2. Route(m, e) \in PathType /\ Under(Route(m, e), m)
    BY <2>1, RouteSegments, UnderSegments
  <2> QED BY <2>1, <2>2, PrefixOrder
<1>5. ASSUME NEW p \in Pages, RoutedIn(I, p) PROVE p.path \in Goals(I)
  <2>1. PICK i \in I : Under(p.path, i.path)
    BY <1>5 DEF RoutedIn
  <2>2. i.path \in PathsOf(I) /\ i.path \in PathType /\ p.path \in PathType
    BY RoutingAssumption DEF PathsOf, IngressOK, PathType
  <2>3. HasPrefix(p.path, i.path)
    BY <2>1, <2>2, PrefixOrder
  <2> QED BY <2>2, <2>3 DEF Goals
<1> QED BY <1>2, <1>3, <1>4, <1>5

\* No ingress path has a segment oauth2, so that all endpoints of an ingress
\* begin with the same ingress paths.
LEMMA SameMatch ==
    ASSUME NEW I, IngressOK(I), NEW m \in PathsOf(I), NEW e \in Endpoints, NEW f \in Endpoints
    PROVE  MatchIn(I, Route(m, e)) = MatchIn(I, Route(m, f))
<1>1. ASSUME NEW q \in PathsOf(I), NEW a \in Endpoints, NEW b \in Endpoints,
             HasPrefix(Route(m, a), q)
      PROVE  HasPrefix(Route(m, b), q)
  <2>1. m \in PathType /\ q \in PathType /\ "oauth2" \notin Range(q)
    BY PathsFinite
  <2>2. Len(m) \in Nat /\ Len(q) \in Nat /\ \A i \in 1 .. Len(q) : q[i] # "oauth2"
    BY <2>1 DEF PathType, Range
  <2>3. Len(q) <= Len(m) + 2
    BY <1>1, <2>1, RouteSegments DEF HasPrefix
  <2>4. CASE Len(q) = Len(m) + 2
    <3>1. Len(m) + 1 \in 1 .. Len(q) /\ Len(m) + 1 # Len(q)
      BY <2>2, <2>4
    <3>2. Route(m, a)[Len(m) + 1] = q[Len(m) + 1]
      BY <1>1, <3>1 DEF HasPrefix
    <3>3. Route(m, a)[Len(m) + 1] = "oauth2"
      BY <2>1, RouteSegments
    <3> QED BY <2>2, <3>1, <3>2, <3>3
  <2>5. CASE Len(q) <= Len(m) + 1
    <3>1. \A i \in 1 .. Len(q) : Route(m, a)[i] = Route(m, b)[i]
      <4>1. \A i \in 1 .. Len(q) : i \in 1 .. Len(m) \/ i = Len(m) + 1
        BY <2>2, <2>5
      <4>2. /\ \A i \in 1 .. Len(m) : Route(m, a)[i] = m[i]
            /\ Route(m, a)[Len(m) + 1] = "oauth2"
        BY <2>1, RouteSegments
      <4>3. /\ \A i \in 1 .. Len(m) : Route(m, b)[i] = m[i]
            /\ Route(m, b)[Len(m) + 1] = "oauth2"
        BY <2>1, RouteSegments
      <4> QED BY <4>1, <4>2, <4>3
    <3>2. Len(q) <= Len(Route(m, b))
      BY <2>1, <2>3, RouteSegments
    <3> QED BY <1>1, <3>1, <3>2 DEF HasPrefix
  <2> QED BY <2>2, <2>3, <2>4, <2>5
<1> DEFINE M(g) == {q \in PathsOf(I) : HasPrefix(Route(m, g), q)}
<1>2. M(e) = M(f)
  BY <1>1
<1>3. \A g : MatchIn(I, Route(m, g)) =
               IF M(g) = {} THEN <<>> ELSE CHOOSE p \in M(g) : \A q \in M(g) : HasPrefix(p, q)
  BY DEF MatchIn
<1> HIDE DEF M
<1> QED BY <1>2, <1>3

-----------------------------------------------------------------------------
(***************************************************************************)
(* Cookies.                                                                *)
(***************************************************************************)
\* r.Cookie returns a cookie that was sent and that none with a longer path
\* was sent with, if any was.
LEMMA CookieIsSent ==
    ASSUME NEW name, NEW r, r.path \in PathType, \A c \in jar : c.path \in PathType
    PROVE  \/ Sent(name, r) = {} /\ Cookie(name, r) = None
           \/ \E c \in Sent(name, r) : /\ Cookie(name, r) = c.value
                                       /\ \A d \in Sent(name, r) : Len(d.path) <= Len(c.path)
<1> SUFFICES ASSUME Sent(name, r) # {}
             PROVE  \E c \in Sent(name, r) : /\ Cookie(name, r) = c.value
                                             /\ \A d \in Sent(name, r) : Len(d.path) <= Len(c.path)
  BY DEF Cookie
<1> DEFINE S == Sent(name, r)
           T == {Len(c.path) : c \in S}
<1>1. \A c \in S : c.path \in PathType /\ Under(r.path, c.path)
  BY DEF Sent
<1>2. \A c \in S : Len(c.path) \in Nat /\ Len(c.path) <= Len(r.path)
  BY <1>1, UnderSegments DEF PathType
<1>3. Len(r.path) \in Nat
  BY DEF PathType
<1>4. Cookie(name, r) = (CHOOSE c \in S : \A d \in S : Len(d.path) <= Len(c.path)).value
  BY DEF Cookie
<1> HIDE DEF S
<1>5. T \subseteq Nat /\ T # {} /\ \A n \in T : n <= Len(r.path)
  BY <1>2 DEF S
<1>6. PICK k \in T : \A n \in T : n <= k
  <2> HIDE DEF T
  <2> QED BY <1>3, <1>5, GreatestNat
<1>7. \E c \in S : \A d \in S : Len(d.path) <= Len(c.path)
  BY <1>6
<1>8. PICK c \in S : c = CHOOSE x \in S : \A d \in S : Len(d.path) <= Len(x.path)
  BY <1>7
<1>9. \A d \in S : Len(d.path) <= Len(c.path)
  BY <1>7, <1>8
<1> QED BY <1>4, <1>8, <1>9 DEF S

-----------------------------------------------------------------------------
(***************************************************************************)
(* Type correctness: where requests go and where cookies are.              *)
(***************************************************************************)
HostsOf(I) == {p.host : p \in Pages} \cup {i.host : i \in I}

\* A request to the application, ...
ToApp(I, u) == u.path \in Goals(I) /\ u.redirect = None

\* ... to a login endpoint, always with a target, ...
ToLogin(I, u) ==
    (\E m \in PathsOf(I) : u.path = Route(m, "login")) /\ u.redirect \in Goals(I)

\* ... to the callback endpoint of the ingress that matched, ...
ToCallback(I, u) ==
    /\ \E i \in I : u.host = i.host /\ u.path = Route(i.path, "callback")
    /\ u.redirect = None

\* ... or to the logout endpoint of the page's own ingress.
ToLogout(I, u, p) ==
    /\ u.path = Route(OwnIn(I, p), "logout/local") /\ u.redirect = None
    /\ u.scheme = "https" /\ u.host = p.host

RequestOK(I, u, p) ==
    /\ u.scheme \in {"http", "https"} /\ u.host \in HostsOf(I)
    /\ ToApp(I, u) \/ ToLogin(I, u) \/ ToCallback(I, u) \/ ToLogout(I, u, p)

\* A login cookie holds a target and the state of a login of this or an earlier
\* visit.  A session cookie holds the sid and is on the path that the callback
\* endpoint of an ingress of its host matches.
CookieOK(I, c, v) ==
    /\ c.path \in PathsOf(I) /\ c.name \in {"login", "session"}
    /\ c.name = "login" => /\ c.value \in LoginCookie /\ c.value.referer \in Goals(I)
                           /\ c.value.state[1] <= v
    /\ c.name = "session" =>
          /\ c.value = "sid"
          /\ \E i \in I : i.host = c.host /\ c.path = MatchIn(I, Route(i.path, "callback"))

VisitOK ==
    \/ page = None /\ url = None /\ at = "rest" /\ result = "none"
    \/ page \in Pages /\ RoutedIn(ingresses, page) /\ RequestOK(ingresses, url, page)

TypeInv ==
    /\ IngressOK(ingresses) /\ forwarded \in BOOLEAN
    /\ VisitOK
    /\ at \in {"rest", "request", "provider"}
    /\ at # "rest" => result = "none"
    /\ at = "provider" => ToCallback(ingresses, url)
    /\ \A c \in jar : CookieOK(ingresses, c, visits)
    /\ sessions \subseteq {"sid"}
    /\ result \in {"none", "served", "loop", "failed", "loggedout"}
    /\ logins \in 0 .. MaxLogins /\ visits \in 0 .. MaxVisits

\* No ingress path and no page is left to be mistaken for None.
LEMMA GoalsOK ==
    ASSUME NEW I, IngressOK(I)
    PROVE  None \notin Goals(I) /\ Goals(I) \subseteq AllTargets
<1>1. PathsOf(I) \subseteq AllTargets
  BY PathsFinite
<1>2. Goals(I) \subseteq AllTargets
  BY <1>1 DEF Goals, AllTargets
<1> QED BY <1>2, NoneAssumption

\* Every request begins with an ingress path.
LEMMA RequestMatched ==
    ASSUME NEW I, IngressOK(I), NEW p \in Pages, RoutedIn(I, p), NEW u, RequestOK(I, u, p)
    PROVE  /\ u.path \in PathType
           /\ MatchIn(I, u.path) \in PathsOf(I) /\ MatchIn(I, u.path) \in PathType
           /\ MatchIn(I, u.path) \in Goals(I)
<1>1. u.path \in Goals(I) \/ \E m \in PathsOf(I), e \in Endpoints : u.path = Route(m, e)
  <2>1. OwnIn(I, p) \in PathsOf(I)
    BY OwnIsMostSpecific
  <2>2. "login" \in Endpoints /\ "callback" \in Endpoints /\ "logout/local" \in Endpoints
    BY DEF Endpoints
  <2>3. \A i \in I : i.path \in PathsOf(I)
    BY DEF PathsOf
  <2> QED BY <2>1, <2>2, <2>3 DEF RequestOK, ToApp, ToLogin, ToCallback, ToLogout
<1>2. u.path \in PathType /\ \E q \in PathsOf(I) : HasPrefix(u.path, q)
  BY <1>1, Matched
<1> QED BY <1>2, MatchIsLongest, Matched

\* The handler that is called is that of the request.
LEMMA Dispatch ==
    ASSUME TypeInv, page # None
    PROVE  /\ Endpoint(url.path) = "app" => ToApp(ingresses, url)
           /\ Endpoint(url.path) = "login" => ToLogin(ingresses, url)
           /\ Endpoint(url.path) = "callback" => ToCallback(ingresses, url)
           /\ Endpoint(url.path) = "logout" => ToLogout(ingresses, url, page)
           /\ ToApp(ingresses, url) => Endpoint(url.path) = "app"
           /\ ToLogin(ingresses, url) => Endpoint(url.path) = "login"
           /\ ToCallback(ingresses, url) => Endpoint(url.path) = "callback"
           /\ ToLogout(ingresses, url, page) => Endpoint(url.path) = "logout"
<1>1. /\ IngressOK(ingresses) /\ page \in Pages /\ RoutedIn(ingresses, page)
      /\ RequestOK(ingresses, url, page)
  BY DEF TypeInv, VisitOK
<1>2. OwnIn(ingresses, page) \in PathsOf(ingresses)
  BY <1>1, OwnIsMostSpecific
<1>3. ToApp(ingresses, url) => Endpoint(url.path) = "app"
  BY <1>1, EndpointOf DEF ToApp
<1>4. ToLogin(ingresses, url) => Endpoint(url.path) = "login"
  BY <1>1, EndpointOf DEF ToLogin
<1>5. ToCallback(ingresses, url) => Endpoint(url.path) = "callback"
  <2>1. \A i \in ingresses : i.path \in PathsOf(ingresses)
    BY DEF PathsOf
  <2> QED BY <1>1, <2>1, EndpointOf DEF ToCallback
<1>6. ToLogout(ingresses, url, page) => Endpoint(url.path) = "logout"
  BY <1>1, <1>2, EndpointOf DEF ToLogout
<1> QED BY <1>1, <1>3, <1>4, <1>5, <1>6 DEF RequestOK

\* The type invariant implies TypeOK.
LEMMA TypeInvTypeOK == TypeInv => TypeOK
<1> SUFFICES ASSUME TypeInv PROVE TypeOK
  OBVIOUS
<1>1. IngressOK(ingresses) /\ Paths = PathsOf(ingresses)
  BY Bridge DEF TypeInv
<1>2. Goals(ingresses) \subseteq Targets
  BY <1>1 DEF Goals, Targets
<1>3. page \in Pages \cup {None}
  BY DEF TypeInv, VisitOK
<1>4. ASSUME url # None
      PROVE  /\ url.scheme \in {"http", "https"}
             /\ url.host \in {p.host : p \in Pages} \cup {i.host : i \in ingresses}
             /\ url.redirect \in Targets \cup
                    IF Endpoint(url.path) = "login" THEN {} ELSE {None}
  <2>1. page \in Pages /\ RequestOK(ingresses, url, page)
    BY <1>4 DEF TypeInv, VisitOK
  <2>2. page # None
    BY <2>1, NoneAssumption
  <2>3. url.redirect \in Goals(ingresses) \/ (url.redirect = None /\ ~ToLogin(ingresses, url))
    BY <1>1, <2>1, GoalsOK DEF RequestOK, ToApp, ToLogin, ToCallback, ToLogout
  <2>4. Endpoint(url.path) = "login" => ToLogin(ingresses, url)
    BY <2>2, Dispatch
  <2> QED BY <1>2, <2>1, <2>3, <2>4 DEF RequestOK, HostsOf
<1>5. \A c \in jar : /\ c.path \in Paths \cup {<<>>}
                     /\ c.name = "login" => c.value.referer \in Targets
  BY <1>1, <1>2 DEF TypeInv, CookieOK
<1> QED BY <1>3, <1>4, <1>5 DEF TypeInv, TypeOK

-----------------------------------------------------------------------------
(***************************************************************************)
(* The course of a visit to a page that nothing confuses MatchingPath      *)
(* about.                                                                  *)
(***************************************************************************)
PlainIn(I, p) ==
    LET own == OwnIn(I, p)
        endpoints == {Route(own, e) : e \in Endpoints}
    IN  /\ \A path \in {p.path} \cup endpoints, q \in PathsOf(I) :
              HasPrefix(path, q) => HasPrefix(own, q)
        /\ {i.scheme : i \in {j \in I : j.host = p.host /\ j.path = own}} = {"https"}

IsOwn(c, name, p, own) == c.name = name /\ c.host = p.host /\ c.path = own

\* No login cookie of this visit is left.
NoLoginCookie == \A c \in jar : c.name = "login" => c.value.state[1] # visits

\* The login cookie of this visit is on the path of the page's ingress, and
\* nowhere else.
LoginCookieSet(own) ==
    /\ \E c \in jar : IsOwn(c, "login", page, own)
    /\ \A c \in jar : IsOwn(c, "login", page, own) => /\ c.value.state = state
                                                      /\ c.value.referer = page.path
    /\ \A c \in jar : c.name = "login" /\ ~IsOwn(c, "login", page, own)
                         => c.value.state[1] # visits

SessionCookieSet(own) == \E c \in jar : IsOwn(c, "session", page, own)

\* The stages of a visit: asked for, at the login endpoint, at the provider and
\* the callback endpoint, back at the page, served; or logging out, logged out.
Asked == at = "request" /\ url.path = page.path /\ logins = 0 /\ NoLoginCookie

LoggingIn(own) ==
    /\ at = "request" /\ url.path = Route(own, "login") /\ url.redirect = page.path
    /\ logins = 0 /\ NoLoginCookie

CallingBack(own) ==
    /\ at \in {"provider", "request"} /\ url.path = Route(own, "callback")
    /\ logins = 1 /\ LoginCookieSet(own)

Returned(own) ==
    /\ at = "request" /\ url.path = page.path /\ logins = 1
    /\ SessionCookieSet(own) /\ "sid" \in sessions /\ NoLoginCookie

LoggingOut(own) == at = "request" /\ url.path = Route(own, "logout/local")

Served(own) ==
    /\ at = "rest" /\ result = "served" /\ url.path = page.path /\ logins <= 1
    /\ logins > 0 => SessionCookieSet(own)
    /\ NoLoginCookie

Stages(own) ==
    \/ /\ url.scheme = "https" /\ url.host = page.host
       /\ \/ Asked \/ LoggingIn(own) \/ CallingBack(own) \/ Returned(own) \/ LoggingOut(own)
    \/ Served(own)
    \/ at = "rest" /\ result = "loggedout"

CourseInv ==
    \A own \in PathsOf(ingresses) :
        page # None /\ PlainIn(ingresses, page) /\ own = OwnIn(ingresses, page) => Stages(own)

\* Wherever there is a request there is a page.
LEMMA InVisit ==
    ASSUME TypeInv, at # "rest"
    PROVE  /\ page \in Pages /\ page # None /\ RoutedIn(ingresses, page)
           /\ RequestOK(ingresses, url, page) /\ IngressOK(ingresses) /\ result = "none"
           /\ url.path \in PathType
           /\ MatchIn(ingresses, url.path) \in Goals(ingresses)
           /\ MatchIn(ingresses, url.path) \in PathsOf(ingresses)
<1>1. /\ page \in Pages /\ RoutedIn(ingresses, page)
      /\ RequestOK(ingresses, url, page) /\ IngressOK(ingresses) /\ result = "none"
  BY DEF TypeInv, VisitOK
<1> QED BY <1>1, RequestMatched, NoneAssumption

\* A redirect to the login endpoint goes to one that exists.
LEMMA LoginURLOK ==
    ASSUME TypeInv, at # "rest", NEW t \in Goals(ingresses)
    PROVE  RequestOK(ingresses, LoginURL(url, t), page)
<1>1. /\ RequestOK(ingresses, url, page)
      /\ MatchIn(ingresses, url.path) \in PathsOf(ingresses)
  BY InVisit
<1>2. LoginURL(url, t) = [scheme |-> url.scheme, host |-> url.host,
                          path |-> Route(MatchIn(ingresses, url.path), "login"),
                          redirect |-> t]
  BY Bridge DEF LoginURL, URLOf
<1>3. ToLogin(ingresses, LoginURL(url, t))
  BY <1>1, <1>2 DEF ToLogin
<1> QED BY <1>1, <1>2, <1>3 DEF RequestOK

\* The paths of cookies are ingress paths, and so is any login cookie's target.
LEMMA CookieValues ==
    ASSUME TypeInv, at # "rest", NEW name, Cookie(name, url) # None
    PROVE  \E c \in jar : /\ c.name = name /\ c.host = url.host /\ Under(url.path, c.path)
                          /\ url.scheme = "https"
                          /\ Cookie(name, url) = c.value /\ CookieOK(ingresses, c, visits)
                          /\ \A d \in Sent(name, url) : Len(d.path) <= Len(c.path)
<1>1. \A c \in jar : CookieOK(ingresses, c, visits) /\ c.path \in PathType
  BY InVisit, PathsFinite DEF TypeInv, CookieOK
<1>2. PICK c \in Sent(name, url) : /\ Cookie(name, url) = c.value
                                   /\ \A d \in Sent(name, url) : Len(d.path) <= Len(c.path)
  BY <1>1, InVisit, CookieIsSent
<1> QED BY <1>1, <1>2 DEF Sent

\* An error page, or a retry at a login endpoint that exists.
LEMMA ErrorOK ==
    ASSUME TypeInv, at = "request", respondError
    PROVE  /\ RequestOK(ingresses, url', page)
           /\ \/ at' = "rest" /\ result' = "failed"
              \/ at' = "request" /\ result' = "none"
<1>1. RequestOK(ingresses, url, page) /\ result = "none"
  BY InVisit
<1>2. RequestOK(ingresses, Retry(url), page)
  <2>1. CASE Cookie("login", url) # None
    <3>1. Cookie("login", url).referer \in Goals(ingresses)
      BY <2>1, CookieValues DEF CookieOK
    <3>2. Retry(url) = LoginURL(url, Cookie("login", url).referer)
      BY <2>1 DEF Retry
    <3> QED BY <3>1, <3>2, LoginURLOK
  <2>2. CASE Cookie("login", url) = None
    <3>1. CanonicalRedirect(url) \in Goals(ingresses)
      <4>1. url.redirect \in Goals(ingresses) \cup {None}
        BY <1>1 DEF RequestOK, ToApp, ToLogin, ToCallback, ToLogout
      <4> QED BY <4>1, InVisit, Bridge DEF CanonicalRedirect
    <3>2. Retry(url) = LoginURL(url, CanonicalRedirect(url))
      BY <2>2 DEF Retry
    <3> QED BY <3>1, <3>2, LoginURLOK
  <2> QED BY <2>1, <2>2
<1> QED BY <1>1, <1>2 DEF respondError, Show, Redirect

\* What SetCookie and ClearCookie leave in the jar.
LEMMA JarOf ==
    ASSUME NEW J, NEW name, NEW r, NEW value
    PROVE  /\ ClearCookie(J, name, r) \subseteq J
           /\ \A c \in SetCookie(J, name, r, value) :
                 \/ c \in J
                 \/ c = [name |-> name, host |-> r.host, path |-> MatchIn(ingresses, r.path),
                         value |-> value]
           /\ r.scheme = "https" =>
                 /\ ClearCookie(J, name, r) =
                       {c \in J : ~(c.name = name /\ c.host = r.host
                                    /\ c.path = MatchIn(ingresses, r.path))}
                 /\ SetCookie(J, name, r, value) =
                       {c \in J : ~(c.name = name /\ c.host = r.host
                                    /\ c.path = MatchIn(ingresses, r.path))}
                       \cup {[name |-> name, host |-> r.host,
                              path |-> MatchIn(ingresses, r.path), value |-> value]}
BY Bridge DEF ClearCookie, SetCookie, Drop, CookiePath

\* Parsing rejects what is no http URL.
LEMMA InitTypeInv == Init => TypeInv
<1> SUFFICES ASSUME Init PROVE TypeInv
  OBVIOUS
<1>1. PICK config \in Configs :
         config # {} /\ None \notin Parsed(config) /\ ingresses = Parsed(config)
  BY DEF Init
<1>2. IsFiniteSet(ingresses)
  <2> DEFINE f == [u \in config |-> ParseIngress(u)]
  <2>1. f \in Surjection(config, ingresses)
    BY <1>1 DEF Surjection, Parsed
  <2> QED BY <1>1, <2>1, FS_Surjection, RoutingAssumption
<1>3. ingresses # {}
  BY <1>1 DEF Parsed
<1>4. ASSUME NEW i \in ingresses
      PROVE  /\ i.scheme \in {"http", "https"} /\ i.host # Internal
             /\ i.path \in AllTargets /\ i.path \in PathType
             /\ "oauth2" \notin Range(i.path)
  <2>1. PICK u \in config : i = ParseIngress(u)
    BY <1>1 DEF Parsed
  <2>2. i # None
    BY <1>1
  <2>3. /\ u.scheme \in {"http", "https"}
        /\ i = [scheme |-> u.scheme, host |-> u.host, path |-> u.path]
    BY <2>1, <2>2 DEF ParseIngress
  <2>4. u \in UNION Configs
    BY <1>1, <2>1
  <2>5. /\ u.host # Internal /\ u.path \in Seq(Segments) /\ "oauth2" \notin Range(u.path)
        /\ u.path \in AllTargets
    BY <2>4, RoutingAssumption DEF AllTargets
  <2> QED BY <2>3, <2>5 DEF PathType
<1>5. IngressOK(ingresses)
  BY <1>2, <1>3, <1>4 DEF IngressOK
<1> QED BY <1>5, RoutingAssumption DEF Init, TypeInv, VisitOK

\* Asking for a page.
LEMMA AskTypeInv ==
    ASSUME TypeInv, NEW p \in Pages, Visit(p) \/ LogOut(p)
    PROVE  TypeInv'
<1>1. /\ at = "rest" /\ visits < MaxVisits /\ RoutedIn(ingresses, p)
      /\ visits' = visits + 1 /\ logins' = 0 /\ result' = "none" /\ page' = p
      /\ at' = "request" /\ ingresses' = ingresses /\ forwarded' = forwarded
      /\ jar' = jar /\ sessions' = sessions
  BY Bridge DEF Visit, LogOut, Ask
<1>2. IngressOK(ingresses)
  BY DEF TypeInv
<1>3. RequestOK(ingresses, url', p)
  <2>1. CASE Visit(p)
    <3>1. url' = [scheme |-> "https", host |-> p.host, path |-> p.path, redirect |-> None]
      BY <2>1 DEF Visit, Ask, URLOf
    <3>2. ToApp(ingresses, url')
      BY <1>1, <1>2, <3>1, Matched DEF ToApp
    <3> QED BY <3>1, <3>2 DEF RequestOK, HostsOf
  <2>2. CASE LogOut(p)
    <3>1. url' = [scheme |-> "https", host |-> p.host,
                  path |-> Route(OwnIn(ingresses, p), "logout/local"), redirect |-> None]
      BY <2>2, Bridge DEF LogOut, Ask, URLOf
    <3>2. ToLogout(ingresses, url', p)
      BY <3>1 DEF ToLogout
    <3> QED BY <3>1, <3>2 DEF RequestOK, HostsOf
  <2> QED BY <2>1, <2>2
<1>4. visits' \in 0 .. MaxVisits /\ logins' \in 0 .. MaxLogins
  BY <1>1, RoutingAssumption DEF TypeInv
<1>5. \A c \in jar : CookieOK(ingresses, c, visits')
  <2>1. \A c \in jar : CookieOK(ingresses, c, visits)
    BY DEF TypeInv
  <2>2. \A c \in jar : c.name = "login" =>
              c.value.state[1] \in Int /\ visits \in Int /\ c.value.state[1] <= visits'
    BY <1>1, <2>1 DEF TypeInv, CookieOK, LoginCookie
  <2> QED BY <2>1, <2>2 DEF CookieOK
<1> QED BY <1>1, <1>2, <1>3, <1>4, <1>5 DEF TypeInv, VisitOK

\* The reverse proxy.
LEMMA ReverseProxyTypeInv ==
    ASSUME TypeInv, ReverseProxy
    PROVE  TypeInv'
<1>1. /\ at = "request" /\ Endpoint(url.path) = "app"
      /\ ingresses' = ingresses /\ forwarded' = forwarded /\ page' = page /\ jar' = jar
      /\ sessions' = sessions /\ logins' = logins /\ visits' = visits
  BY DEF ReverseProxy, Arrived
<1>2. page \in Pages /\ RequestOK(ingresses, url, page) /\ url.path \in Goals(ingresses)
  BY <1>1, InVisit, Dispatch DEF ToApp
<1>3. /\ RequestOK(ingresses, url', page)
      /\ \/ at' = "rest" /\ result' \in {"served", "loop"}
         \/ at' = "request" /\ result' = "none"
  BY <1>1, <1>2, InVisit, LoginURLOK DEF ReverseProxy, Show, Redirect
<1> QED BY <1>1, <1>2, <1>3 DEF TypeInv, VisitOK

\* The login endpoint.
LEMMA LoginTypeInv ==
    ASSUME TypeInv, Login
    PROVE  TypeInv'
<1>1. /\ at = "request" /\ Endpoint(url.path) = "login"
      /\ ingresses' = ingresses /\ forwarded' = forwarded /\ page' = page
      /\ sessions' = sessions /\ visits' = visits
  BY DEF Login, Arrived
<1>2. /\ page \in Pages /\ RequestOK(ingresses, url, page) /\ url.redirect \in Goals(ingresses)
      /\ MatchIn(ingresses, url.path) \in PathsOf(ingresses)
      /\ IngressOK(ingresses) /\ result = "none"
  BY <1>1, InVisit, Dispatch DEF ToLogin
<1>3. CASE respondError /\ UNCHANGED <<state, jar, logins>>
  <2>1. /\ RequestOK(ingresses, url', page)
        /\ \/ at' = "rest" /\ result' = "failed"
           \/ at' = "request" /\ result' = "none"
    BY <1>1, <1>3, ErrorOK
  <2> QED BY <1>1, <1>2, <1>3, <2>1 DEF TypeInv, VisitOK
<1>4. ASSUME NEW match \in MatchingIngress(url), logins < MaxLogins,
             url' = makeCallbackURL(match), at' = "provider", logins' = logins + 1,
             state' = <<visits, logins'>>, result' = result,
             jar' = SetCookie(jar, "login", url,
                             [state |-> state', referer |-> CanonicalRedirect(url)])
      PROVE  TypeInv'
  <2>1. /\ match \in ingresses
        /\ url' = [scheme |-> match.scheme, host |-> match.host,
                   path |-> Route(match.path, "callback"), redirect |-> None]
    BY <1>4 DEF MatchingIngress, makeCallbackURL, URLOf
  <2>2. ToCallback(ingresses, url') /\ url'.scheme \in {"http", "https"}
        /\ url'.host \in HostsOf(ingresses)
    BY <1>2, <2>1 DEF ToCallback, IngressOK, HostsOf
  <2>3. RequestOK(ingresses, url', page)
    BY <2>2 DEF RequestOK
  <2>4. CanonicalRedirect(url) = url.redirect
    BY <1>2, GoalsOK DEF CanonicalRedirect
  <2>5. logins' \in 0 .. MaxLogins
    BY <1>4, RoutingAssumption DEF TypeInv
  <2> DEFINE v == [state |-> state', referer |-> CanonicalRedirect(url)]
             new == [name |-> "login", host |-> url.host,
                     path |-> MatchIn(ingresses, url.path), value |-> v]
  <2>6. v \in LoginCookie /\ v.referer \in Goals(ingresses) /\ v.state[1] <= visits
    <3>1. visits \in 0 .. MaxVisits /\ visits <= visits
      BY RoutingAssumption DEF TypeInv
    <3>2. url.redirect \in AllTargets
      BY <1>2, GoalsOK
    <3> QED BY <1>2, <1>4, <2>4, <2>5, <3>1, <3>2 DEF LoginCookie
  <2>7. \A c \in jar' : c \in jar \/ c = new
    BY <1>4, JarOf
  <2> HIDE DEF v
  <2>8. CookieOK(ingresses, new, visits)
    BY <1>2, <2>6 DEF CookieOK
  <2> HIDE DEF new
  <2>9. \A c \in jar' : CookieOK(ingresses, c, visits)
    BY <2>7, <2>8 DEF TypeInv
  <2> QED BY <1>1, <1>2, <1>4, <2>2, <2>3, <2>5, <2>9 DEF TypeInv, VisitOK
<1> QED BY <1>3, <1>4 DEF Login

\* The provider sends the browser back.
LEMMA AuthorizeTypeInv ==
    ASSUME TypeInv, Authorize
    PROVE  TypeInv'
BY DEF TypeInv, VisitOK, Authorize, Redirect

\* The callback endpoint.
LEMMA CallbackTypeInv ==
    ASSUME TypeInv, Callback
    PROVE  TypeInv'
<1> DEFINE cleared == ClearCookie(jar, "login", url)
           cookie == Cookie("login", url)
<1>1. /\ at = "request" /\ Endpoint(url.path) = "callback"
      /\ ingresses' = ingresses /\ forwarded' = forwarded /\ page' = page
      /\ logins' = logins /\ visits' = visits
  BY DEF Callback, Arrived
<1>2. /\ page \in Pages /\ RequestOK(ingresses, url, page) /\ ToCallback(ingresses, url)
      /\ MatchIn(ingresses, url.path) \in PathsOf(ingresses)
      /\ IngressOK(ingresses) /\ result = "none"
  BY <1>1, InVisit, Dispatch
<1>3. \A c \in cleared : CookieOK(ingresses, c, visits)
  BY JarOf DEF TypeInv
<1>4. CASE respondError /\ jar' = cleared /\ sessions' = sessions
  <2>1. /\ RequestOK(ingresses, url', page)
        /\ \/ at' = "rest" /\ result' = "failed"
           \/ at' = "request" /\ result' = "none"
    BY <1>1, <1>4, ErrorOK
  <2> QED BY <1>1, <1>2, <1>3, <1>4, <2>1 DEF TypeInv, VisitOK
<1>5. CASE /\ cookie # None
           /\ sessions' = sessions \cup {SessionID(state)}
           /\ jar' = SetCookie(cleared, "session", url, SessionID(state))
           /\ Redirect(URLOf(url.scheme, url.host, cookie.referer, None))
  <2>1. cookie.referer \in Goals(ingresses)
    BY <1>1, <1>5, CookieValues DEF CookieOK
  <2>2. /\ url' = [scheme |-> url.scheme, host |-> url.host, path |-> cookie.referer,
                   redirect |-> None]
        /\ at' = "request" /\ result' = "none"
    BY <1>2, <1>5 DEF Redirect, URLOf
  <2>3. RequestOK(ingresses, url', page)
    BY <1>2, <2>1, <2>2 DEF RequestOK, ToApp
  <2> DEFINE new == [name |-> "session", host |-> url.host,
                     path |-> MatchIn(ingresses, url.path), value |-> "sid"]
  <2>4. \A c \in jar' : c \in cleared \/ c = new
    BY <1>5, JarOf DEF SessionID
  <2>5. CookieOK(ingresses, new, visits)
    BY <1>2 DEF CookieOK, ToCallback
  <2> HIDE DEF new
  <2>6. \A c \in jar' : CookieOK(ingresses, c, visits)
    BY <1>3, <2>4, <2>5
  <2>7. sessions' \subseteq {"sid"}
    BY <1>5 DEF TypeInv, SessionID
  <2> QED BY <1>1, <1>2, <2>2, <2>3, <2>6, <2>7 DEF TypeInv, VisitOK
<1> QED BY <1>4, <1>5 DEF Callback

\* The logout endpoint.
LEMMA LogoutTypeInv ==
    ASSUME TypeInv, Logout
    PROVE  TypeInv'
<1>1. /\ at = "request" /\ Endpoint(url.path) = "logout"
      /\ ingresses' = ingresses /\ forwarded' = forwarded /\ page' = page
      /\ logins' = logins /\ visits' = visits
  BY DEF Logout, Arrived
<1>2. page \in Pages /\ RequestOK(ingresses, url, page)
  BY <1>1, InVisit
<1>3. CASE respondError /\ UNCHANGED <<jar, sessions>>
  <2>1. /\ RequestOK(ingresses, url', page)
        /\ \/ at' = "rest" /\ result' = "failed"
           \/ at' = "request" /\ result' = "none"
    BY <1>1, <1>3, ErrorOK
  <2> QED BY <1>1, <1>2, <1>3, <2>1 DEF TypeInv, VisitOK
<1>4. CASE /\ Show("loggedout") /\ sessions' = sessions \ {Cookie("session", url)}
           /\ jar' = ClearCookie(jar, "session", url)
  <2>1. \A c \in jar' : CookieOK(ingresses, c, visits)
    BY <1>4, JarOf DEF TypeInv
  <2> QED BY <1>1, <1>2, <1>4, <2>1 DEF TypeInv, VisitOK, Show
<1> QED BY <1>3, <1>4 DEF Logout

\* Every step keeps the type invariant.
LEMMA NextTypeInv == TypeInv /\ [Next]_vars => TypeInv'
<1> SUFFICES ASSUME TypeInv, [Next]_vars PROVE TypeInv'
  OBVIOUS
<1>1. CASE UNCHANGED vars
  BY <1>1 DEF vars, TypeInv, VisitOK
<1>2. CASE Next
  BY <1>1, <1>2, AskTypeInv, ReverseProxyTypeInv, LoginTypeInv, AuthorizeTypeInv,
     CallbackTypeInv, LogoutTypeInv DEF Next, Rested
<1> QED BY <1>1, <1>2

\* The ingresses, requests and cookies are always as TypeOK says: cookies are
\* set for ingress paths only, redirects go to pages asked for and to ingress
\* paths, and the login endpoint is always given a target
\* (GetCookieOptsPathAware, LoginRelative, CanonicalRedirect).
THEOREM TypeCorrect == Spec => []TypeOK
<1>1. Spec => []TypeInv
  BY InitTypeInv, NextTypeInv, PTL DEF Spec
<1> QED BY <1>1, TypeInvTypeOK, PTL

-----------------------------------------------------------------------------
\* MatchingPath finds the page's own ingress for the page and its endpoints.
LEMMA PlainMatch ==
    ASSUME NEW I, IngressOK(I), NEW p \in Pages, RoutedIn(I, p), PlainIn(I, p)
    PROVE  /\ MatchIn(I, p.path) = OwnIn(I, p)
           /\ \A e \in Endpoints : MatchIn(I, Route(OwnIn(I, p), e)) = OwnIn(I, p)
<1> DEFINE own == OwnIn(I, p)
<1>1. own \in PathsOf(I) /\ own \in PathType /\ Under(p.path, own)
  BY OwnIsMostSpecific
<1>2. /\ p.path \in PathType
      /\ \A q \in PathsOf(I) : HasPrefix(p.path, q) => HasPrefix(own, q)
      /\ \A e \in Endpoints, q \in PathsOf(I) : HasPrefix(Route(own, e), q) => HasPrefix(own, q)
  BY RoutingAssumption DEF PathType, PlainIn
<1> HIDE DEF own
<1>3. ASSUME NEW path \in PathType, Under(path, own),
             \A q \in PathsOf(I) : HasPrefix(path, q) => HasPrefix(own, q)
      PROVE  MatchIn(I, path) = own
  <2>1. HasPrefix(path, own)
    BY <1>1, <1>3, PrefixOrder
  <2>2. /\ MatchIn(I, path) \in PathsOf(I) /\ MatchIn(I, path) \in PathType
        /\ HasPrefix(path, MatchIn(I, path)) /\ HasPrefix(MatchIn(I, path), own)
    BY <1>1, <2>1, MatchIsLongest
  <2>3. HasPrefix(own, MatchIn(I, path))
    BY <1>3, <2>2
  <2> QED BY <1>1, <2>2, <2>3, PrefixOrder
<1>4. MatchIn(I, p.path) = own
  BY <1>1, <1>2, <1>3
<1>5. \A e \in Endpoints : MatchIn(I, Route(own, e)) = own
  BY <1>1, <1>2, <1>3, Matched
<1> QED BY <1>4, <1>5 DEF own

\* The only ingress that matches a request to an endpoint of the page's own
\* ingress is that one.
LEMMA PlainIngress ==
    ASSUME TypeInv, page \in Pages, RoutedIn(ingresses, page), PlainIn(ingresses, page),
           NEW r, r.host = page.host,
           MatchIn(ingresses, r.path) = OwnIn(ingresses, page)
    PROVE  /\ MatchingIngress(r) # {}
           /\ \A i \in MatchingIngress(r) : /\ i.host = page.host /\ i.scheme = "https"
                                            /\ i.path = OwnIn(ingresses, page)
<1> DEFINE own == OwnIn(ingresses, page)
<1>1. IngressOK(ingresses)
  BY DEF TypeInv
<1>2. \A i \in ingresses : i.host = page.host /\ i.path = own => i.scheme = "https"
  <2>1. {i.scheme : i \in {j \in ingresses : j.host = page.host /\ j.path = own}} = {"https"}
    BY DEF PlainIn
  <2> QED BY <2>1
<1>3. \E i \in ingresses : i.host = page.host /\ i.path = own
  BY <1>1, OwnIsMostSpecific
<1>4. MatchingPath(r.path) = own
  BY Bridge
<1>5. RequestHosts(r) \subseteq {Internal, page.host} /\ page.host \in RequestHosts(r)
  BY DEF RequestHosts
<1> HIDE DEF own
<1>6. MatchingIngress(r) # {}
  BY <1>3, <1>4, <1>5 DEF MatchingIngress
<1>7. ASSUME NEW i \in MatchingIngress(r)
      PROVE  i.host = page.host /\ i.scheme = "https" /\ i.path = own
  <2>1. i \in ingresses /\ i.host \in RequestHosts(r) /\ i.path = own
    BY <1>4 DEF MatchingIngress
  <2>2. i.host # Internal
    BY <1>1, <2>1 DEF IngressOK
  <2> QED BY <1>2, <1>5, <2>1, <2>2
<1> QED BY <1>6, <1>7 DEF own

\* On the page and its endpoints, a cookie on the page's own path wins over all
\* others that are sent.
LEMMA OwnCookieWins ==
    ASSUME TypeInv, at # "rest", PlainIn(ingresses, page),
           url.host = page.host, url.scheme = "https",
           MatchIn(ingresses, url.path) = OwnIn(ingresses, page),
           Under(url.path, OwnIn(ingresses, page)),
           NEW name, NEW o \in jar, IsOwn(o, name, page, OwnIn(ingresses, page))
    PROVE  \E c \in jar : /\ IsOwn(c, name, page, OwnIn(ingresses, page))
                          /\ Cookie(name, url) = c.value
<1> DEFINE own == OwnIn(ingresses, page)
<1>1. /\ IngressOK(ingresses) /\ page \in Pages /\ RoutedIn(ingresses, page)
      /\ url.path \in PathType /\ own \in PathType
  BY InVisit, OwnIsMostSpecific
<1>2. \A c \in jar : c.path \in PathType /\ c.path \in PathsOf(ingresses)
  BY <1>1, PathsFinite DEF TypeInv, CookieOK
<1>3. o \in Sent(name, url)
  BY DEF Sent, IsOwn
<1>4. PICK c \in Sent(name, url) : /\ Cookie(name, url) = c.value
                                   /\ \A d \in Sent(name, url) : Len(d.path) <= Len(c.path)
  BY <1>1, <1>2, <1>3, CookieIsSent
<1>5. c \in jar /\ c.name = name /\ c.host = page.host /\ Under(url.path, c.path)
  BY <1>4 DEF Sent
<1>6. HasPrefix(url.path, c.path)
  BY <1>1, <1>2, <1>5, PrefixOrder
<1>7. HasPrefix(own, c.path)
  BY <1>1, <1>2, <1>5, <1>6, MatchIsLongest
<1>8. Len(c.path) <= Len(own) /\ Len(own) <= Len(c.path)
  BY <1>3, <1>4, <1>7 DEF HasPrefix, IsOwn
<1>9. Len(c.path) = Len(own)
  BY <1>1, <1>2, <1>5, <1>8 DEF PathType
<1>10. c.path = own
  BY <1>1, <1>2, <1>5, <1>9, UnderEqual
<1> QED BY <1>4, <1>5, <1>10 DEF IsOwn

\* A visit begins at its first stage: earlier visits have left login cookies of
\* their own only.
LEMMA AskCourse ==
    ASSUME TypeInv, NEW p \in Pages, Visit(p) \/ LogOut(p)
    PROVE  CourseInv'
<1>1. /\ at' = "request" /\ page' = p /\ ingresses' = ingresses /\ logins' = 0
      /\ visits' = visits + 1 /\ jar' = jar
      /\ url'.scheme = "https" /\ url'.host = p.host
      /\ \/ url'.path = p.path
         \/ url'.path = Route(OwnIn(ingresses, p), "logout/local")
  BY Bridge DEF Visit, LogOut, Ask, URLOf
<1>2. \A c \in jar : c.name = "login" => c.value.state[1] # visits + 1
  <2>1. \A c \in jar : c.name = "login" =>
           c.value.state[1] \in Int /\ visits \in Int /\ c.value.state[1] <= visits
    BY DEF TypeInv, CookieOK, LoginCookie
  <2> QED BY <2>1
<1>3. NoLoginCookie'
  BY <1>1, <1>2 DEF NoLoginCookie
<1>4. CASE url'.path = p.path
  <2>1. Asked'
    BY <1>1, <1>3, <1>4 DEF Asked
  <2> QED BY <1>1, <2>1 DEF CourseInv, Stages
<1>5. CASE url'.path = Route(OwnIn(ingresses, p), "logout/local")
  BY <1>1, <1>5 DEF CourseInv, Stages, LoggingOut
<1> QED BY <1>1, <1>4, <1>5

\* What the handlers can take for granted of a request for a plain page.
LEMMA OnCourse ==
    ASSUME TypeInv, CourseInv, at # "rest", PlainIn(ingresses, page),
           NEW own, own = OwnIn(ingresses, page)
    PROVE  /\ url.scheme = "https" /\ url.host = page.host
           /\ MatchIn(ingresses, url.path) = own
           /\ Under(url.path, own)
           /\ Endpoint(url.path) = "app" => Asked \/ Returned(own)
           /\ Endpoint(url.path) = "login" => LoggingIn(own)
           /\ Endpoint(url.path) = "callback" => CallingBack(own)
           /\ Endpoint(url.path) = "logout" => LoggingOut(own)
<1>1. /\ page \in Pages /\ page # None /\ RoutedIn(ingresses, page) /\ IngressOK(ingresses)
  BY InVisit
<1>2. own \in PathsOf(ingresses) /\ own \in PathType /\ Under(page.path, own)
  BY <1>1, OwnIsMostSpecific
<1>3. /\ url.scheme = "https" /\ url.host = page.host
      /\ Asked \/ LoggingIn(own) \/ CallingBack(own) \/ Returned(own) \/ LoggingOut(own)
  BY <1>1, <1>2 DEF CourseInv, Stages, Served
<1>4. page.path \in Goals(ingresses)
  BY <1>1, Matched
<1>5. "login" \in Endpoints /\ "callback" \in Endpoints /\ "logout/local" \in Endpoints
  BY DEF Endpoints
<1>6. MatchIn(ingresses, page.path) = own
      /\ \A e \in Endpoints : MatchIn(ingresses, Route(own, e)) = own
  BY <1>1, PlainMatch
<1>7. \A e \in Endpoints : Under(Route(own, e), own)
  BY <1>1, <1>2, Matched
<1>8. /\ Endpoint(page.path) = "app" /\ Endpoint(Route(own, "login")) = "login"
      /\ Endpoint(Route(own, "callback")) = "callback"
      /\ Endpoint(Route(own, "logout/local")) = "logout"
  BY <1>1, <1>2, <1>4, EndpointOf
<1>9. /\ Asked => url.path = page.path
      /\ Returned(own) => url.path = page.path
      /\ LoggingIn(own) => url.path = Route(own, "login")
      /\ CallingBack(own) => url.path = Route(own, "callback")
      /\ LoggingOut(own) => url.path = Route(own, "logout/local")
  BY DEF Asked, Returned, LoggingIn, CallingBack, LoggingOut
<1>10. MatchIn(ingresses, url.path) = own /\ Under(url.path, own)
  BY <1>2, <1>3, <1>5, <1>6, <1>7, <1>9
<1>11. /\ Endpoint(url.path) = "app" => Asked \/ Returned(own)
       /\ Endpoint(url.path) = "login" => LoggingIn(own)
       /\ Endpoint(url.path) = "callback" => CallingBack(own)
       /\ Endpoint(url.path) = "logout" => LoggingOut(own)
  BY <1>3, <1>8, <1>9
<1> QED BY <1>3, <1>10, <1>11

\* The reverse proxy serves the page or asks for a login, and serves it after
\* one.
LEMMA ReverseProxyCourse ==
    ASSUME TypeInv, CourseInv, ReverseProxy, PlainIn(ingresses, page),
           NEW own, own = OwnIn(ingresses, page)
    PROVE  Stages(own)'
<1>1. /\ at = "request" /\ Endpoint(url.path) = "app"
      /\ ingresses' = ingresses /\ page' = page /\ state' = state /\ jar' = jar
      /\ sessions' = sessions /\ logins' = logins /\ visits' = visits
  BY DEF ReverseProxy, Arrived
<1>2. /\ url.scheme = "https" /\ url.host = page.host
      /\ MatchIn(ingresses, url.path) = own /\ Under(url.path, own)
      /\ Asked \/ Returned(own)
  BY <1>1, OnCourse
<1>3. url.path = page.path /\ NoLoginCookie /\ logins \in {0, 1}
  BY <1>2 DEF Asked, Returned
<1>4. LoginURL(url, url.path) = [scheme |-> "https", host |-> page.host,
                                 path |-> Route(own, "login"), redirect |-> page.path]
  BY <1>2, <1>3, Bridge DEF LoginURL, URLOf
<1>5. logins = 1 => Cookie("session", url) \in sessions /\ SessionCookieSet(own)
  <2> SUFFICES ASSUME logins = 1
               PROVE  Cookie("session", url) \in sessions /\ SessionCookieSet(own)
    OBVIOUS
  <2>1. SessionCookieSet(own) /\ "sid" \in sessions
    BY <1>2 DEF Asked, Returned
  <2>2. PICK o \in jar : IsOwn(o, "session", page, own)
    BY <2>1 DEF SessionCookieSet
  <2>3. PICK c \in jar : /\ IsOwn(c, "session", page, own)
                         /\ Cookie("session", url) = c.value
    BY <1>1, <1>2, <2>2, OwnCookieWins
  <2>4. c.value = "sid"
    BY <2>3 DEF TypeInv, CookieOK, IsOwn
  <2> QED BY <2>1, <2>3, <2>4
<1>6. CASE Show("served")
  <2>1. Served(own)'
    BY <1>1, <1>3, <1>5, <1>6 DEF Served, Show, SessionCookieSet, NoLoginCookie, IsOwn
  <2> QED BY <2>1 DEF Stages
<1>7. CASE Cookie("session", url) \notin sessions /\ Redirect(LoginURL(url, url.path))
  <2>1. logins = 0 /\ url'.scheme = "https" /\ url'.host = page.host
    BY <1>3, <1>4, <1>5, <1>7 DEF Redirect
  <2>2. LoggingIn(own)'
    BY <1>1, <1>3, <1>4, <1>7, <2>1 DEF LoggingIn, Redirect, NoLoginCookie
  <2> QED BY <1>1, <2>1, <2>2 DEF Stages
<1>8. CASE Cookie("session", url) \notin sessions /\ logins = MaxLogins
  BY <1>3, <1>5, <1>8, RoutingAssumption
<1> QED BY <1>6, <1>7, <1>8 DEF ReverseProxy

\* The login endpoint sets its cookie on the page's own path.
LEMMA LoginCourse ==
    ASSUME TypeInv, CourseInv, Login, PlainIn(ingresses, page),
           NEW own, own = OwnIn(ingresses, page)
    PROVE  Stages(own)'
<1>1. /\ at = "request" /\ Endpoint(url.path) = "login"
      /\ ingresses' = ingresses /\ page' = page /\ visits' = visits
  BY DEF Login, Arrived
<1>2. /\ url.scheme = "https" /\ url.host = page.host
      /\ MatchIn(ingresses, url.path) = own /\ LoggingIn(own)
      /\ page \in Pages /\ RoutedIn(ingresses, page)
  BY <1>1, OnCourse, InVisit
<1>3. /\ MatchingIngress(url) # {}
      /\ \A i \in MatchingIngress(url) :
            i.host = page.host /\ i.scheme = "https" /\ i.path = own
  BY <1>2, PlainIngress
<1>4. CanonicalRedirect(url) = page.path /\ logins = 0 /\ NoLoginCookie
  <2>1. page.path # None
    BY <1>2, NoneAssumption DEF AllTargets
  <2> QED BY <1>2, <2>1 DEF LoggingIn, CanonicalRedirect
<1>5. PICK match \in MatchingIngress(url) :
         /\ url' = makeCallbackURL(match) /\ at' = "provider"
         /\ logins' = logins + 1
         /\ state' = <<visits, logins'>>
         /\ jar' = SetCookie(jar, "login", url,
                             [state |-> state', referer |-> CanonicalRedirect(url)])
  BY <1>3 DEF Login
<1>6. url'.scheme = "https" /\ url'.host = page.host /\ url'.path = Route(own, "callback")
  BY <1>3, <1>5 DEF makeCallbackURL, URLOf
<1> DEFINE new == [name |-> "login", host |-> page.host, path |-> own,
                   value |-> [state |-> state', referer |-> page.path]]
<1>7. jar' = {c \in jar : ~(c.name = "login" /\ c.host = page.host /\ c.path = own)}
                \cup {new}
  BY <1>2, <1>4, <1>5, JarOf
<1>8. /\ IsOwn(new, "login", page, own)
      /\ new.value.state = state' /\ new.value.referer = page.path
  BY DEF IsOwn
<1> HIDE DEF new
<1>9. /\ new \in jar'
      /\ \A c \in jar' : IsOwn(c, "login", page, own) => c = new
      /\ \A c \in jar' : c.name = "login" /\ ~IsOwn(c, "login", page, own) => c \in jar
  BY <1>7, <1>8 DEF IsOwn
<1>10. LoginCookieSet(own)'
  BY <1>1, <1>4, <1>8, <1>9 DEF LoginCookieSet, NoLoginCookie, IsOwn
<1>11. CallingBack(own)'
  BY <1>4, <1>5, <1>6, <1>10 DEF CallingBack
<1> QED BY <1>1, <1>6, <1>11 DEF Stages

\* The provider sends the browser back.
LEMMA AuthorizeCourse ==
    ASSUME TypeInv, CourseInv, Authorize, PlainIn(ingresses, page),
           NEW own, own = OwnIn(ingresses, page)
    PROVE  Stages(own)'
<1>1. /\ at = "provider" /\ at' = "request" /\ url' = url /\ page' = page /\ jar' = jar
      /\ state' = state /\ logins' = logins /\ visits' = visits /\ ingresses' = ingresses
  BY DEF Authorize, Redirect
<1>2. page \in Pages /\ page # None /\ RoutedIn(ingresses, page) /\ IngressOK(ingresses)
  BY <1>1, InVisit
<1>3. own \in PathsOf(ingresses)
  BY <1>2, OwnIsMostSpecific
<1>4. CallingBack(own) /\ url.scheme = "https" /\ url.host = page.host
  BY <1>1, <1>2, <1>3 DEF CourseInv, Stages, Asked, LoggingIn, Returned, LoggingOut, Served
<1>5. CallingBack(own)'
  BY <1>1, <1>4 DEF CallingBack, LoginCookieSet, IsOwn
<1> QED BY <1>1, <1>4, <1>5 DEF Stages

\* The callback endpoint finds the login cookie, clears it, and sets the session
\* cookie on the same path.
LEMMA CallbackCourse ==
    ASSUME TypeInv, CourseInv, Callback, PlainIn(ingresses, page),
           NEW own, own = OwnIn(ingresses, page)
    PROVE  Stages(own)'
<1> DEFINE cleared == ClearCookie(jar, "login", url)
           cookie == Cookie("login", url)
<1>1. /\ at = "request" /\ Endpoint(url.path) = "callback"
      /\ ingresses' = ingresses /\ page' = page /\ visits' = visits /\ logins' = logins
  BY DEF Callback, Arrived
<1>2. /\ url.scheme = "https" /\ url.host = page.host
      /\ MatchIn(ingresses, url.path) = own /\ Under(url.path, own) /\ CallingBack(own)
      /\ page \in Pages /\ RoutedIn(ingresses, page)
  BY <1>1, OnCourse, InVisit
<1>3. logins = 1 /\ LoginCookieSet(own)
  BY <1>2 DEF CallingBack
<1>4. cookie # None /\ cookie.state = state /\ cookie.referer = page.path
  <2>1. PICK o \in jar : IsOwn(o, "login", page, own)
    BY <1>3 DEF LoginCookieSet
  <2>2. PICK c \in jar : IsOwn(c, "login", page, own) /\ cookie = c.value
    BY <1>1, <1>2, <2>1, OwnCookieWins
  <2>3. c.value \in LoginCookie
    BY <2>2 DEF TypeInv, CookieOK, IsOwn
  <2> QED BY <1>3, <2>2, <2>3, NoneAssumption DEF LoginCookieSet
<1>5. /\ sessions' = sessions \cup {"sid"}
      /\ jar' = SetCookie(cleared, "session", url, "sid")
      /\ Redirect(URLOf(url.scheme, url.host, cookie.referer, None))
  BY <1>4 DEF Callback, SessionID
<1>6. /\ at' = "request" /\ url'.scheme = "https" /\ url'.host = page.host
      /\ url'.path = page.path
  BY <1>2, <1>4, <1>5 DEF Redirect, URLOf
<1> DEFINE new == [name |-> "session", host |-> page.host, path |-> own, value |-> "sid"]
<1>7. cleared = {c \in jar : ~(c.name = "login" /\ c.host = page.host /\ c.path = own)}
  BY <1>2, Bridge DEF ClearCookie, Drop, CookiePath
<1>8. jar' = {c \in cleared : ~(c.name = "session" /\ c.host = page.host /\ c.path = own)}
                \cup {new}
  BY <1>2, <1>5, JarOf
<1>9. IsOwn(new, "session", page, own) /\ new.name # "login"
  BY DEF IsOwn
<1> HIDE DEF new, cleared
<1>10. SessionCookieSet(own)'
  BY <1>1, <1>8, <1>9 DEF SessionCookieSet, IsOwn
<1>11. NoLoginCookie'
  BY <1>1, <1>3, <1>7, <1>8, <1>9 DEF NoLoginCookie, LoginCookieSet, IsOwn
<1>12. Returned(own)'
  BY <1>1, <1>3, <1>5, <1>6, <1>10, <1>11 DEF Returned
<1> QED BY <1>1, <1>6, <1>12 DEF Stages

\* A logout of a plain page finds its ingress.
LEMMA LogoutCourse ==
    ASSUME TypeInv, CourseInv, Logout, PlainIn(ingresses, page),
           NEW own, own = OwnIn(ingresses, page)
    PROVE  Stages(own)'
<1>1. at = "request" /\ Endpoint(url.path) = "logout"
  BY DEF Logout, Arrived
<1>2. /\ url.host = page.host /\ MatchIn(ingresses, url.path) = own
      /\ page \in Pages /\ RoutedIn(ingresses, page)
  BY <1>1, OnCourse, InVisit
<1>3. MatchingIngress(url) # {}
  BY <1>2, PlainIngress
<1> QED BY <1>3 DEF Logout, Show, Stages

\* Every step keeps the course of a plain page.
LEMMA NextCourseInv == TypeInv /\ CourseInv /\ [Next]_vars => CourseInv'
<1> SUFFICES ASSUME TypeInv, CourseInv, [Next]_vars PROVE CourseInv'
  OBVIOUS
<1>1. CASE UNCHANGED vars
  BY <1>1 DEF vars, CourseInv, Stages, Asked, LoggingIn, CallingBack, Returned, LoggingOut,
              Served, NoLoginCookie, LoginCookieSet, SessionCookieSet, IsOwn
<1>2. CASE ReverseProxy \/ Login \/ Authorize \/ Callback \/ Logout
  <2>1. ingresses' = ingresses /\ page' = page
    BY <1>2 DEF ReverseProxy, Login, Authorize, Callback, Logout
  <2> SUFFICES ASSUME PlainIn(ingresses, page), NEW own, own = OwnIn(ingresses, page)
               PROVE  Stages(own)'
    BY <2>1 DEF CourseInv
  <2> QED BY <1>2, ReverseProxyCourse, LoginCourse, AuthorizeCourse, CallbackCourse, LogoutCourse
<1> QED BY <1>1, <1>2, AskCourse DEF Next, Rested

\* Both invariants of a visit hold.
LEMMA CourseCorrect == Spec => [](TypeInv /\ CourseInv)
<1>1. Init => TypeInv /\ CourseInv
  BY InitTypeInv DEF Init, CourseInv
<1>2. TypeInv /\ CourseInv /\ [Next]_vars => (TypeInv /\ CourseInv)'
  BY NextTypeInv, NextCourseInv
<1> QED BY <1>1, <1>2, PTL DEF Spec

\* A plain page is at one of the stages of its visit.
LEMMA PlainStages ==
    ASSUME TypeInv, CourseInv, page # None, Plain(page)
    PROVE  Stages(MostSpecific(page))
<1>1. page \in Pages /\ RoutedIn(ingresses, page) /\ IngressOK(ingresses)
  BY DEF TypeInv, VisitOK
<1>2. OwnIn(ingresses, page) \in PathsOf(ingresses)
  BY <1>1, OwnIsMostSpecific
<1>3. MostSpecific(page) = OwnIn(ingresses, page)
  BY Bridge
<1>4. PlainIn(ingresses, page)
  BY Bridge DEF Plain, PlainIn
<1> QED BY <1>2, <1>3, <1>4 DEF CourseInv

\* For every configuration of ingresses and whatever earlier visits have left in
\* the jar: auto-login, the login endpoint, the provider and the callback bring
\* the user back to the page asked for after one login, and a logout succeeds,
\* for pages that MatchingPath and MatchingIngress are not confused about.
THEOREM PlainLoginSucceeds == Spec => []LoginSucceeds
<1>1. TypeInv /\ CourseInv => LoginSucceeds
  BY PlainStages DEF LoginSucceeds, Stages, Asked, LoggingIn, CallingBack, Returned,
                     LoggingOut, Served
<1> QED BY <1>1, CourseCorrect, PTL

\* The session cookie that a login sets is on the path of the page's own
\* ingress, so that other ingresses of the host do not get it.
THEOREM SessionCookieOnOwnPath == Spec => []CookieOnMostSpecificPath
<1>1. TypeInv /\ CourseInv => CookieOnMostSpecificPath
  <2> SUFFICES ASSUME TypeInv, CourseInv, result = "served", logins > 0, Plain(page)
               PROVE  SessionCookieSet(MostSpecific(page))
    BY DEF CookieOnMostSpecificPath, SessionCookieSet, IsOwn
  <2>1. at = "rest" /\ page # None
    BY NoneAssumption DEF TypeInv, VisitOK
  <2>2. Served(MostSpecific(page))
    BY <2>1, PlainStages DEF Stages, Asked, LoggingIn, CallingBack, Returned, LoggingOut
  <2> QED BY <2>2 DEF Served
<1> QED BY <1>1, CourseCorrect, PTL

\* A login that succeeds has cleared its own login cookie: the callback clears
\* it on the path that the login endpoint has set it for.
THEOREM LoginCookieIsCleared == Spec => []LoginCookieCleared
<1>1. TypeInv /\ CourseInv => LoginCookieCleared
  <2> SUFFICES ASSUME TypeInv, CourseInv, result = "served", Plain(page)
               PROVE  NoLoginCookie
    BY DEF LoginCookieCleared, NoLoginCookie
  <2>1. at = "rest" /\ page # None
    BY NoneAssumption DEF TypeInv, VisitOK
  <2>2. Served(MostSpecific(page))
    BY <2>1, PlainStages DEF Stages, Asked, LoggingIn, CallingBack, Returned, LoggingOut
  <2> QED BY <2>2 DEF Served
<1> QED BY <1>1, CourseCorrect, PTL

-----------------------------------------------------------------------------
(***************************************************************************)
(* Logout, of any page.                                                    *)
(***************************************************************************)
\* Where MatchingPath takes a path of another host for an endpoint of the
\* ingress m, that path is m with a segment that oauth2 begins with.
LEMMA Mismatch ==
    ASSUME NEW I, IngressOK(I), NEW m \in PathsOf(I), NEW e \in Endpoints,
           MatchIn(I, Route(m, e)) # m
    PROVE  LET P == MatchIn(I, Route(m, e)) IN Len(P) = Len(m) + 1 /\ Under(P, m)
<1> DEFINE P == MatchIn(I, Route(m, e))
<1>1. m \in PathType /\ Len(m) \in Nat
  BY PathsFinite DEF PathType
<1>2. Route(m, e) \in PathType /\ HasPrefix(Route(m, e), m)
  BY <1>1, Matched, PrefixOrder
<1>3. P \in PathsOf(I) /\ P \in PathType /\ HasPrefix(Route(m, e), P) /\ HasPrefix(P, m)
  BY <1>2, MatchIsLongest
<1>4. Len(P) \in Nat /\ \A i \in 1 .. Len(P) : P[i] # "oauth2"
  BY <1>3, PathsFinite DEF PathType, Range
<1>5. P # m
  OBVIOUS
<1> HIDE DEF P
<1>6. /\ Len(Route(m, e)) = Len(m) + 2 /\ Route(m, e)[Len(m) + 1] = "oauth2"
      /\ \A i \in 1 .. Len(m) : Route(m, e)[i] = m[i]
  BY <1>1, RouteSegments
<1>7. Len(m) <= Len(P) /\ Len(P) <= Len(m) + 2
  BY <1>3, <1>6 DEF HasPrefix
<1>8. Len(P) # Len(m) + 2
  <2> SUFFICES ASSUME Len(P) = Len(m) + 2 PROVE FALSE
    OBVIOUS
  <2>1. Len(m) + 1 \in 1 .. Len(P) /\ Len(m) + 1 # Len(P)
    BY <1>1
  <2>2. Route(m, e)[Len(m) + 1] = P[Len(m) + 1]
    BY <1>3, <2>1 DEF HasPrefix
  <2> QED BY <1>4, <1>6, <2>1, <2>2
<1>9. Len(P) # Len(m)
  <2> SUFFICES ASSUME Len(P) = Len(m) PROVE FALSE
    OBVIOUS
  <2>1. HasPrefix(m, P)
    BY <1>3, <1>6 DEF HasPrefix
  <2> QED BY <1>1, <1>3, <1>5, <2>1, PrefixOrder
<1>10. Len(P) = Len(m) + 1
  BY <1>1, <1>4, <1>7, <1>8, <1>9
<1>11. \A i \in 1 .. Len(m) : m[i] = P[i]
  <2>1. \A i \in 1 .. Len(m) : i \in 1 .. Len(P) /\ i # Len(P)
    BY <1>1, <1>10
  <2> QED BY <1>3, <1>6, <2>1 DEF HasPrefix
<1>12. Under(P, m)
  BY <1>1, <1>3, <1>7, <1>11, UnderSegments
<1> QED BY <1>10, <1>12 DEF P

\* A session cookie that reaches the page is sent to the logout endpoint of the
\* page's ingress, if that endpoint matches an ingress of the host at all.
LEMMA LogoutGetsCookie ==
    ASSUME NEW I, IngressOK(I), NEW p \in Pages, RoutedIn(I, p),
           NEW c, CookieOK(I, c, visits), c.name = "session", c.host = p.host,
           Under(p.path, c.path),
           \E i \in I : /\ i.host = p.host
                        /\ i.path = MatchIn(I, Route(OwnIn(I, p), "logout/local"))
    PROVE  Under(Route(OwnIn(I, p), "logout/local"), c.path)
<1> DEFINE own == OwnIn(I, p)
<1>1. /\ own \in PathsOf(I) /\ own \in PathType /\ Under(p.path, own)
      /\ \A j \in I : j.host = p.host /\ Under(p.path, j.path) => Under(own, j.path)
  BY OwnIsMostSpecific
<1>2. c.path \in PathType /\ p.path \in PathType
  BY PathsFinite, RoutingAssumption DEF CookieOK, PathType
<1>3. "login" \in Endpoints /\ "callback" \in Endpoints /\ "logout/local" \in Endpoints
  BY DEF Endpoints
<1>4. Under(own, c.path)
  <2>1. PICK i \in I : i.host = p.host /\ c.path = MatchIn(I, Route(i.path, "callback"))
    BY DEF CookieOK
  <2> DEFINE m == i.path
  <2>2. m \in PathsOf(I) /\ m \in PathType
    BY PathsFinite DEF PathsOf
  <2>3. CASE c.path = m
    BY <1>1, <2>1, <2>3
  <2>4. CASE c.path # m
    <3>1. Len(c.path) = Len(m) + 1 /\ Under(c.path, m)
      BY <1>3, <2>1, <2>2, <2>4, Mismatch
    <3>2. Len(m) \in Nat /\ Len(own) \in Nat /\ Len(c.path) \in Nat /\ Len(p.path) \in Nat
      BY <1>1, <1>2, <2>2 DEF PathType
    <3>3. /\ Len(c.path) <= Len(p.path) /\ \A k \in 1 .. Len(c.path) : c.path[k] = p.path[k]
          /\ Len(own) <= Len(p.path) /\ \A k \in 1 .. Len(own) : own[k] = p.path[k]
          /\ Len(m) <= Len(c.path) /\ \A k \in 1 .. Len(m) : m[k] = c.path[k]
      <4>1. /\ Len(c.path) <= Len(p.path)
            /\ \A k \in 1 .. Len(c.path) : c.path[k] = p.path[k]
        BY <1>2, UnderSegments
      <4>2. Len(own) <= Len(p.path) /\ \A k \in 1 .. Len(own) : own[k] = p.path[k]
        BY <1>1, <1>2, UnderSegments
      <4>3. Len(m) <= Len(c.path) /\ \A k \in 1 .. Len(m) : m[k] = c.path[k]
        BY <1>2, <2>2, <3>1, UnderSegments
      <4> QED BY <4>1, <4>2, <4>3
    <3>4. Under(p.path, m)
      BY <1>2, <2>2, <3>2, <3>3, UnderSegments
    <3>5. Under(own, m)
      BY <1>1, <2>1, <3>4
    <3>6. CASE Len(own) >= Len(c.path)
      BY <1>1, <1>2, <3>2, <3>3, <3>6, UnderSegments
    <3>7. CASE Len(own) < Len(c.path)
      <4>1. Len(m) <= Len(own)
        BY <1>1, <2>2, <3>5, UnderSegments
      <4>2. Len(own) = Len(m)
        BY <3>1, <3>2, <3>7, <4>1
      <4>3. own = m
        BY <1>1, <1>2, <2>2, <3>4, <4>2, UnderEqual
      <4>4. MatchIn(I, Route(own, "logout/local")) = c.path
        BY <1>3, <2>1, <2>2, <4>3, SameMatch
      <4>5. PICK j \in I : j.host = p.host /\ j.path = c.path
        BY <4>4
      <4> QED BY <1>1, <4>5
    <3> QED BY <3>2, <3>6, <3>7
  <2> QED BY <2>3, <2>4
<1> DEFINE r == Route(own, "logout/local")
<1>5. r \in PathType /\ Under(r, own)
  BY <1>1, <1>3, Matched
<1> HIDE DEF own, r
<1>6. /\ Len(own) <= Len(r) /\ \A k \in 1 .. Len(own) : own[k] = r[k]
  BY <1>1, <1>5, UnderSegments
<1>7. Len(c.path) <= Len(own) /\ \A k \in 1 .. Len(c.path) : c.path[k] = own[k]
  BY <1>1, <1>2, <1>4, UnderSegments
<1>8. Len(c.path) \in Nat /\ Len(own) \in Nat /\ Len(r) \in Nat
  BY <1>1, <1>2, <1>5 DEF PathType
<1>9. Under(r, c.path)
  BY <1>2, <1>5, <1>6, <1>7, <1>8, UnderSegments
<1> QED BY <1>9 DEF own, r

\* A logout removes the session of all cookies that reach the page.
LEMMA LogoutReaches ==
    ASSUME TypeInv, Logout
    PROVE  LogoutReachesAllCookies'
<1>1. at = "request" /\ Endpoint(url.path) = "logout" /\ page' = page
  BY DEF Logout, Arrived
<1>2. /\ page \in Pages /\ RoutedIn(ingresses, page) /\ IngressOK(ingresses)
      /\ ToLogout(ingresses, url, page) /\ url.path \in PathType /\ result = "none"
  BY <1>1, InVisit, Dispatch
<1>3. CASE respondError
  <2>1. result' # "loggedout"
    BY <1>1, <1>3, ErrorOK
  <2> QED BY <2>1 DEF LogoutReachesAllCookies
<1>4. CASE /\ MatchingIngress(url) # {}
           /\ sessions' = sessions \ {Cookie("session", url)}
           /\ jar' = ClearCookie(jar, "session", url)
  <2>1. ASSUME NEW c \in jar, c.name = "session", c.host = page.host,
               Under(page.path, c.path)
        PROVE  c.value \notin sessions'
    <3>1. CookieOK(ingresses, c, visits) /\ c.value = "sid"
      BY <2>1 DEF TypeInv, CookieOK
    <3>2. \E i \in ingresses :
             /\ i.host = page.host
             /\ i.path = MatchIn(ingresses, Route(OwnIn(ingresses, page), "logout/local"))
      <4>1. PICK i \in ingresses : /\ i.host \in RequestHosts(url)
                                   /\ i.path = MatchIn(ingresses, url.path)
        BY <1>4, Bridge DEF MatchingIngress
      <4>2. i.host # Internal
        BY <1>2 DEF IngressOK
      <4> QED BY <1>2, <4>1, <4>2 DEF RequestHosts, ToLogout
    <3>3. Under(url.path, c.path)
      BY <1>2, <2>1, <3>1, <3>2, LogoutGetsCookie DEF ToLogout
    <3>4. c \in Sent("session", url)
      BY <1>2, <2>1, <3>3 DEF Sent, ToLogout
    <3>5. \A d \in jar : d.path \in PathType
      BY <1>2, PathsFinite DEF TypeInv, CookieOK
    <3>6. PICK d \in Sent("session", url) : Cookie("session", url) = d.value
      BY <1>2, <3>4, <3>5, CookieIsSent
    <3>7. d.value = "sid"
      BY <3>6 DEF Sent, TypeInv, CookieOK
    <3> QED BY <1>4, <3>1, <3>6, <3>7
  <2>2. jar' \subseteq jar
    BY <1>4, JarOf
  <2> QED BY <1>1, <2>1, <2>2 DEF LogoutReachesAllCookies
<1> QED BY <1>3, <1>4 DEF Logout

\* After a logout no session cookie that reaches the page names a live session,
\* whatever ingresses are configured and however earlier logins under nested
\* ingresses have spread their cookies over paths, and also where MatchingPath
\* takes another host's path for the page's own.
THEOREM LogoutReachesEveryCookie == Spec => []LogoutReachesAllCookies
<1>1. Init => TypeInv /\ LogoutReachesAllCookies
  BY InitTypeInv DEF Init, LogoutReachesAllCookies
<1>2. TypeInv /\ LogoutReachesAllCookies /\ [Next]_vars => (TypeInv /\ LogoutReachesAllCookies)'
  <2> SUFFICES ASSUME TypeInv, LogoutReachesAllCookies, [Next]_vars
               PROVE  LogoutReachesAllCookies'
    BY NextTypeInv
  <2>1. CASE UNCHANGED vars
    BY <2>1 DEF vars, LogoutReachesAllCookies
  <2>2. ASSUME NEW p \in Pages, Visit(p) \/ LogOut(p) PROVE LogoutReachesAllCookies'
    BY <2>2 DEF Visit, LogOut, Ask, LogoutReachesAllCookies
  <2>3. CASE ReverseProxy \/ Login \/ Authorize \/ Callback
    <3>1. at # "rest"
      BY <2>3 DEF ReverseProxy, Login, Authorize, Callback, Arrived
    <3>2. result = "none"
      BY <3>1, InVisit
    <3>3. result' # "loggedout"
      BY <2>3, <3>2 DEF ReverseProxy, Login, Authorize, Callback, respondError, Show, Redirect
    <3> QED BY <3>3 DEF LogoutReachesAllCookies
  <2> QED BY <2>1, <2>2, <2>3, LogoutReaches DEF Next, Rested
<1> QED BY <1>1, <1>2, PTL DEF Spec
=============================================================================
