------------------------------- MODULE Fallback -------------------------------
(* Where a request goes that a server does not take: the fallbacks of the  *)
(* configuration (httpLayer/classicFallback.go, fallbackConditionSet.go)   *)
(* and the choice among them (iics.go, checkfallback).  An entry may ask   *)
(* for the tag of the server, a path, one of two alpns and an sni; it is   *)
(* named by its place in the list.                                         *)
EXTENDS Naturals, Sequences, FiniteSets

CONSTANT None

VARIABLES
  entries,  (* the list of the configuration                               *)
  request   (* the tag of the server, the path, alpn and sni, or ""        *)

-----------------------------------------------------------------------------
(* A FallbackConditionSet is a set of pairs: what is asked for, and its    *)
(* value, which for alpn is a set.                                         *)
Condition(path, alpn, sni) ==
  (IF path = "" THEN {} ELSE {<<"path", path>>})
    \cup (IF alpn = {} THEN {} ELSE {<<"alpn", alpn>>})
    \cup (IF sni = "" THEN {} ELSE {<<"sni", sni>>})

Types(condition) == {c[1] : c \in condition}

OfEntry(e) == Condition(e.path, e.alpn, e.sni)

(* NewClassicFallbackFromConfList, InsertFallbackConditionSet: a later     *)
(* entry of the same condition replaces an earlier one.                    *)
IsDefault(e) == OfEntry(e) = {} /\ e.from = {}

Inserted == {i \in DOMAIN entries : ~IsDefault(entries[i])}

Latest(is) == IF is = {} THEN None ELSE CHOOSE i \in is : \A j \in is : j <= i

DefaultEntry == Latest({i \in DOMAIN entries : IsDefault(entries[i])})

(* supportedTypeMask; an entry that asks only for a tag is of a type of    *)
(* its own.                                                                *)
Supported ==
  UNION {IF OfEntry(entries[i]) = {} THEN {"default"} ELSE Types(OfEntry(entries[i])) : i \in Inserted}

(* Map: the entries of a tag, or those without one. *)
MapOf(tag) ==
  {i \in Inserted : IF tag = "" THEN entries[i].from = {} ELSE tag \in entries[i].from}

InMap(map, condition) == Latest({i \in map : OfEntry(entries[i]) = condition})

(* Variant that tries only the whole condition.                            *)
TestNoSubSets(condition, map) == InMap(map, condition)

(* TestAllSubSets: the whole condition, then its subsets, larger ones      *)
(* first, and of one size in the order of path, alpn, sni.                 *)
Weight(t) == CASE t = "path" -> 4 [] t = "alpn" -> 2 [] t = "sni" -> 1

Before(c, d) ==
  \/ Cardinality(c) > Cardinality(d)
  \/ /\ Cardinality(c) = Cardinality(d)
     /\ \E t \in Types(c) \ Types(d) : \A u \in Types(d) \ Types(c) : Weight(t) > Weight(u)

TestAllSubSets(condition, map) ==
  LET found == {c \in ((SUBSET condition) \ {{}}) \cup {condition} : InMap(map, c) # None}
  IN IF found = {} THEN None
     ELSE InMap(map, CHOOSE c \in found : \A d \in found \ {c} : Before(c, d))

GetFallback(tag, condition) ==
  IF (condition = {} /\ tag = "") \/ Types(condition) \cap Supported = {} THEN DefaultEntry
  ELSE LET map == IF MapOf(tag) = {} THEN MapOf("") ELSE MapOf(tag)
           result == TestAllSubSets(condition, map)
       IN IF result = None /\ Types(condition) = {"path"} THEN DefaultEntry ELSE result

(* checkfallback asks for the tag of the server, then without one. *)
Asked == Condition(request.path, IF request.alpn = "" THEN {} ELSE {request.alpn}, request.sni)

CheckFallback ==
  LET ofTag == GetFallback(request.tag, Asked)
  IN IF ofTag # None THEN ofTag ELSE GetFallback("", Asked)

-----------------------------------------------------------------------------
(* An entry applies to a request that has all it asks for.                 *)
Applies(i) ==
  LET e == entries[i]
  IN /\ e.from = {} \/ request.tag \in e.from
     /\ e.path \in {"", request.path}
     /\ e.alpn = {} \/ request.alpn \in e.alpn
     /\ e.sni \in {"", request.sni}

(* What the code never looks at: entries that allow both alpns, entries    *)
(* that ask for nothing but a tag, and entries without a tag for a request *)
(* of a server that has entries of its own, when only the path is known.   *)
Overlooked(i) ==
  LET e == entries[i]
  IN \/ Cardinality(e.alpn) > 1
     \/ OfEntry(e) = {} /\ e.from # {}
     \/ /\ e.from = {} /\ MapOf(request.tag) # {}
        /\ Types(Asked) = {"path"} /\ DefaultEntry # None

(* The entry that is chosen applies; one that applies and is not the       *)
(* default is chosen if there is any, and none that asks for less than     *)
(* another of the same tags.                                               *)
FallbackSound ==
  LET chosen == CheckFallback
      better(i) == Applies(i) /\ ~IsDefault(entries[i]) /\ ~Overlooked(i)
  IN /\ chosen # None => Applies(chosen)
     /\ (\E i \in DOMAIN entries : better(i)) => chosen # None /\ better(chosen)
     /\ chosen # None =>
          \A i \in DOMAIN entries :
            better(i) /\ entries[i].from = entries[chosen].from =>
              ~(OfEntry(entries[chosen]) \subseteq OfEntry(entries[i])
                /\ OfEntry(entries[chosen]) # OfEntry(entries[i]))
=============================================================================
