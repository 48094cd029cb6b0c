-------------------------- MODULE DiskMetadataProofs --------------------------
(* Proofs about DiskMetadata and the BindingMemory it extends, for every set  *)
(* of keys and values, every metadata to copy, and any number of changes and  *)
(* of calls.                                                                  *)
EXTENDS DiskMetadata, FiniteSetTheorems, TLAPS

USE ParamsAssumption, MetaAssumption

-----------------------------------------------------------------------------
(* The bindings.                                                              *)

Names == DOMAIN Strings
AllCalls == Calls \cup [name : DOMAIN MetadataStrings, set : {{}}]

(* What VDDK allocates, or nobody frees, is no string of a binding.           *)
Foreign == {"cnxParams", "info", "blockList"}

(* The bindings that there are, by name.                                      *)
LEMMA BindingNames ==
    /\ Names = {"Init", "InitEx",
                "Connect", "ConnectEx", "PrepareForAccess", "Open", "EndAccess", "Disconnect",
                "Exit", "Attach",
                "CheckRepair", "Cleanup", "Clone", "Create", "CreateChild",
                "Grow", "ListTransportModes", "Rename", "SpaceNeededForClone", "Unlink",
                "Shrink", "Defragment", "GetTransportMode",
                "GetMetadataKeys", "WriteMetadata", "ReadMetadata",
                "Close", "Read", "Write", "GetInfo", "QueryAllocatedBlocks"}
    /\ DOMAIN MetadataStrings = {"GetMetadataKeys", "WriteMetadata", "ReadMetadata"}
BY DEF Names, Strings, InitStrings, AccessStrings, DiskStrings, FileStrings, MetadataStrings,
       OtherStrings

(* The strings of the bindings that are no parameters.                        *)
Own == {"libDir", "config", "snapRef", "modes", "name", "filePath", "file", "dst", "src", "cstr",
        "pathName", "child", "delete", "wKey", "readKey"}
Memory == Own \cup ParamStrings

(* They have names of their own.                                              *)
LEMMA Apart ==
    Own \cap ParamStrings = {} /\ Own \cap Foreign = {} /\ ParamStrings \cap Foreign = {}
<1>1. Own \cap ParamStrings = {}
  BY DEF Own, ParamStrings
<1>2. Own \cap Foreign = {}
  BY DEF Own, Foreign
<1>3. ParamStrings \cap Foreign = {}
  BY DEF ParamStrings, Foreign
<1> QED
  BY <1>1, <1>2, <1>3

(* A binding makes each of its strings once.                                  *)
GoodStrings(s) ==
    /\ s \in Seq(Own)
    /\ \A i, j \in 1 .. Len(s) : i # j => s[i] # s[j]

(* Lists of at most three names.                                              *)
LEMMA ShortLists ==
    ASSUME NEW x \in Own, NEW y \in Own, NEW z \in Own, x # y, y # z, x # z
    PROVE  GoodStrings(<<>>) /\ GoodStrings(<<x>>) /\ GoodStrings(<<x, y>>)
           /\ GoodStrings(<<x, y, z>>)
<1> HIDE DEF Own
<1>1. GoodStrings(<<>>)
  BY DEF GoodStrings
<1>2. GoodStrings(<<x>>)
  BY DEF GoodStrings
<1>3. GoodStrings(<<x, y>>)
  <2> DEFINE s == <<x, y>>
  <2>1. s \in Seq(Own) /\ Len(s) = 2 /\ s[1] = x /\ s[2] = y
    OBVIOUS
  <2> HIDE DEF s
  <2>2. \A i \in 1 .. 2 : i = 1 \/ i = 2
    OBVIOUS
  <2>3. \A i, j \in 1 .. 2 : i # j => s[i] # s[j]
    BY <2>1, <2>2
  <2> QED
    BY <2>1, <2>3 DEF GoodStrings, s
<1>4. GoodStrings(<<x, y, z>>)
  <2> DEFINE s == <<x, y, z>>
  <2>1. s \in Seq(Own) /\ Len(s) = 3 /\ s[1] = x /\ s[2] = y /\ s[3] = z
    OBVIOUS
  <2> HIDE DEF s
  <2>2. \A i \in 1 .. 3 : i = 1 \/ i = 2 \/ i = 3
    OBVIOUS
  <2>3. \A i, j \in 1 .. 3 : i # j => s[i] # s[j]
    BY <2>1, <2>2
  <2> QED
    BY <2>1, <2>3 DEF GoodStrings, s
<1> QED
  BY <1>1, <1>2, <1>3, <1>4

(* So it is with every binding.                                               *)
LEMMA StringsApart == \A n \in Names : GoodStrings(Strings[n])
<1>0. \A x, y, z \in Own : x # y /\ y # z /\ x # z =>
         GoodStrings(<<>>) /\ GoodStrings(<<x>>) /\ GoodStrings(<<x, y>>)
         /\ GoodStrings(<<x, y, z>>)
  BY ShortLists
<1>o. {"libDir", "config", "snapRef", "modes", "name", "filePath", "file", "dst", "src", "cstr",
       "pathName", "child", "delete", "wKey", "readKey"} \subseteq Own
  BY DEF Own
<1>e. /\ GoodStrings(<<>>)
      /\ \A x \in Own : GoodStrings(<<x>>)
      /\ \A x, y \in Own : x # y => GoodStrings(<<x, y>>)
  <2>1. \A x \in Own : \E y, z \in Own : x # y /\ y # z /\ x # z
    BY <1>o
  <2>2. \A x, y \in Own : x # y => \E z \in Own : y # z /\ x # z
    <3>1. {"libDir", "config", "snapRef"} \subseteq Own
      BY <1>o
    <3> QED
      BY <3>1
  <2> QED
    BY <1>0, <1>o, <2>1, <2>2
<1>1. \A n \in DOMAIN InitStrings : GoodStrings(InitStrings[n])
  <2>1. \A n \in DOMAIN InitStrings :
           InitStrings[n] \in {<<"libDir">>, <<"libDir", "config">>}
    BY DEF InitStrings
  <2> QED
    BY <1>o, <1>e, <2>1
<1>2. \A n \in DOMAIN AccessStrings : GoodStrings(AccessStrings[n])
  <2>1. \A n \in DOMAIN AccessStrings :
           AccessStrings[n] \in {<<>>, <<"snapRef", "modes">>, <<"name">>, <<"filePath">>}
    BY DEF AccessStrings
  <2> QED
    BY <1>o, <1>e, <2>1
<1>3. \A n \in DOMAIN DiskStrings : GoodStrings(DiskStrings[n])
  <2>1. \A n \in DOMAIN DiskStrings :
           DiskStrings[n] \in {<<>>, <<"file">>, <<"dst", "src", "cstr">>,
                               <<"pathName", "cstr">>, <<"child", "cstr">>}
    BY DEF DiskStrings
  <2>2. GoodStrings(<<"dst", "src", "cstr">>)
    BY <1>0, <1>o
  <2> QED
    BY <1>o, <1>e, <2>1, <2>2
<1>4. \A n \in DOMAIN FileStrings : GoodStrings(FileStrings[n])
  <2>1. \A n \in DOMAIN FileStrings :
           FileStrings[n] \in {<<>>, <<"filePath", "cstr">>, <<"src", "dst">>, <<"delete">>,
                               <<"cstr">>}
    BY DEF FileStrings
  <2> QED
    BY <1>o, <1>e, <2>1
<1>5. \A n \in DOMAIN MetadataStrings : GoodStrings(MetadataStrings[n])
  <2>1. \A n \in DOMAIN MetadataStrings :
           MetadataStrings[n] \in {<<>>, <<"wKey">>, <<"readKey">>}
    BY DEF MetadataStrings
  <2> QED
    BY <1>o, <1>e, <2>1
<1>6. \A n \in DOMAIN OtherStrings : GoodStrings(OtherStrings[n])
  <2>1. \A n \in DOMAIN OtherStrings : OtherStrings[n] \in {<<>>}
    BY DEF OtherStrings
  <2> QED
    BY <1>e, <2>1
<1>n. ASSUME NEW n \in Names PROVE GoodStrings(Strings[n])
  <2>1. \/ n \in DOMAIN InitStrings /\ Strings[n] = InitStrings[n]
        \/ n \in DOMAIN AccessStrings /\ Strings[n] = AccessStrings[n]
        \/ n \in DOMAIN DiskStrings /\ Strings[n] = DiskStrings[n]
        \/ n \in DOMAIN FileStrings /\ Strings[n] = FileStrings[n]
        \/ n \in DOMAIN MetadataStrings /\ Strings[n] = MetadataStrings[n]
        \/ n \in DOMAIN OtherStrings /\ Strings[n] = OtherStrings[n]
    BY DEF Names, Strings
  <2> QED
    BY <1>1, <1>2, <1>3, <1>4, <1>5, <1>6, <2>1
<1> QED
  BY <1>n

(* The strings that the deferred calls in d free.                             *)
Freed(d) == UNION {d[i] : i \in 1 .. Len(d)}

(* Deferred calls of which no two free the same string.                       *)
Disjoint(d) ==
    /\ d \in Seq(SUBSET Memory)
    /\ \A i, j \in 1 .. Len(d) : i # j => d[i] \cap d[j] = {}

(* Deferred calls free the strings of their binding, each once.               *)
LEMMA EachOnce ==
    ASSUME NEW s, GoodStrings(s)
    PROVE  /\ Disjoint(FreeEach(s)) /\ Freed(FreeEach(s)) = ToSet(s)
           /\ ToSet(s) \cap ParamStrings = {}
<1>1. /\ Len(s) \in Nat /\ DOMAIN s = 1 .. Len(s)
      /\ \A i \in 1 .. Len(s) : s[i] \in Own
  BY DEF GoodStrings
<1>2. /\ FreeEach(s) \in Seq(SUBSET Memory) /\ Len(FreeEach(s)) = Len(s)
      /\ \A i \in 1 .. Len(s) : FreeEach(s)[i] = {s[i]}
  BY <1>1 DEF FreeEach, Memory
<1>3. Disjoint(FreeEach(s))
  BY <1>1, <1>2 DEF Disjoint, GoodStrings
<1>4. Freed(FreeEach(s)) = ToSet(s)
  BY <1>1, <1>2 DEF Freed, ToSet
<1>5. ToSet(s) \cap ParamStrings = {}
  BY <1>1, Apart DEF ToSet
<1> QED
  BY <1>3, <1>4, <1>5

(* The elements of two sequences, one after the other.                        *)
LEMMA BothLists ==
    ASSUME NEW T, NEW s \in Seq(T), NEW u \in Seq(T)
    PROVE  /\ s \o u \in Seq(T) /\ Len(s \o u) = Len(s) + Len(u)
           /\ \A i \in 1 .. Len(s) + Len(u) :
                 (s \o u)[i] = IF i <= Len(s) THEN s[i] ELSE u[i - Len(s)]
<1>1. Len(s) \in Nat /\ Len(u) \in Nat
  OBVIOUS
<1> QED
  BY <1>1

(* One more element, before or after the others.                              *)
LEMMA Joined ==
    ASSUME NEW T, NEW x \in T, NEW d \in Seq(T), NEW n, n = Len(d)
    PROVE  /\ n \in Nat
           /\ <<x>> \o d \in Seq(T) /\ Len(<<x>> \o d) = n + 1 /\ (<<x>> \o d)[1] = x
           /\ \A i \in 1 .. n : (<<x>> \o d)[i + 1] = d[i]
           /\ d \o <<x>> \in Seq(T) /\ Len(d \o <<x>>) = n + 1 /\ (d \o <<x>>)[n + 1] = x
           /\ \A i \in 1 .. n : (d \o <<x>>)[i] = d[i]
<1> DEFINE t == <<x>>
<1>1. Len(t) = 1 /\ t[1] = x /\ n \in Nat
  OBVIOUS
<1>t. t \in Seq(T)
  OBVIOUS
<1> HIDE DEF t
<1>2. /\ t \o d \in Seq(T) /\ Len(t \o d) = 1 + n
      /\ \A i \in 1 .. 1 + n : (t \o d)[i] = IF i <= 1 THEN t[i] ELSE d[i - 1]
  <2>1. /\ t \o d \in Seq(T) /\ Len(t \o d) = Len(t) + Len(d)
        /\ \A i \in 1 .. Len(t) + Len(d) :
              (t \o d)[i] = IF i <= Len(t) THEN t[i] ELSE d[i - Len(t)]
    BY <1>t, BothLists
  <2> QED
    BY <1>1, <2>1
<1>3. /\ d \o t \in Seq(T) /\ Len(d \o t) = n + 1
      /\ \A i \in 1 .. n + 1 : (d \o t)[i] = IF i <= n THEN d[i] ELSE t[i - n]
  <2>1. /\ d \o t \in Seq(T) /\ Len(d \o t) = Len(d) + Len(t)
        /\ \A i \in 1 .. Len(d) + Len(t) :
              (d \o t)[i] = IF i <= Len(d) THEN d[i] ELSE t[i - Len(d)]
    BY <1>t, BothLists
  <2> QED
    BY <1>1, <2>1
<1>4. \A i \in 1 .. n : i + 1 \in 1 .. 1 + n /\ ~(i + 1 <= 1) /\ i + 1 - 1 = i
  BY <1>1
<1>5. 1 \in 1 .. 1 + n /\ n + 1 \in 1 .. n + 1 /\ ~(n + 1 <= n) /\ n + 1 - n = 1
  BY <1>1
<1>6. \A i \in 1 .. n : i \in 1 .. n + 1 /\ i <= n
  BY <1>1
<1> QED
  BY <1>1, <1>t, <1>2, <1>3, <1>4, <1>5, <1>6 DEF t

(* The last element is taken off.                                             *)
LEMMA WithoutLast ==
    ASSUME NEW T, NEW d \in Seq(T), d # <<>>, NEW n, n = Len(d)
    PROVE  /\ n \in Nat \ {0} /\ Last(d) = d[n]
           /\ Front(d) \in Seq(T) /\ Len(Front(d)) = n - 1
           /\ \A i \in 1 .. n - 1 : Front(d)[i] = d[i]
BY DEF Last, Front

(* One more deferred call, before or after the others.                        *)
LEMMA OneMore ==
    ASSUME NEW d, Disjoint(d), NEW S \in SUBSET Memory, Freed(d) \cap S = {}
    PROVE  /\ Disjoint(<<S>> \o d) /\ Freed(<<S>> \o d) = Freed(d) \cup S
           /\ Disjoint(d \o <<S>>) /\ Freed(d \o <<S>>) = Freed(d) \cup S
<1> DEFINE n == Len(d)
<1>1. n \in Nat /\ d \in Seq(SUBSET Memory)
  BY DEF Disjoint
<1>2. /\ <<S>> \o d \in Seq(SUBSET Memory) /\ Len(<<S>> \o d) = n + 1 /\ (<<S>> \o d)[1] = S
      /\ \A i \in 1 .. n : (<<S>> \o d)[i + 1] = d[i]
      /\ d \o <<S>> \in Seq(SUBSET Memory) /\ Len(d \o <<S>>) = n + 1 /\ (d \o <<S>>)[n + 1] = S
      /\ \A i \in 1 .. n : (d \o <<S>>)[i] = d[i]
  BY <1>1, Joined
<1>4. \A i \in 1 .. n : d[i] \cap S = {} /\ \A j \in 1 .. n : i # j => d[i] \cap d[j] = {}
  BY <1>1 DEF Disjoint, Freed
<1> DEFINE e == <<S>> \o d
           f == d \o <<S>>
<1>5. Disjoint(e) /\ Freed(e) = Freed(d) \cup S
  <2>1. e \in Seq(SUBSET Memory) /\ Len(e) = n + 1 /\ e[1] = S /\ \A i \in 1 .. n : e[i + 1] = d[i]
    BY <1>2
  <2> HIDE DEF e
  <2>2. \A i \in 1 .. n + 1 : i = 1 \/ (i - 1 \in 1 .. n /\ e[i] = d[i - 1])
    BY <1>1, <2>1
  <2>3. ASSUME NEW i \in 1 .. n + 1, NEW j \in 1 .. n + 1, i # j PROVE e[i] \cap e[j] = {}
    <3>1. i # 1 /\ j # 1 => i - 1 # j - 1
      BY <1>1, <2>3
    <3> QED
      BY <1>1, <1>4, <2>1, <2>2, <2>3, <3>1
  <2>4. Freed(e) = Freed(d) \cup S
    <3>1. ASSUME NEW x \in Freed(e) PROVE x \in Freed(d) \cup S
      <4>1. PICK i \in 1 .. n + 1 : x \in e[i]
        BY <2>1, <3>1 DEF Freed
      <4>2. CASE i = 1
        BY <2>1, <4>1, <4>2
      <4>3. CASE i # 1
        <5>1. i - 1 \in 1 .. n /\ x \in d[i - 1]
          BY <2>2, <4>1, <4>3
        <5> QED
          BY <5>1 DEF Freed
      <4> QED
        BY <4>2, <4>3
    <3>2. ASSUME NEW x \in Freed(d) PROVE x \in Freed(e)
      <4>1. PICK i \in 1 .. n : x \in d[i]
        BY DEF Freed
      <4>2. i + 1 \in 1 .. n + 1 /\ x \in e[i + 1]
        BY <1>1, <2>1, <4>1
      <4> QED
        BY <2>1, <4>2 DEF Freed
    <3>3. ASSUME NEW x \in S PROVE x \in Freed(e)
      <4>1. 1 \in 1 .. n + 1 /\ x \in e[1]
        BY <1>1, <2>1
      <4> QED
        BY <2>1, <4>1 DEF Freed
    <3> QED
      BY <3>1, <3>2, <3>3
  <2> QED
    BY <2>1, <2>3, <2>4 DEF Disjoint
<1>6. Disjoint(f) /\ Freed(f) = Freed(d) \cup S
  <2>1. f \in Seq(SUBSET Memory) /\ Len(f) = n + 1 /\ f[n + 1] = S /\ \A i \in 1 .. n : f[i] = d[i]
    BY <1>2
  <2> HIDE DEF f
  <2>2. \A i \in 1 .. n + 1 : i = n + 1 \/ (i \in 1 .. n /\ f[i] = d[i])
    BY <1>1, <2>1
  <2>3. \A i, j \in 1 .. n + 1 : i # j => f[i] \cap f[j] = {}
    BY <1>1, <1>4, <2>1, <2>2
  <2>4. Freed(f) = Freed(d) \cup S
    <3>1. \A i \in 1 .. n : i \in 1 .. n + 1
      BY <1>1
    <3> QED
      BY <1>1, <2>1, <2>2, <3>1 DEF Freed
  <2> QED
    BY <2>1, <2>3, <2>4 DEF Disjoint
<1> QED
  BY <1>5, <1>6

(* What a binding makes is freed by freeParams or by one deferred call, but   *)
(* for the structure, and VDDK reads nothing else.                            *)
LEMMA CallFacts ==
    ASSUME NEW c \in AllCalls
    PROVE  /\ c.name \in Names /\ c.name # "none" /\ c.set \subseteq ParamStrings
           /\ Reads(c) \subseteq Made(c)
           /\ Disjoint(Deferred(c)) /\ Freed(Deferred(c)) \cap Inline(c) = {}
           /\ Made(c) \ {"cnxParams"} = Freed(Deferred(c)) \cup Inline(c)
           /\ Answer(c) \in {{}, {"info"}, {"blockList"}}
           /\ Answer(c) \cap Made(c) = {} /\ "cnxParams" \notin Answer(c)
           /\ Answer(c) # {} => Inline(c) = {}
           /\ c.name = "QueryAllocatedBlocks" => Answer(c) = {"blockList"}
<1> DEFINE s == Strings[c.name]
<1>1. c.name \in Names /\ c.name # "none" /\ c.set \subseteq ParamStrings
  BY BindingNames DEF AllCalls, Calls, Connecting, Names
<1>2. Reads(c) \subseteq Made(c)
  <2>1. Fields(c.set) \subseteq ParamStrings
    BY <1>1 DEF Fields, ParamStrings
  <2> QED
    BY <2>1 DEF Reads, Made
<1>3. GoodStrings(s) /\ Disjoint(FreeEach(s)) /\ Freed(FreeEach(s)) = ToSet(s)
      /\ ToSet(s) \cap ParamStrings = {}
  BY <1>1, StringsApart, EachOnce
<1>4. ToSet(s) \cap Foreign = {}
  <2>1. Len(s) \in Nat /\ DOMAIN s = 1 .. Len(s) /\ \A i \in 1 .. Len(s) : s[i] \in Own
    BY <1>3 DEF GoodStrings
  <2> QED
    BY <2>1, Apart DEF ToSet
<1>5. ParamStrings \in SUBSET Memory /\ ParamStrings \cap Foreign = {}
  BY Apart DEF Memory
<1>c. "cnxParams" \in Foreign /\ "info" \in Foreign /\ "blockList" \in Foreign
  BY DEF Foreign
<1> HIDE DEF s
<1>6. /\ Disjoint(Deferred(c))
      /\ Freed(Deferred(c)) \cap Inline(c) = {}
      /\ Made(c) \ {"cnxParams"} = Freed(Deferred(c)) \cup Inline(c)
  <2>0. /\ c.name \in Connecting => Made(c) = ToSet(s) \cup ParamStrings \cup {"cnxParams"}
        /\ c.name \notin Connecting => Made(c) = ToSet(s)
        /\ "cnxParams" \notin ToSet(s) /\ "cnxParams" \notin ParamStrings
    <3>1. Made(c) = ToSet(s) \cup IF c.name \in Connecting THEN ParamStrings \cup {"cnxParams"}
                                                          ELSE {}
      BY DEF Made, s
    <3> QED
      BY <1>4, <1>5, <1>c, <3>1
  <2>1. CASE c.name \in {"Connect", "ConnectEx", "Cleanup", "PrepareForAccess"}
    <3>1. \/ Deferred(c) = <<ParamStrings>> \o FreeEach(s)
          \/ Deferred(c) = FreeEach(s) \o <<ParamStrings>>
      BY <2>1 DEF Deferred, s
    <3>a. Freed(FreeEach(s)) \cap ParamStrings = {}
      BY <1>3
    <3>2. Disjoint(Deferred(c)) /\ Freed(Deferred(c)) = ToSet(s) \cup ParamStrings
      <4> DEFINE d == FreeEach(s)
      <4> HIDE DEF d
      <4>1. Disjoint(d) /\ Freed(d) \cap ParamStrings = {} /\ Freed(d) = ToSet(s)
        BY <1>3, <3>a DEF d
      <4>2. /\ Disjoint(<<ParamStrings>> \o d)
            /\ Freed(<<ParamStrings>> \o d) = Freed(d) \cup ParamStrings
            /\ Disjoint(d \o <<ParamStrings>>)
            /\ Freed(d \o <<ParamStrings>>) = Freed(d) \cup ParamStrings
        BY <1>5, <4>1, OneMore
      <4> QED
        BY <3>1, <4>1, <4>2 DEF d
    <3>3. c.name \in Connecting /\ Inline(c) = {}
      BY <2>1 DEF Connecting, Inline
    <3> QED
      BY <2>0, <3>2, <3>3
  <2>2. CASE c.name = "EndAccess"
    <3>1. Deferred(c) = FreeEach(s) /\ Inline(c) = ParamStrings /\ c.name \in Connecting
      BY <2>2 DEF Deferred, Inline, Connecting, s
    <3> QED
      BY <1>3, <2>0, <3>1
  <2>3. CASE c.name \notin Connecting
    <3>1. Deferred(c) = FreeEach(s) /\ Inline(c) = {}
      BY <2>3 DEF Deferred, Inline, Connecting, s
    <3> QED
      BY <1>3, <2>0, <2>3, <3>1
  <2> QED
    BY <2>1, <2>2, <2>3 DEF Connecting
<1>7. /\ Answer(c) \in {{}, {"info"}, {"blockList"}}
      /\ Answer(c) \cap Made(c) = {} /\ "cnxParams" \notin Answer(c)
  <2>1. Answer(c) \in {{}, {"info"}, {"blockList"}}
    BY DEF Answer
  <2> QED
    BY <1>4, <1>5, <1>c, <2>1 DEF Made, s
<1>8. Answer(c) # {} => Inline(c) = {}
  BY DEF Answer, Inline
<1>9. c.name = "QueryAllocatedBlocks" => Answer(c) = {"blockList"}
  BY DEF Answer
<1> QED
  BY <1>1, <1>2, <1>6, <1>7, <1>8, <1>9

-----------------------------------------------------------------------------
(* The memory of the bindings.                                                *)

(* What nobody has freed, or will.                                            *)
Kept == {"cnxParams"} \cup IF emptied THEN {"blockList"} ELSE {}

(* The strings that freeParams is still to free.                              *)
ToFree == IF stage \in {"in", "got", "free"} THEN Inline(call) ELSE {}

(* What is allocated: each string that is still to be freed, once, and what   *)
(* nobody frees; until VDDK has answered, all that the binding has made.      *)
MemInv ==
    /\ misuse = {} /\ emptied \in BOOLEAN
    /\ stage \in {"out", "in", "got", "free", "back"}
    /\ stage = "out" => call = NoCall /\ deferred = <<>> /\ live \subseteq Kept
    /\ stage # "out" => call \in AllCalls
    /\ Disjoint(deferred) /\ Freed(deferred) \subseteq live
    /\ stage = "in" => Made(call) \subseteq live
    /\ stage # "out" => /\ ToFree \subseteq live /\ ToFree \cap Freed(deferred) = {}
                        /\ Answer(call) \cap (ToFree \cup Freed(deferred)) = {}
    /\ stage \in {"in", "free", "back"} => live \subseteq Kept \cup ToFree \cup Freed(deferred)
    /\ stage = "got" =>
          /\ Answer(call) # {} /\ Answer(call) \subseteq live
          /\ live \subseteq Kept \cup ToFree \cup Freed(deferred) \cup Answer(call)

(* To the bindings, all that SaveMetaData and other callers do is this.       *)
MemNext ==
    \/ \E c \in AllCalls : Enter(c)
    \/ \E ok \in BOOLEAN : Library(ok)
    \/ Panic \/ CopyAndFree \/ EmptyList \/ FreeParams \/ RunDeferred \/ Leave

(* A step of SaveMetaData, or of its caller, calls one binding or none.       *)
LEMMA MetaStepIsMemStep == [MetaNext]_metaVars => [MemNext]_memoryVars
<1> SUFFICES ASSUME [MetaNext]_metaVars PROVE [MemNext]_memoryVars
  OBVIOUS
<1>1. CASE UNCHANGED metaVars
  BY <1>1 DEF metaVars
<1>2. CASE CallBinding
  <2>1. [name |-> Binding[at], set |-> {}] \in AllCalls
    BY <1>2 DEF CallBinding, Binding, AllCalls, MetadataStrings
  <2> QED
    BY <1>2, <2>1 DEF CallBinding, MemNext
<1>3. CASE OtherBinding
  BY <1>3 DEF OtherBinding, MemNext, AllCalls
<1>4. CASE BindingFails \/ KeysLen \/ ValueLen \/ TooSmall \/ Keys \/ ReadValue \/ WriteValue
  <2>1. \E ok \in BOOLEAN : Library(ok)
    BY <1>4 DEF BindingFails, KeysLen, ValueLen, LengthQuery, TooSmall, Keys, ReadValue,
                WriteValue
  <2> QED
    BY <2>1 DEF MemNext
<1>5. CASE EmptyBuffer \/ MemoryStep
  BY <1>5 DEF EmptyBuffer, MemoryStep, MemNext
<1>6. CASE Save \/ NextKey \/ Change
  BY <1>6 DEF Save, NextKey, Change, memoryVars
<1> QED
  BY <1>1, <1>2, <1>3, <1>4, <1>5, <1>6 DEF MetaNext, Steps

(* A deferred call is taken off, and no other frees a string of its.          *)
LEMMA TakeLast ==
    ASSUME NEW d, Disjoint(d), d # <<>>
    PROVE  /\ Disjoint(Front(d)) /\ Last(d) \subseteq Freed(d)
           /\ Freed(Front(d)) = Freed(d) \ Last(d)
<1> DEFINE n == Len(d)
           e == Front(d)
<1>1. d \in Seq(SUBSET Memory)
  BY DEF Disjoint
<1>2. /\ n \in Nat \ {0} /\ Last(d) = d[n]
      /\ e \in Seq(SUBSET Memory) /\ Len(e) = n - 1 /\ \A i \in 1 .. n - 1 : e[i] = d[i]
  BY <1>1, WithoutLast
<1>3. \A i, j \in 1 .. n : i # j => d[i] \cap d[j] = {}
  BY DEF Disjoint
<1> HIDE DEF e
<1>4. Disjoint(e)
  BY <1>2, <1>3 DEF Disjoint
<1>5. Last(d) \subseteq Freed(d)
  BY <1>2 DEF Freed
<1>6. Freed(e) = Freed(d) \ Last(d)
  <2>1. ASSUME NEW x \in Freed(e) PROVE x \in Freed(d) \ Last(d)
    <3>1. PICK i \in 1 .. n - 1 : x \in d[i]
      BY <1>2, <2>1 DEF Freed
    <3>2. i \in 1 .. n /\ n \in 1 .. n /\ i # n
      BY <1>2
    <3>3. x \notin d[n]
      BY <1>3, <3>1, <3>2
    <3> QED
      BY <1>2, <3>1, <3>2, <3>3 DEF Freed
  <2>2. ASSUME NEW x \in Freed(d) \ Last(d) PROVE x \in Freed(e)
    <3>1. PICK i \in 1 .. n : x \in d[i]
      BY <2>2 DEF Freed
    <3>2. i # n
      BY <1>2, <2>2, <3>1
    <3>3. i \in 1 .. n - 1
      BY <1>2, <3>2
    <3> QED
      BY <1>2, <3>1, <3>3 DEF Freed
  <2> QED
    BY <2>1, <2>2
<1> QED
  BY <1>4, <1>5, <1>6 DEF e

(* Nothing is deferred by an empty list.                                      *)
LEMMA NoneDeferred == Disjoint(<<>>) /\ Freed(<<>>) = {}
BY DEF Disjoint, Freed

(* Each step of a binding keeps the memory accounted for.                     *)
LEMMA MemInvNext == MemInv /\ [MemNext]_memoryVars => MemInv'
<1> SUFFICES ASSUME MemInv, [MemNext]_memoryVars PROVE MemInv'
  OBVIOUS
<1>0. stage # "out" => call \in AllCalls
  BY DEF MemInv
<1> USE DEF Kept, ToFree
<1>1. CASE UNCHANGED memoryVars
  BY <1>1 DEF memoryVars, MemInv
<1>2. ASSUME NEW c \in AllCalls, Enter(c) PROVE MemInv'
  <2>1. /\ stage = "out" /\ live \subseteq Kept /\ misuse = {} /\ emptied \in BOOLEAN
        /\ stage' = "in" /\ call' = c /\ deferred' = Deferred(c) /\ live' = live \cup Made(c)
        /\ UNCHANGED <<misuse, emptied>>
    BY <1>2 DEF Enter, MemInv
  <2>2. /\ Disjoint(Deferred(c)) /\ Freed(Deferred(c)) \cap Inline(c) = {}
        /\ Made(c) \ {"cnxParams"} = Freed(Deferred(c)) \cup Inline(c)
        /\ Answer(c) \cap Made(c) = {}
    BY CallFacts
  <2> QED
    BY <2>1, <2>2 DEF MemInv
<1>3. ASSUME NEW ok \in BOOLEAN, Library(ok) PROVE MemInv'
  <2>1. call \in AllCalls /\ Reads(call) \subseteq live
    BY <1>0, <1>3, CallFacts DEF Library, MemInv
  <2>2. misuse' = {} /\ call' = call /\ deferred' = deferred /\ emptied' = emptied
    BY <1>3, <2>1 DEF Library, MemInv
  <2>3. CASE ok /\ Answer(call) # {}
    <3>1. stage = "in" /\ stage' = "got" /\ live' = live \cup Answer(call)
      BY <1>3, <2>1, <2>3, CallFacts DEF Library
    <3> QED
      BY <2>1, <2>2, <2>3, <3>1 DEF MemInv
  <2>4. CASE ~(ok /\ Answer(call) # {})
    <3>1. stage = "in" /\ live' = live
          /\ stage' = IF Inline(call) # {} THEN "free" ELSE "back"
      BY <1>3, <2>4 DEF Library
    <3> QED
      BY <2>1, <2>2, <3>1 DEF MemInv
  <2> QED
    BY <2>3, <2>4
<1>4. CASE Panic
  <2>1. Inline(call) = {}
    BY <1>4 DEF Panic, Inline
  <2> QED
    BY <1>4, <2>1 DEF Panic, MemInv
<1>5. CASE CopyAndFree \/ EmptyList   \* bindings with an answer have no freeParams
  <2>1. /\ call \in AllCalls /\ stage = "got" /\ Answer(call) # {}
        /\ Answer(call) \subseteq live
    BY <1>0, <1>5 DEF CopyAndFree, EmptyList, MemInv
  <2>2. Inline(call) = {} /\ (call.name = "QueryAllocatedBlocks" => Answer(call) = {"blockList"})
    BY <2>1, CallFacts
  <2>3. CASE CopyAndFree
    <3>1. /\ stage' = "back" /\ live' = live \ Answer(call) /\ misuse' = {}
          /\ UNCHANGED <<call, deferred, emptied>>
      BY <2>1, <2>3 DEF CopyAndFree, MemInv
    <3> QED
      BY <2>1, <2>2, <3>1 DEF MemInv
  <2>4. CASE EmptyList
    <3>1. /\ stage' = "back" /\ emptied' = TRUE /\ Answer(call) = {"blockList"}
          /\ UNCHANGED <<call, live, deferred, misuse>>
      BY <2>2, <2>4 DEF EmptyList
    <3> QED
      BY <2>1, <2>2, <3>1 DEF MemInv
  <2> QED
    BY <1>5, <2>3, <2>4
<1>6. CASE FreeParams
  BY <1>0, <1>6 DEF FreeParams, Free, MemInv
<1>7. CASE RunDeferred
  <2>1. /\ Disjoint(Front(deferred)) /\ Last(deferred) \subseteq Freed(deferred)
        /\ Freed(Front(deferred)) = Freed(deferred) \ Last(deferred)
    BY <1>7, TakeLast DEF RunDeferred, MemInv
  <2>2. /\ stage = "back" /\ stage' = "back" /\ deferred' = Front(deferred)
        /\ live' = live \ Last(deferred) /\ misuse' = misuse \cup (Last(deferred) \ live)
        /\ UNCHANGED <<call, emptied>>
    BY <1>7 DEF RunDeferred, Free
  <2> QED
    BY <2>1, <2>2 DEF MemInv
<1>8. CASE Leave   \* everything that was made is freed, but for cnxParams
  BY <1>8, NoneDeferred DEF Leave, MemInv
<1> QED
  BY <1>1, <1>2, <1>3, <1>4, <1>5, <1>6, <1>7, <1>8 DEF MemNext

(* The memory is always accounted for.                                        *)
LEMMA AlwaysMemInv == MetaSpec => []MemInv
<1>1. MetaInit => MemInv
  BY NoneDeferred DEF MetaInit, MemoryInit, MemInv, Kept
<1> QED
  BY <1>1, MetaStepIsMemStep, MemInvNext, PTL DEF MetaSpec

(* No string that was freed is read or freed again, by freeParams or by a     *)
(* deferred call: of the frees still to come no two are of the same string.   *)
THEOREM MemoryUsedRight == MetaSpec => []NoMisuse
<1>1. MemInv => NoMisuse
  BY DEF MemInv, NoMisuse
<1> QED
  BY <1>1, AlwaysMemInv, PTL

(* Between calls nothing is left but the structure of                         *)
(* VixDiskLib_AllocateConnectParams and an empty block list.                  *)
THEOREM MemoryReturned == MetaSpec => []NothingKept
<1>1. MemInv => NothingKept
  BY DEF MemInv, Kept, NothingKept
<1> QED
  BY <1>1, AlwaysMemInv, PTL

-----------------------------------------------------------------------------
(* Lists of keys.                                                             *)

Occurs(x, s) == \E i \in DOMAIN s : s[i] = x

(* A list of a finite set has each of its elements and no other.              *)
LEMMA ListOfSet ==
    ASSUME NEW S, IsFiniteSet(S), NEW list \in SetToSeqs(S)
    PROVE  /\ list \in Seq(S) /\ Len(list) = Cardinality(S)
           /\ \A x \in S : Occurs(x, list)
<1> DEFINE D == 1 .. Cardinality(S)
<1>1. Cardinality(S) \in Nat
  BY FS_CardinalityType
<1>2. list \in [D -> S] /\ \A i, j \in D : i # j => list[i] # list[j]
  BY DEF SetToSeqs
<1>3. IsFiniteSet(D) /\ Cardinality(D) = Cardinality(S)
  BY <1>1, FS_Interval
<1>4. list \in Injection(D, S)
  BY <1>2 DEF Injection, IsInjective
<1>5. list \in Surjection(D, S)
  BY <1>3, <1>4, FS_Injection
<1>6. \A x \in S : \E i \in D : list[i] = x
  BY <1>5 DEF Surjection
<1>7. list \in Seq(S) /\ Len(list) = Cardinality(S)
  BY <1>1, <1>2
<1> QED
  BY <1>2, <1>6, <1>7 DEF Occurs

(* After the keys the buffer has only empty strings.                          *)
LEMMA ListInBuffer ==
    ASSUME NEW S \in SUBSET Key, NEW list \in Seq(S), bufLen \in Nat, Len(list) <= bufLen
    PROVE  /\ NullTermToStrings(list) \in Seq(Key \cup {EmptyKey})
           /\ \A x \in Key : Occurs(x, NullTermToStrings(list)) <=> Occurs(x, list)
<1> DEFINE rest == [i \in 1 .. bufLen - Len(list) |-> EmptyKey]
<1>1. list \in Seq(Key \cup {EmptyKey}) /\ Len(list) \in Nat
  OBVIOUS
<1>2. rest \in Seq(Key \cup {EmptyKey}) /\ Len(rest) = bufLen - Len(list)
  BY <1>1
<1>3. \A i \in 1 .. Len(rest) : rest[i] = EmptyKey
  BY <1>2
<1> HIDE DEF rest
<1>4. /\ list \o rest \in Seq(Key \cup {EmptyKey})
      /\ DOMAIN list = 1 .. Len(list) /\ DOMAIN (list \o rest) = 1 .. Len(list) + Len(rest)
      /\ \A i \in 1 .. Len(list) + Len(rest) :
            (list \o rest)[i] = IF i <= Len(list) THEN list[i] ELSE rest[i - Len(list)]
  BY <1>1, <1>2
<1>5. \A x \in Key : Occurs(x, list \o rest) <=> Occurs(x, list)
  <2> DEFINE all == list \o rest
             n == Len(list)
             m == Len(rest)
  <2>1. /\ n \in Nat /\ m \in Nat /\ DOMAIN list = 1 .. n /\ DOMAIN all = 1 .. n + m
        /\ \A i \in 1 .. n + m : all[i] = IF i <= n THEN list[i] ELSE rest[i - n]
        /\ \A i \in 1 .. m : rest[i] = EmptyKey
    BY <1>1, <1>2, <1>3, <1>4
  <2> HIDE DEF all, n, m
  <2> SUFFICES ASSUME NEW x \in Key PROVE Occurs(x, all) <=> Occurs(x, list)
    BY DEF all
  <2>2. \A i \in 1 .. n : i \in 1 .. n + m /\ all[i] = list[i]
    BY <2>1
  <2>3. \A i \in 1 .. n + m : i > n => all[i] = EmptyKey
    BY <2>1
  <2> QED
    BY <2>1, <2>2, <2>3 DEF Occurs
<1> QED
  BY <1>4, <1>5 DEF NullTermToStrings, rest

(* What a list has is its head, or in its tail.                               *)
LEMMA HeadAndTail ==
    ASSUME NEW S, NEW s \in Seq(S), s # <<>>
    PROVE  /\ Head(s) \in S /\ Tail(s) \in Seq(S)
           /\ \A x : Occurs(x, s) <=> x = Head(s) \/ Occurs(x, Tail(s))
<1>1. /\ Len(s) \in Nat \ {0} /\ DOMAIN s = 1 .. Len(s) /\ Head(s) = s[1] /\ Head(s) \in S
      /\ Tail(s) \in Seq(S) /\ DOMAIN Tail(s) = 1 .. Len(s) - 1
      /\ \A i \in 1 .. Len(s) - 1 : Tail(s)[i] = s[i + 1]
  OBVIOUS
<1>2. ASSUME NEW x, Occurs(x, s) PROVE x = Head(s) \/ Occurs(x, Tail(s))
  <2>1. PICK i \in 1 .. Len(s) : s[i] = x
    BY <1>1, <1>2 DEF Occurs
  <2>2. CASE i # 1
    <3>1. i - 1 \in 1 .. Len(s) - 1 /\ Tail(s)[i - 1] = x
      BY <1>1, <2>1, <2>2
    <3> QED
      BY <1>1, <3>1 DEF Occurs
  <2> QED
    BY <1>1, <2>1, <2>2
<1>3. ASSUME NEW x, x = Head(s) \/ Occurs(x, Tail(s)) PROVE Occurs(x, s)
  BY <1>1, <1>3 DEF Occurs
<1> QED
  BY <1>1, <1>2, <1>3

-----------------------------------------------------------------------------
(* SaveMetaData.                                                              *)

Running == at \in {"next"} \cup DOMAIN Binding
Fetched == at \in {"next", "valueLen", "value", "write"}
AtKey == at \in {"valueLen", "value", "write"}

(* A key still to come.                                                       *)
Ahead(k) == Occurs(k, keys)

(* A disk has finitely many keys, and in a call none disappears.              *)
SourceInv ==
    /\ IsFiniteSet({k \in Key : source[k] # NoValue})
    /\ Running => \A k \in Key : source[k] \in held[k]
    /\ Running => \A k \in Key : first[k] # NoValue => source[k] # NoValue
    /\ Fetched => \A k \in Key : Ahead(k) => source[k] # NoValue

(* Every length is known unless a query for it succeeded without telling, and *)
(* is right unless the source has changed since.                              *)
LengthInv ==
    /\ at \in {"keys"} \/ Fetched => "keysLen" \in cause \/ requireLen > 0
    /\ at \in {"keys", "value"} => bufLen = requireLen
    /\ at = "keys" /\ cause = {} => bufLen = KeyRoom
    /\ at = "value" /\ cause = {} => bufLen = Size[source[key]]

Has(k) == target[k] \in held[k] \ {NoValue}

(* Each key that the source had is saved, or still to come.                   *)
ProgressInv ==
    /\ at = "write" => buf \in held[key] \ {NoValue}
    /\ Fetched \/ at = "nil" =>
          \A k \in Key \ BlankKey :
             first[k] # NoValue => Has(k) \/ Ahead(k) \/ (AtKey /\ k = key)
    /\ at = "nil" => keys = <<>>

(* The inductive invariant.                                                   *)
MetaInv ==
    /\ MetaTypeOK /\ SourceInv /\ LengthInv /\ ProgressInv
    /\ OwnValuesOnly /\ FailureHasCause

(* The memory has the types of BindingMemory.                                 *)
LEMMA MemTypes == MemInv => MemoryTypeOK
<1> SUFFICES ASSUME MemInv PROVE MemoryTypeOK
  OBVIOUS
<1>1. deferred \in Seq(SUBSET live)
  <2>1. deferred \in Seq(SUBSET Memory) /\ Freed(deferred) \subseteq live
    BY DEF MemInv, Disjoint
  <2>2. \A i \in 1 .. Len(deferred) : deferred[i] \in SUBSET live
    BY <2>1 DEF Freed
  <2> QED
    BY <2>1, <2>2
<1>2. CASE stage = "out"
  BY <1>1, <1>2 DEF MemInv, MemoryTypeOK, NoCall, ParamStrings
<1>3. CASE stage # "out"
  BY <1>1, <1>3, CallFacts DEF MemInv, MemoryTypeOK, NoCall, Names
<1> QED
  BY <1>2, <1>3

(* The list of keys takes a byte or more.                                     *)
LEMMA RoomFacts ==
    ASSUME SourceInv
    PROVE  KeyRoom \in Nat \ {0}
BY FS_CardinalityType DEF SourceInv, KeyRoom

(* Steps inside a binding change nothing of SaveMetaData.                     *)
LEMMA FrameKeeps ==
    ASSUME MetaInv, MemoryTypeOK',
           UNCHANGED <<source, target, at, localVars, callVars, changes, held, cause>>
    PROVE  MetaInv'
BY DEF MetaInv, MetaTypeOK, SourceInv, LengthInv, ProgressInv, OwnValuesOnly, FailureHasCause,
       localVars, callVars, Running, Fetched, AtKey, Ahead, Has, KeyRoom

(* SaveMetaData is called.                                                    *)
LEMMA SaveKeeps ==
    ASSUME MetaInv, MemoryTypeOK', Save
    PROVE  MetaInv'
<1>0. /\ MetaTypeOK /\ SourceInv /\ LengthInv /\ ProgressInv
      /\ OwnValuesOnly /\ FailureHasCause
  BY DEF MetaInv
<1> USE DEF Save, localVars, callVars, Outcome, Running, Fetched, Binding,
           AtKey, Ahead
<1>1. MetaTypeOK'
  BY <1>0, RoomFacts DEF MetaTypeOK, SourceInv
<1>2. SourceInv'
  BY <1>0, RoomFacts DEF SourceInv, MetaTypeOK
<1>3. LengthInv'
  BY <1>0, RoomFacts DEF LengthInv, MetaTypeOK, SourceInv, Fetched, KeyRoom
<1>4. ProgressInv'
  BY <1>0, RoomFacts DEF ProgressInv, MetaTypeOK, SourceInv, Has, Occurs
<1>5. OwnValuesOnly'
  BY <1>0, RoomFacts DEF OwnValuesOnly, MetaTypeOK, ProgressInv
<1>6. FailureHasCause'
  BY <1>0, RoomFacts DEF FailureHasCause, MetaTypeOK, LengthInv, SourceInv
<1> QED
  BY <1>1, <1>2, <1>3, <1>4, <1>5, <1>6 DEF MetaInv

(* A binding fails.                                                           *)
LEMMA BindingFailsKeeps ==
    ASSUME MetaInv, MemoryTypeOK', BindingFails
    PROVE  MetaInv'
<1>0. /\ MetaTypeOK /\ SourceInv /\ LengthInv /\ ProgressInv
      /\ OwnValuesOnly /\ FailureHasCause
  BY DEF MetaInv
<1> USE DEF BindingFails, localVars, callVars, Outcome, Running, Fetched, Binding,
           AtKey, Ahead
<1>1. MetaTypeOK'
  BY <1>0, RoomFacts DEF MetaTypeOK, SourceInv
<1>2. SourceInv'
  BY <1>0, RoomFacts DEF SourceInv, MetaTypeOK
<1>3. LengthInv'
  BY <1>0, RoomFacts DEF LengthInv, MetaTypeOK, SourceInv, Fetched, KeyRoom
<1>4. ProgressInv'
  BY <1>0, RoomFacts DEF ProgressInv, MetaTypeOK, SourceInv, Has, Occurs
<1>5. OwnValuesOnly'
  BY <1>0, RoomFacts DEF OwnValuesOnly, MetaTypeOK, ProgressInv
<1>6. FailureHasCause'
  BY <1>0, RoomFacts DEF FailureHasCause, MetaTypeOK, LengthInv, SourceInv
<1> QED
  BY <1>1, <1>2, <1>3, <1>4, <1>5, <1>6 DEF MetaInv

(* The length of the list of keys is asked for.                               *)
LEMMA KeysLenKeeps ==
    ASSUME MetaInv, MemoryTypeOK', KeysLen
    PROVE  MetaInv'
<1>0. /\ MetaTypeOK /\ SourceInv /\ LengthInv /\ ProgressInv
      /\ OwnValuesOnly /\ FailureHasCause
  BY DEF MetaInv
<1> USE DEF KeysLen, LengthQuery, Need, localVars, callVars, Outcome, Running, Fetched, Binding,
           AtKey, Ahead
<1>1. MetaTypeOK'
  BY <1>0, RoomFacts DEF MetaTypeOK, SourceInv
<1>2. SourceInv'
  BY <1>0, RoomFacts DEF SourceInv, MetaTypeOK
<1>3. LengthInv'
  <2>1. Need \in Nat \ {0} /\ (at = "keysLen" => Need = KeyRoom)
        /\ (at = "valueLen" => Need = Size[source[key]])
    BY <1>0, RoomFacts, MetaAssumption DEF MetaTypeOK
  <2>2. /\ requireLen' \in Nat /\ bufLen' = requireLen'
        /\ \/ requireLen' = Need /\ cause' = cause
           \/ requireLen' = requireLen /\ cause' = cause \cup {at}
    BY <1>0, <2>1 DEF MetaTypeOK
  <2>3. KeyRoom' = KeyRoom
    BY DEF KeyRoom
  <2>4. "keysLen" \in cause' \/ requireLen' > 0
    BY <1>0, <2>1, <2>2 DEF LengthInv, MetaTypeOK
  <2>5. cause' = {} => requireLen' = Need
    BY <2>2
  <2> HIDE DEF Need, LengthQuery
  <2>6. UNCHANGED <<source, key>> /\ at' = "keys"
    BY DEF LengthQuery
  <2> QED
    BY <2>1, <2>2, <2>3, <2>4, <2>5, <2>6 DEF LengthInv
<1>4. ProgressInv'
  BY <1>0, RoomFacts DEF ProgressInv, MetaTypeOK, SourceInv, Has, Occurs
<1>5. OwnValuesOnly'
  BY <1>0, RoomFacts DEF OwnValuesOnly, MetaTypeOK, ProgressInv
<1>6. FailureHasCause'
  BY <1>0, RoomFacts DEF FailureHasCause, MetaTypeOK, LengthInv, SourceInv
<1> QED
  BY <1>1, <1>2, <1>3, <1>4, <1>5, <1>6 DEF MetaInv

(* The length of a value is asked for.                                        *)
LEMMA ValueLenKeeps ==
    ASSUME MetaInv, MemoryTypeOK', ValueLen
    PROVE  MetaInv'
<1>0. /\ MetaTypeOK /\ SourceInv /\ LengthInv /\ ProgressInv
      /\ OwnValuesOnly /\ FailureHasCause
  BY DEF MetaInv
<1> USE DEF ValueLen, LengthQuery, Need, localVars, callVars, Outcome, Running, Fetched, Binding,
           AtKey, Ahead
<1>1. MetaTypeOK'
  BY <1>0, RoomFacts DEF MetaTypeOK, SourceInv
<1>2. SourceInv'
  BY <1>0, RoomFacts DEF SourceInv, MetaTypeOK
<1>3. LengthInv'
  <2>1. Need \in Nat \ {0} /\ (at = "keysLen" => Need = KeyRoom)
        /\ (at = "valueLen" => Need = Size[source[key]])
    BY <1>0, RoomFacts, MetaAssumption DEF MetaTypeOK
  <2>2. /\ requireLen' \in Nat /\ bufLen' = requireLen'
        /\ \/ requireLen' = Need /\ cause' = cause
           \/ requireLen' = requireLen /\ cause' = cause \cup {at}
    BY <1>0, <2>1 DEF MetaTypeOK
  <2>3. KeyRoom' = KeyRoom
    BY DEF KeyRoom
  <2>4. "keysLen" \in cause' \/ requireLen' > 0
    BY <1>0, <2>1, <2>2 DEF LengthInv, MetaTypeOK
  <2>5. cause' = {} => requireLen' = Need
    BY <2>2
  <2> HIDE DEF Need, LengthQuery
  <2>6. UNCHANGED <<source, key>> /\ at' = "value"
    BY DEF LengthQuery
  <2> QED
    BY <2>1, <2>2, <2>3, <2>4, <2>5, <2>6 DEF LengthInv
<1>4. ProgressInv'
  BY <1>0, RoomFacts DEF ProgressInv, MetaTypeOK, SourceInv, Has, Occurs
<1>5. OwnValuesOnly'
  BY <1>0, RoomFacts DEF OwnValuesOnly, MetaTypeOK, ProgressInv
<1>6. FailureHasCause'
  BY <1>0, RoomFacts DEF FailureHasCause, MetaTypeOK, LengthInv, SourceInv
<1> QED
  BY <1>1, <1>2, <1>3, <1>4, <1>5, <1>6 DEF MetaInv

(* A buffer of no length makes the call panic.                                *)
LEMMA EmptyBufferKeeps ==
    ASSUME MetaInv, MemoryTypeOK', EmptyBuffer
    PROVE  MetaInv'
<1>0. /\ MetaTypeOK /\ SourceInv /\ LengthInv /\ ProgressInv
      /\ OwnValuesOnly /\ FailureHasCause
  BY DEF MetaInv
<1> USE DEF EmptyBuffer, NoAddress, localVars, callVars, Outcome, Running, Fetched, Binding,
           AtKey, Ahead
<1>1. MetaTypeOK'
  BY <1>0, RoomFacts DEF MetaTypeOK, SourceInv
<1>2. SourceInv'
  BY <1>0, RoomFacts DEF SourceInv, MetaTypeOK
<1>3. LengthInv'
  BY <1>0, RoomFacts DEF LengthInv, MetaTypeOK, SourceInv, Fetched, KeyRoom
<1>4. ProgressInv'
  BY <1>0, RoomFacts DEF ProgressInv, MetaTypeOK, SourceInv, Has, Occurs
<1>5. OwnValuesOnly'
  BY <1>0, RoomFacts DEF OwnValuesOnly, MetaTypeOK, ProgressInv
<1>6. FailureHasCause'
  BY <1>0, RoomFacts DEF FailureHasCause, MetaTypeOK, LengthInv, SourceInv
<1> QED
  BY <1>1, <1>2, <1>3, <1>4, <1>5, <1>6 DEF MetaInv

(* A buffer too small makes it return an error.                               *)
LEMMA TooSmallKeeps ==
    ASSUME MetaInv, MemoryTypeOK', TooSmall
    PROVE  MetaInv'
<1>0. /\ MetaTypeOK /\ SourceInv /\ LengthInv /\ ProgressInv
      /\ OwnValuesOnly /\ FailureHasCause
  BY DEF MetaInv
<1> USE DEF TooSmall, Need, localVars, callVars, Outcome, Running, Fetched, Binding,
           AtKey, Ahead
<1>1. MetaTypeOK'
  BY <1>0, RoomFacts DEF MetaTypeOK, SourceInv
<1>2. SourceInv'
  BY <1>0, RoomFacts DEF SourceInv, MetaTypeOK
<1>3. LengthInv'
  BY <1>0, RoomFacts DEF LengthInv, MetaTypeOK, SourceInv, Fetched, KeyRoom
<1>4. ProgressInv'
  BY <1>0, RoomFacts DEF ProgressInv, MetaTypeOK, SourceInv, Has, Occurs
<1>5. OwnValuesOnly'
  BY <1>0, RoomFacts DEF OwnValuesOnly, MetaTypeOK, ProgressInv
<1>6. FailureHasCause'
  BY <1>0, RoomFacts DEF FailureHasCause, MetaTypeOK, LengthInv, SourceInv
<1> QED
  BY <1>1, <1>2, <1>3, <1>4, <1>5, <1>6 DEF MetaInv

(* The keys are listed.                                                       *)
LEMMA KeysKeeps ==
    ASSUME MetaInv, MemoryTypeOK', Keys
    PROVE  MetaInv'
<1>0. /\ MetaTypeOK /\ SourceInv /\ LengthInv /\ ProgressInv
      /\ OwnValuesOnly /\ FailureHasCause
  BY DEF MetaInv
<1> USE DEF Keys, localVars, callVars, Outcome, Running, Fetched, Binding,
           AtKey, Ahead
<1>h. /\ keys' \in Seq(Key \cup {EmptyKey})
      /\ \A x \in Key : Occurs(x, keys') <=> source[x] # NoValue
  <2> DEFINE S == {k \in Key : source[k] # NoValue}
  <2>1. PICK list \in SetToSeqs(S) : keys' = NullTermToStrings(list)
    OBVIOUS
  <2>2. IsFiniteSet(S) /\ S \in SUBSET Key /\ Cardinality(S) + 1 <= bufLen
    BY <1>0 DEF SourceInv, KeyRoom
  <2>3. bufLen \in Nat /\ Cardinality(S) \in Nat
    BY <1>0, <2>2, FS_CardinalityType DEF MetaTypeOK
  <2> HIDE DEF S
  <2>4. list \in Seq(S) /\ Len(list) = Cardinality(S) /\ \A x \in S : Occurs(x, list)
    BY <2>2, <2>3, ListOfSet
  <2>5. \A x \in Key : Occurs(x, list) <=> x \in S
    BY <2>4 DEF Occurs
  <2>6. Len(list) <= bufLen
    BY <2>2, <2>3, <2>4
  <2> QED
    BY <2>1, <2>2, <2>3, <2>4, <2>5, <2>6, ListInBuffer DEF S
<1>1. MetaTypeOK'
  BY <1>0, <1>h DEF MetaTypeOK
<1>2. SourceInv'
  BY <1>0, <1>h DEF MetaTypeOK, SourceInv
<1>3. LengthInv'
  BY <1>0, RoomFacts DEF LengthInv, MetaTypeOK, SourceInv, Fetched, KeyRoom
<1>4. ProgressInv'
  BY <1>0, <1>h DEF MetaTypeOK, ProgressInv, SourceInv, Has
<1>5. OwnValuesOnly'
  BY <1>0, RoomFacts DEF OwnValuesOnly, MetaTypeOK, ProgressInv
<1>6. FailureHasCause'
  BY <1>0, RoomFacts DEF FailureHasCause, MetaTypeOK, LengthInv, SourceInv
<1> QED
  BY <1>1, <1>2, <1>3, <1>4, <1>5, <1>6 DEF MetaInv

(* The loop comes to the next key, or ends.                                   *)
LEMMA NextKeyKeeps ==
    ASSUME MetaInv, MemoryTypeOK', NextKey
    PROVE  MetaInv'
<1>0. /\ MetaTypeOK /\ SourceInv /\ LengthInv /\ ProgressInv
      /\ OwnValuesOnly /\ FailureHasCause
  BY DEF MetaInv
<1> USE DEF NextKey, localVars, callVars, Outcome, Running, Fetched, Binding,
           AtKey, Ahead
<1>h. keys # <<>> =>
         /\ Head(keys) \in Key \cup {EmptyKey} /\ Tail(keys) \in Seq(Key \cup {EmptyKey})
         /\ \A x : Occurs(x, keys) <=> x = Head(keys) \/ Occurs(x, Tail(keys))
  BY <1>0, HeadAndTail DEF MetaTypeOK
<1>1. MetaTypeOK'
  <2>1. CASE keys = <<>>
    BY <1>0, <2>1 DEF MetaTypeOK, SourceInv
  <2>2. CASE keys # <<>>
    BY <1>0, <1>h, <2>2, MetaAssumption DEF MetaTypeOK, SourceInv
  <2> QED
    BY <2>1, <2>2
<1>2. SourceInv'
  <2>1. CASE keys = <<>>
    BY <1>0, <2>1 DEF MetaTypeOK, SourceInv
  <2>2. CASE keys # <<>>
    BY <1>0, <1>h, <2>2, MetaAssumption DEF MetaTypeOK, SourceInv
  <2> QED
    BY <2>1, <2>2
<1>3. LengthInv'
  BY <1>0, RoomFacts DEF LengthInv, MetaTypeOK, SourceInv, Fetched, KeyRoom
<1>4. ProgressInv'
  <2>1. CASE keys = <<>>
    BY <1>0, <2>1 DEF MetaTypeOK, ProgressInv, SourceInv, Has, Occurs
  <2>2. CASE keys # <<>>
    <3>1. /\ at = "next" /\ keys' = Tail(keys) /\ key' = Head(keys)
          /\ at' = IF key' \in BlankKey \cup {EmptyKey} THEN "next" ELSE "valueLen"
          /\ UNCHANGED <<target, held, first>>
      BY <2>2
    <3>2. ASSUME NEW k \in Key \ BlankKey, first[k] # NoValue
          PROVE  Has(k) \/ Ahead(k)' \/ (AtKey' /\ k = key')
      <4>1. Has(k) \/ Ahead(k)
        BY <1>0, <3>1, <3>2 DEF ProgressInv
      <4>2. Ahead(k) => k = Head(keys) \/ Ahead(k)'
        BY <1>h, <2>2, <3>1
      <4>3. k = Head(keys) => AtKey' /\ k = key'
        BY <3>1, MetaAssumption
      <4> QED
        BY <4>1, <4>2, <4>3
    <3>3. \A k \in Key : Has(k)' <=> Has(k)
      BY <3>1 DEF Has
    <3> HIDE DEF NextKey, AtKey, Ahead
    <3> QED
      BY <3>1, <3>2, <3>3 DEF ProgressInv
  <2> QED
    BY <2>1, <2>2
<1>5. OwnValuesOnly'
  BY <1>0, RoomFacts DEF OwnValuesOnly, MetaTypeOK, ProgressInv
<1>6. FailureHasCause'
  BY <1>0, RoomFacts DEF FailureHasCause, MetaTypeOK, LengthInv, SourceInv
<1> QED
  BY <1>1, <1>2, <1>3, <1>4, <1>5, <1>6 DEF MetaInv

(* A value is read.                                                           *)
LEMMA ReadValueKeeps ==
    ASSUME MetaInv, MemoryTypeOK', ReadValue
    PROVE  MetaInv'
<1>0. /\ MetaTypeOK /\ SourceInv /\ LengthInv /\ ProgressInv
      /\ OwnValuesOnly /\ FailureHasCause
  BY DEF MetaInv
<1> USE DEF ReadValue, Need, localVars, callVars, Outcome, Running, Fetched, Binding,
           AtKey, Ahead
<1>1. MetaTypeOK'
  BY <1>0, RoomFacts DEF MetaTypeOK, SourceInv
<1>2. SourceInv'
  BY <1>0, RoomFacts DEF SourceInv, MetaTypeOK
<1>3. LengthInv'
  BY <1>0, RoomFacts DEF LengthInv, MetaTypeOK, SourceInv, Fetched, KeyRoom
<1>4. ProgressInv'
  BY <1>0, RoomFacts DEF ProgressInv, MetaTypeOK, SourceInv, Has, Occurs
<1>5. OwnValuesOnly'
  BY <1>0, RoomFacts DEF OwnValuesOnly, MetaTypeOK, ProgressInv
<1>6. FailureHasCause'
  BY <1>0, RoomFacts DEF FailureHasCause, MetaTypeOK, LengthInv, SourceInv
<1> QED
  BY <1>1, <1>2, <1>3, <1>4, <1>5, <1>6 DEF MetaInv

(* A value is written.                                                        *)
LEMMA WriteValueKeeps ==
    ASSUME MetaInv, MemoryTypeOK', WriteValue
    PROVE  MetaInv'
<1>0. /\ MetaTypeOK /\ SourceInv /\ LengthInv /\ ProgressInv
      /\ OwnValuesOnly /\ FailureHasCause
  BY DEF MetaInv
<1> USE DEF WriteValue, localVars, callVars, Outcome, Running, Fetched, Binding,
           AtKey, Ahead
<1>1. MetaTypeOK'
  BY <1>0, RoomFacts DEF MetaTypeOK, SourceInv
<1>2. SourceInv'
  BY <1>0, RoomFacts DEF SourceInv, MetaTypeOK
<1>3. LengthInv'
  BY <1>0, RoomFacts DEF LengthInv, MetaTypeOK, SourceInv, Fetched, KeyRoom
<1>4. ProgressInv'
  BY <1>0, RoomFacts DEF ProgressInv, MetaTypeOK, SourceInv, Has, Occurs
<1>5. OwnValuesOnly'
  BY <1>0, RoomFacts DEF OwnValuesOnly, MetaTypeOK, ProgressInv
<1>6. FailureHasCause'
  BY <1>0, RoomFacts DEF FailureHasCause, MetaTypeOK, LengthInv, SourceInv
<1> QED
  BY <1>1, <1>2, <1>3, <1>4, <1>5, <1>6 DEF MetaInv

(* Another program writes metadata of the source.                             *)
LEMMA ChangeKeeps ==
    ASSUME MetaInv, MemoryTypeOK', Change
    PROVE  MetaInv'
<1>0. /\ MetaTypeOK /\ SourceInv /\ LengthInv /\ ProgressInv
      /\ OwnValuesOnly /\ FailureHasCause
  BY DEF MetaInv
<1> USE DEF Change, localVars, callVars, Outcome, Running, Fetched, Binding,
           AtKey, Ahead
<1>h. IsFiniteSet({k \in Key : source'[k] # NoValue})
  <2> DEFINE S == {k \in Key : source[k] # NoValue}
             T == {k \in Key : source'[k] # NoValue}
  <2>1. PICK k \in Key, v \in Value : source' = [source EXCEPT ![k] = v]
    OBVIOUS
  <2>2. T \subseteq S \cup {k}
    BY <1>0, <2>1 DEF MetaTypeOK
  <2>3. IsFiniteSet(S)
    BY <1>0 DEF SourceInv
  <2> HIDE DEF S, T
  <2>4. IsFiniteSet(S \cup {k})
    BY <2>3, FS_AddElement
  <2>5. IsFiniteSet(T)
    BY <2>2, <2>4, FS_Subset
  <2> QED
    BY <2>5 DEF T
<1>1. MetaTypeOK'
  BY <1>0, RoomFacts, <1>h, MetaAssumption DEF MetaTypeOK, SourceInv
<1>2. SourceInv'
  BY <1>0, RoomFacts, <1>h, MetaAssumption DEF SourceInv, MetaTypeOK
<1>3. LengthInv'
  BY <1>0, RoomFacts, <1>h, MetaAssumption DEF LengthInv, MetaTypeOK, SourceInv, Fetched, KeyRoom
<1>4. ProgressInv'
  BY <1>0, RoomFacts, <1>h, MetaAssumption DEF ProgressInv, MetaTypeOK, SourceInv, Has, Occurs
<1>5. OwnValuesOnly'
  BY <1>0, RoomFacts, <1>h, MetaAssumption DEF OwnValuesOnly, MetaTypeOK, ProgressInv
<1>6. FailureHasCause'
  BY <1>0, RoomFacts, <1>h, MetaAssumption DEF FailureHasCause, MetaTypeOK, LengthInv, SourceInv
<1> QED
  BY <1>1, <1>2, <1>3, <1>4, <1>5, <1>6 DEF MetaInv

(* It holds at the beginning.                                                 *)
LEMMA MetaInitInv == MetaInit => MetaInv
<1> SUFFICES ASSUME MetaInit PROVE MetaInv
  OBVIOUS
<1>1. source \in Contents /\ source \in [Key -> Value \cup {NoValue}]
      /\ IsFiniteSet({k \in Key : source[k] # NoValue})
  BY MetaAssumption DEF MetaInit
<1>2. MemoryTypeOK
  <2>1. deferred \in Seq(SUBSET live)
    BY DEF MetaInit, MemoryInit
  <2> QED
    BY <2>1 DEF MetaInit, MemoryInit, MemoryTypeOK, NoCall
<1>3. keys \in Seq(Key \cup {EmptyKey})
  BY DEF MetaInit
<1> QED
  BY <1>1, <1>2, <1>3, MetaAssumption
     DEF MetaInit, MetaInv, MetaTypeOK, SourceInv, LengthInv, ProgressInv, OwnValuesOnly,
         FailureHasCause, Running, Fetched, Binding, Outcome

(* Every step keeps it.                                                       *)
LEMMA MetaStepKeeps == MetaInv /\ MemoryTypeOK' /\ [MetaNext]_metaVars => MetaInv'
<1> SUFFICES ASSUME MetaInv, MemoryTypeOK', [MetaNext]_metaVars PROVE MetaInv'
  OBVIOUS
<1>1. CASE UNCHANGED metaVars
  BY <1>1, FrameKeeps DEF metaVars
<1>2. CASE Steps
  <2>1. CASE \/ CallBinding
             \/ MemoryStep /\ UNCHANGED <<source, target, at, localVars, callVars, changes,
                                          held, cause>>
    BY <2>1, FrameKeeps DEF CallBinding
  <2> QED
    BY <1>2, <2>1, BindingFailsKeeps, KeysLenKeeps, EmptyBufferKeeps, TooSmallKeeps, KeysKeeps,
       NextKeyKeeps, ValueLenKeeps, ReadValueKeeps, WriteValueKeeps DEF Steps
<1>3. CASE OtherBinding
  BY <1>3, FrameKeeps DEF OtherBinding
<1> QED
  BY <1>1, <1>2, <1>3, SaveKeeps, ChangeKeeps DEF MetaNext

(* It holds always.                                                           *)
LEMMA AlwaysMetaInv == MetaSpec => []MetaInv
BY MetaInitInv, MetaStepKeeps, MemTypes, AlwaysMemInv, PTL DEF MetaSpec

(* Types, of the C memory too.                                                *)
THEOREM MetaTypes == MetaSpec => []MetaTypeOK
<1>1. MetaInv => MetaTypeOK
  BY DEF MetaInv
<1> QED
  BY <1>1, AlwaysMetaInv, PTL

(* nil means that every key the source had is saved, with a value it has held *)
(* since the call began.                                                      *)
THEOREM Saved == MetaSpec => []NilMeansSaved
<1>1. MetaInv => NilMeansSaved
  <2> SUFFICES ASSUME MetaInv, at = "nil", NEW k \in Key \ BlankKey, first[k] # NoValue
               PROVE  target[k] \in held[k] \ {NoValue}
    BY DEF NilMeansSaved
  <2>1. Has(k) \/ Ahead(k) \/ (AtKey /\ k = key)
    BY DEF MetaInv, ProgressInv
  <2>2. keys = <<>> /\ ~AtKey
    BY DEF MetaInv, ProgressInv, AtKey
  <2>3. ~Ahead(k)
    BY <2>2 DEF Ahead, Occurs
  <2> QED
    BY <2>1, <2>2, <2>3 DEF Has
<1> QED
  BY <1>1, AlwaysMetaInv, PTL

(* No key gets a value that it has not held since the call began.             *)
THEOREM OwnValues == MetaSpec => []OwnValuesOnly
<1>1. MetaInv => OwnValuesOnly
  BY DEF MetaInv
<1> QED
  BY <1>1, AlwaysMetaInv, PTL

(* An error or a panic has a cause outside the method.                        *)
THEOREM CauseOfFailure == MetaSpec => []FailureHasCause
<1>1. MetaInv => FailureHasCause
  BY DEF MetaInv
<1> QED
  BY <1>1, AlwaysMetaInv, PTL
=============================================================================
