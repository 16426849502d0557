------------------------- MODULE HeapRepositoryProofs -------------------------
(***************************************************************************)
(* The in-memory implementation of the repository implements the abstract  *)
(* one for any names and any calls of the interface.                       *)
(***************************************************************************)
EXTENDS HeapRepository, SequenceTheorems, FiniteSetTheorems, TLAPS

(* The tables the lists stand for, as HeapR sees them. *)
ServiceTable == TableOf(serviceList, Services)
HostTable    == TableOf(hostList, Hosts)

(* A list of rows with a name of their own each. *)
OneRowEach(list, names, values) ==
    /\ list \in Seq([name : names, value : values])
    /\ \A i, j \in DOMAIN list : list[i].name = list[j].name => i = j

(* The inductive invariant. *)
HeapInv == /\ OneRowEach(serviceList, Services, Service)
           /\ OneRowEach(hostList, Hosts, HostAttr)

-----------------------------------------------------------------------------
(* Lists as tables. *)

LEMMA RowType ==
    ASSUME NEW names, NEW values, NEW list, OneRowEach(list, names, values)
    PROVE  /\ DOMAIN list = 1..Len(list) /\ Len(list) \in Nat
           /\ \A i \in DOMAIN list : /\ list[i] = Row(list[i].name, list[i].value)
                                     /\ list[i].name \in names /\ list[i].value \in values
  <1>1. DOMAIN list = 1..Len(list) /\ Len(list) \in Nat
    BY LenProperties DEF OneRowEach
  <1>2. \A i \in DOMAIN list : list[i] \in [name : names, value : values]
    BY <1>1, ElementOfSeq DEF OneRowEach
  <1>. QED
    BY <1>1, <1>2 DEF Row

(* What is filtered for a name: nothing, or its one row. *)
LEMMA FilteredOne ==
    ASSUME NEW names, NEW values, NEW list, OneRowEach(list, names, values), NEW n
    PROVE  /\ ~Duplicate(list, n)
           /\ Unique(list, n) <=> \E i \in DOMAIN list : list[i].name = n
           /\ \A i \in DOMAIN list :
                 list[i].name = n => /\ Filtered(list, n) = {i}
                                     /\ Index(list, n) = i /\ Get(list, n) = list[i].value
  <1>1. ASSUME NEW i \in DOMAIN list, list[i].name = n
        PROVE  Filtered(list, n) = {i} /\ Index(list, n) = i /\ Get(list, n) = list[i].value
    <2>1. Filtered(list, n) = {i}
      BY <1>1 DEF Filtered, OneRowEach
    <2>. QED
      BY <2>1 DEF Index, Get
  <1>2. ASSUME NEW i \in DOMAIN list, list[i].name = n
        PROVE  Unique(list, n)
    BY <1>1, <1>2, FS_Singleton DEF Unique
  <1>3. ASSUME \A i \in DOMAIN list : list[i].name # n
        PROVE  Missing(list, n) /\ ~Unique(list, n)
    <2>1. Filtered(list, n) = {}
      BY <1>3 DEF Filtered
    <2>. QED
      BY <2>1, FS_EmptySet DEF Missing, Unique
  <1>. QED
    BY <1>1, <1>2, <1>3 DEF Duplicate

(* The rows of the table: those of the list, and None for any other name. *)
LEMMA TableHit ==
    ASSUME NEW names, NEW values, NEW list, OneRowEach(list, names, values),
           NEW i \in DOMAIN list
    PROVE  TableOf(list, names)[list[i].name] = list[i].value
  <1>1. (CHOOSE j \in DOMAIN list : list[j].name = list[i].name) = i
    BY DEF OneRowEach
  <1>2. list[i].name \in names
    BY RowType
  <1>. QED
    BY <1>1, <1>2 DEF TableOf

LEMMA TableMiss ==
    ASSUME NEW names, NEW list, NEW n \in names, \A i \in DOMAIN list : list[i].name # n
    PROVE  TableOf(list, names)[n] = None
  BY DEF TableOf

(* The row of a name in the table is the one row of the list, or None. *)
LEMMA TableRow ==
    ASSUME NEW names, NEW values, None \notin values,
           NEW list, OneRowEach(list, names, values), NEW n \in names
    PROVE  /\ \A i \in DOMAIN list : list[i].name = n => TableOf(list, names)[n] = list[i].value
           /\ Unique(list, n) => /\ TableOf(list, names)[n] = Get(list, n)
                                 /\ Get(list, n) \in values
           /\ ~Unique(list, n) => TableOf(list, names)[n] = None
           /\ Unique(list, n) <=> TableOf(list, names)[n] # None
  <1>1. ASSUME NEW i \in DOMAIN list, list[i].name = n
        PROVE  TableOf(list, names)[n] = list[i].value /\ list[i].value \in values
    <2>1. list[i].value \in values
      BY RowType
    <2>. QED
      BY <1>1, <2>1, TableHit
  <1>2. ASSUME ~Unique(list, n)
        PROVE  TableOf(list, names)[n] = None
    BY <1>2, FilteredOne, TableMiss
  <1>3. ASSUME Unique(list, n)
        PROVE  TableOf(list, names)[n] = Get(list, n) /\ Get(list, n) \in values
    <2>1. PICK i \in DOMAIN list : list[i].name = n
      BY <1>3, FilteredOne
    <2>2. Get(list, n) = list[i].value
      BY <2>1, FilteredOne
    <2>. QED
      BY <1>1, <2>1, <2>2
  <1>. QED
    BY <1>1, <1>2, <1>3

(* A table is known from the rows of its list. *)
LEMMA TableIs ==
    ASSUME NEW names, NEW values, None \notin values,
           NEW list, OneRowEach(list, names, values), NEW table,
           table = [n \in names |-> table[n]],
           \A i \in DOMAIN list : table[list[i].name] = list[i].value,
           \A n \in names : (\A i \in DOMAIN list : list[i].name # n) => table[n] = None
    PROVE  TableOf(list, names) = table
  <1>1. ASSUME NEW n \in names
        PROVE  TableOf(list, names)[n] = table[n]
    <2>1. CASE Unique(list, n)
      <3>1. PICK i \in DOMAIN list : list[i].name = n
        BY <2>1, FilteredOne
      <3>2. TableOf(list, names)[n] = list[i].value
        BY <3>1, TableHit
      <3>3. table[n] = list[i].value
        BY <3>1
      <3>. QED
        BY <3>2, <3>3
    <2>2. CASE ~Unique(list, n)
      BY <2>2, TableMiss, FilteredOne
    <2>. QED
      BY <2>1, <2>2
  <1>2. TableOf(list, names) = [n \in names |-> TableOf(list, names)[n]]
    BY DEF TableOf
  <1>. QED
    BY <1>1, <1>2

(* Put writes the row of the name. *)
LEMMA PutRow ==
    ASSUME NEW names, NEW values, None \notin values,
           NEW list, OneRowEach(list, names, values), NEW n \in names, NEW v \in values
    PROVE  /\ OneRowEach(Put(list, n, v), names, values)
           /\ TableOf(Put(list, n, v), names) = [TableOf(list, names) EXCEPT ![n] = v]
  <1> DEFINE rows == [name : names, value : values]
             new == Put(list, n, v)
             table == [TableOf(list, names) EXCEPT ![n] = v]
  <1>1. Row(n, v) \in rows /\ Row(n, v).name = n /\ Row(n, v).value = v
    BY DEF Row
  <1>2. /\ DOMAIN list = 1..Len(list) /\ Len(list) \in Nat /\ list \in Seq(rows)
        /\ \A i \in DOMAIN list : list[i].name \in names
    BY RowType DEF OneRowEach
  <1>3. TableOf(list, names) = [m \in names |-> TableOf(list, names)[m]]
    BY DEF TableOf
  <1>4. ASSUME OneRowEach(new, names, values),
               \A i \in DOMAIN new : new[i].name = n => new[i].value = v,
               \E i \in DOMAIN new : new[i].name = n,
               \A i \in DOMAIN new : new[i].name # n =>
                  i \in DOMAIN list /\ list[i].name = new[i].name /\ list[i].value = new[i].value,
               \A i \in DOMAIN list : list[i].name # n =>
                  i \in DOMAIN new /\ list[i].name = new[i].name
        PROVE  TableOf(new, names) = table
    <2>1. table = [m \in names |-> table[m]]
      BY <1>3
    <2>2. table[n] = v /\ \A m \in names : m # n => table[m] = TableOf(list, names)[m]
      BY <1>3
    <2>. HIDE DEF new, table
    <2>3. ASSUME NEW i \in DOMAIN new
          PROVE  table[new[i].name] = new[i].value
      <3>1. CASE new[i].name = n
        BY <3>1, <2>2, <1>4
      <3>2. CASE new[i].name # n
        <4> DEFINE m == new[i].name
        <4>1. i \in DOMAIN list /\ list[i].name = m /\ list[i].value = new[i].value /\ m \in names
          BY <3>2, <1>4, <1>2
        <4>. HIDE DEF m
        <4>2. TableOf(list, names)[m] = list[i].value
          BY <4>1, TableHit
        <4>3. table[m] = TableOf(list, names)[m]
          BY <3>2, <4>1, <2>2 DEF m
        <4>. QED
          BY <4>1, <4>2, <4>3 DEF m
      <3>. QED
        BY <3>1, <3>2
    <2>4. ASSUME NEW m \in names, \A i \in DOMAIN new : new[i].name # m
          PROVE  table[m] = None
      <3>1. m # n /\ \A i \in DOMAIN list : list[i].name # m
        BY <2>4, <1>4
      <3>3. TableOf(list, names)[m] = None
        BY <3>1, TableMiss
      <3>. QED
        BY <3>1, <3>3, <2>2
    <2>. QED
      BY <2>1, <2>3, <2>4, <1>4, TableIs
  <1>5. CASE Unique(list, n)
    <2>1. PICK k \in DOMAIN list : list[k].name = n
      BY <1>5, FilteredOne
    <2>2. new = [list EXCEPT ![k] = Row(n, v)]
      BY <1>5, <2>1, FilteredOne DEF Put
    <2>3. new \in Seq(rows) /\ DOMAIN new = DOMAIN list
      BY <2>1, <2>2, <1>1, <1>2, ExceptSeq
    <2>4. new[k] = Row(n, v) /\ \A i \in DOMAIN list : i # k => new[i] = list[i]
      BY <2>1, <2>2
    <2>5. \A i \in DOMAIN list : list[i].name = n => i = k
      BY <2>1 DEF OneRowEach
    <2>. HIDE DEF new
    <2>6. OneRowEach(new, names, values)
      BY <2>1, <2>3, <2>4, <2>5, <1>1 DEF OneRowEach
    <2>7. /\ \A i \in DOMAIN new : new[i].name = n => new[i].value = v
          /\ \E i \in DOMAIN new : new[i].name = n
          /\ \A i \in DOMAIN new : new[i].name # n =>
                i \in DOMAIN list /\ list[i].name = new[i].name /\ list[i].value = new[i].value
          /\ \A i \in DOMAIN list : list[i].name # n =>
                i \in DOMAIN new /\ list[i].name = new[i].name
      BY <2>1, <2>3, <2>4, <2>5, <1>1
    <2>. QED
      BY <1>4, <2>6, <2>7 DEF new, table
  <1>6. CASE ~Unique(list, n)
    <2>1. new = Append(list, Row(n, v))
      BY <1>6 DEF Put
    <2>2. /\ new \in Seq(rows) /\ DOMAIN new = 1..(Len(list) + 1)
          /\ new[Len(list) + 1] = Row(n, v)
          /\ \A i \in DOMAIN list : new[i] = list[i]
      BY <2>1, <1>1, <1>2, AppendProperties, LenProperties
    <2>3. DOMAIN new = DOMAIN list \cup {Len(list) + 1} /\ Len(list) + 1 \notin DOMAIN list
      BY <2>2, <1>2
    <2>4. \A i \in DOMAIN list : list[i].name # n
      BY <1>6, FilteredOne
    <2>. HIDE DEF new
    <2>5. OneRowEach(new, names, values)
      BY <2>2, <2>3, <2>4, <1>1 DEF OneRowEach
    <2>6. /\ \A i \in DOMAIN new : new[i].name = n => new[i].value = v
          /\ \E i \in DOMAIN new : new[i].name = n
          /\ \A i \in DOMAIN new : new[i].name # n =>
                i \in DOMAIN list /\ list[i].name = new[i].name /\ list[i].value = new[i].value
          /\ \A i \in DOMAIN list : list[i].name # n =>
                i \in DOMAIN new /\ list[i].name = new[i].name
      BY <2>2, <2>3, <2>4, <1>1
    <2>. QED
      BY <1>4, <2>5, <2>6 DEF new, table
  <1>. QED
    BY <1>5, <1>6

(* Delete takes the row of the name out. *)
LEMMA DeleteRow ==
    ASSUME NEW names, NEW values, None \notin values,
           NEW list, OneRowEach(list, names, values), NEW n \in names
    PROVE  /\ OneRowEach(Delete(list, n), names, values)
           /\ TableOf(Delete(list, n), names) = [TableOf(list, names) EXCEPT ![n] = None]
  <1> DEFINE rows == [name : names, value : values]
             new == Delete(list, n)
             table == [TableOf(list, names) EXCEPT ![n] = None]
  <1>1. /\ DOMAIN list = 1..Len(list) /\ Len(list) \in Nat /\ list \in Seq(rows)
        /\ \A i \in DOMAIN list : list[i].name \in names
    BY RowType DEF OneRowEach
  <1>2. TableOf(list, names) = [m \in names |-> TableOf(list, names)[m]]
    BY DEF TableOf
  <1>3. table[n] = None /\ \A m \in names : m # n => table[m] = TableOf(list, names)[m]
    BY <1>2
  <1>4. table = [m \in names |-> table[m]]
    BY <1>2
  <1>5. CASE ~Unique(list, n)
    <2>1. new = list /\ TableOf(list, names)[n] = None
      BY <1>5, TableRow DEF Delete
    <2>2. table = TableOf(list, names)
      BY <2>1, <1>2
    <2>. QED
      BY <2>1, <2>2
  <1>6. CASE Unique(list, n)
    <2>1. PICK k \in DOMAIN list : list[k].name = n
      BY <1>6, FilteredOne
    <2>2. new = RemoveAt(list, k)
      BY <1>6, <2>1, FilteredOne DEF Delete
    <2>3. new = SubSeq(list, 1, k - 1) \o SubSeq(list, k + 1, Len(list))
      BY <2>2 DEF RemoveAt
    <2>4. /\ new \in Seq(rows) /\ Len(new) = Len(list) - 1 /\ DOMAIN new = 1..(Len(list) - 1)
          /\ \A i \in 1..(k - 1) : new[i] = list[i]
          /\ \A i \in k..(Len(list) - 1) : new[i] = list[i + 1]
      <3> DEFINE low == SubSeq(list, 1, k - 1)
                 high == SubSeq(list, k + 1, Len(list))
      <3>1. k \in 1..Len(list) /\ k \in Nat
        BY <1>1
      <3>2. \A i \in 1..Len(list) : list[i] \in rows
        BY <1>1, ElementOfSeq
      <3>3. low \in Seq(rows) /\ Len(low) = k - 1 /\ \A i \in 1..(k - 1) : low[i] = list[i]
        <4>1. 1 \in Int /\ k - 1 \in Int /\ \A i \in 1..(k - 1) : list[i] \in rows
          BY <1>1, <3>1, <3>2
        <4>2. /\ low \in Seq(rows) /\ Len(low) = IF 1 <= k - 1 THEN (k - 1) - 1 + 1 ELSE 0
              /\ \A i \in 1..((k - 1) - 1 + 1) : low[i] = list[1 + i - 1]
          BY <4>1, SubSeqProperties
        <4>. QED
          BY <3>1, <4>2
      <3>4. /\ high \in Seq(rows) /\ Len(high) = Len(list) - k
            /\ \A i \in 1..(Len(list) - k) : high[i] = list[k + i]
        <4>1. k + 1 \in Int /\ Len(list) \in Int /\ \A i \in (k + 1)..Len(list) : list[i] \in rows
          BY <1>1, <3>1, <3>2
        <4>2. /\ high \in Seq(rows)
              /\ Len(high) = IF k + 1 <= Len(list) THEN Len(list) - (k + 1) + 1 ELSE 0
              /\ \A i \in 1..(Len(list) - (k + 1) + 1) : high[i] = list[(k + 1) + i - 1]
          BY <4>1, SubSeqProperties
        <4>. QED
          BY <1>1, <3>1, <4>2
      <3>5. /\ low \o high \in Seq(rows) /\ Len(low \o high) = Len(low) + Len(high)
            /\ \A i \in 1..(Len(low) + Len(high)) :
                  (low \o high)[i] = IF i <= Len(low) THEN low[i] ELSE high[i - Len(low)]
        BY <3>3, <3>4, ConcatProperties
      <3>6. new = low \o high
        BY <2>3
      <3>. HIDE DEF low, high, new
      <3>7. /\ new \in Seq(rows) /\ Len(new) = Len(list) - 1
            /\ \A i \in 1..(Len(list) - 1) : new[i] = IF i <= k - 1 THEN low[i] ELSE high[i - (k - 1)]
        <4>1. (k - 1) + (Len(list) - k) = Len(list) - 1
          BY <1>1, <3>1
        <4>2. Len(low) + Len(high) = Len(list) - 1
          BY <3>3, <3>4, <4>1
        <4>. QED
          BY <3>3, <3>5, <3>6, <4>2
      <3>8. \A i \in k..(Len(list) - 1) : new[i] = list[i + 1]
        <4>. TAKE i \in k..(Len(list) - 1)
        <4>1. /\ i \in 1..(Len(list) - 1) /\ ~(i <= k - 1)
              /\ i - (k - 1) \in 1..(Len(list) - k) /\ k + (i - (k - 1)) = i + 1
          BY <1>1, <3>1
        <4>2. new[i] = high[i - (k - 1)]
          BY <3>7, <4>1
        <4>3. high[i - (k - 1)] = list[k + (i - (k - 1))]
          BY <3>4, <4>1
        <4>. QED
          BY <4>1, <4>2, <4>3
      <3>9. \A i \in 1..(k - 1) : new[i] = list[i]
        <4>. TAKE i \in 1..(k - 1)
        <4>1. i \in 1..(Len(list) - 1) /\ i <= k - 1
          BY <1>1, <3>1
        <4>. QED
          BY <3>3, <3>7, <4>1
      <3>10. DOMAIN new = 1..(Len(list) - 1)
        BY <3>7, LenProperties
      <3>. QED
        BY <3>7, <3>8, <3>9, <3>10 DEF new
    <2>. HIDE DEF new, table
    <2>5. \A i \in DOMAIN list : list[i].name = n => i = k
      BY <2>1 DEF OneRowEach
    <2>6. \A i \in DOMAIN new : \E j \in DOMAIN list :
             j # k /\ new[i] = list[j] /\ j = (IF i < k THEN i ELSE i + 1)
      BY <1>1, <2>4
    <2>7. \A j \in DOMAIN list : j # k => \E i \in DOMAIN new : new[i] = list[j]
      <3>. TAKE j \in DOMAIN list
      <3>1. CASE j < k
        BY <1>1, <2>4, <3>1
      <3>2. CASE j > k
        <4>1. /\ j - 1 \in 1..(Len(list) - 1) /\ j - 1 \in k..(Len(list) - 1)
              /\ (j - 1) + 1 = j
          BY <1>1, <3>2
        <4>2. j - 1 \in DOMAIN new /\ new[j - 1] = list[j]
          BY <2>4, <4>1
        <4>. QED
          BY <4>2
      <3>. QED
        BY <1>1, <3>1, <3>2
    <2>8. OneRowEach(new, names, values)
      BY <1>1, <2>4, <2>6 DEF OneRowEach
    <2>9. ASSUME NEW i \in DOMAIN new
          PROVE  table[new[i].name] = new[i].value
      <3>1. PICK j \in DOMAIN list : j # k /\ new[i] = list[j]
        BY <2>6
      <3>2. list[j].name # n /\ list[j].name \in names
        BY <1>1, <2>5, <3>1
      <3>3. TableOf(list, names)[list[j].name] = list[j].value
        BY TableHit
      <3>. QED
        BY <1>3, <3>1, <3>2, <3>3
    <2>10. ASSUME NEW m \in names, \A i \in DOMAIN new : new[i].name # m
           PROVE  table[m] = None
      <3>1. CASE m = n
        BY <1>3, <3>1
      <3>2. CASE m # n
        <4>1. \A j \in DOMAIN list : list[j].name # m
          BY <2>1, <2>7, <2>10, <3>2
        <4>2. TableOf(list, names)[m] = None
          BY <4>1, TableMiss
        <4>. QED
          BY <1>3, <3>2, <4>2
      <3>. QED
        BY <3>1, <3>2
    <2>11. TableOf(new, names) = table
      BY <1>4, <2>8, <2>9, <2>10, TableIs
    <2>. QED
      BY <2>8, <2>11 DEF new, table
  <1>. QED
    BY <1>5, <1>6

(* The whole list is the whole table. *)
LEMMA AllRows ==
    ASSUME NEW names, NEW values, None \notin values, NEW list, OneRowEach(list, names, values)
    PROVE  LET table == TableOf(list, names)
               present == {n \in names : table[n] # None}
           IN  /\ Elements(list) = {Row(n, table[n]) : n \in present}
               /\ Names(list) = present
  <1> DEFINE table == TableOf(list, names)
             present == {n \in names : table[n] # None}
  <1>1. ASSUME NEW i \in DOMAIN list
        PROVE  /\ list[i].name \in present /\ table[list[i].name] = list[i].value
               /\ list[i] = Row(list[i].name, list[i].value)
    BY RowType, TableHit
  <1>2. ASSUME NEW n \in present
        PROVE  \E i \in DOMAIN list : list[i].name = n
    BY <1>2, TableMiss
  <1>. HIDE DEF table, present
  <1>3. Elements(list) = {Row(n, table[n]) : n \in present}
    BY <1>1, <1>2 DEF Elements
  <1>4. Names(list) = present
    BY <1>1, <1>2 DEF Names
  <1>. QED
    BY <1>3, <1>4 DEF table, present

-----------------------------------------------------------------------------
(* The repository. *)

LEMMA Records == None \notin Service /\ None \notin HostAttr
  BY CallsAssumption

(* The operation of a call tells which parameters it has. *)
LEMMA CallFields ==
    ASSUME NEW c \in Calls
    PROVE  /\ c.op = "PutHost" => c.name \in Hosts /\ c.value \in HostAttr
           /\ c.op = "PutService" => c.name \in Services /\ c.value \in Service
           /\ c.op = "AddServiceDependency" =>
                 c.name \in Services /\ c.depend \in Dependency /\ c.version \in Nat
           /\ c.op = "RemoveServiceDependency" =>
                 c.name \in Services /\ c.depend \in Services /\ c.version \in Nat
           /\ c.op \in {"SelectHostByName", "DeleteHost"} => c.name \in Hosts
           /\ c.op \in {"SelectServiceByName", "DeleteService", "SelectHostsOfService",
                        "SelectReferringServiceNamesTo"} => c.name \in Services
  <1>1. c \in Call
    BY CallsAssumption
  <1>. QED
    BY <1>1 DEF Call, HostWrite, ServiceWrite, AddCall, RemoveCall, HostCall, ServiceCall, ListCall

(* What a method finds of a name is its row of the table. *)
LEMMA ServiceRow ==
    ASSUME HeapInv, NEW s \in Services
    PROVE  /\ ~Duplicate(serviceList, s)
           /\ Unique(serviceList, s) = (ServiceTable[s] # None)
           /\ Unique(serviceList, s) => /\ Get(serviceList, s) = ServiceTable[s]
                                        /\ ServiceTable[s] \in Service
  <1>1. OneRowEach(serviceList, Services, Service)
    BY DEF HeapInv
  <1>2. ~Duplicate(serviceList, s)
    BY <1>1, FilteredOne
  <1>3. /\ Unique(serviceList, s) => /\ ServiceTable[s] = Get(serviceList, s)
                                     /\ Get(serviceList, s) \in Service
        /\ Unique(serviceList, s) <=> ServiceTable[s] # None
    BY <1>1, Records, TableRow DEF ServiceTable
  <1>. QED
    BY <1>2, <1>3 DEF Unique

LEMMA HostRow ==
    ASSUME HeapInv, NEW h \in Hosts
    PROVE  /\ ~Duplicate(hostList, h)
           /\ Unique(hostList, h) = (HostTable[h] # None)
           /\ Unique(hostList, h) => /\ Get(hostList, h) = HostTable[h]
                                     /\ HostTable[h] \in HostAttr
  <1>1. OneRowEach(hostList, Hosts, HostAttr)
    BY DEF HeapInv
  <1>2. ~Duplicate(hostList, h)
    BY <1>1, FilteredOne
  <1>3. /\ Unique(hostList, h) => /\ HostTable[h] = Get(hostList, h)
                                  /\ Get(hostList, h) \in HostAttr
        /\ Unique(hostList, h) <=> HostTable[h] # None
    BY <1>1, Records, TableRow DEF HostTable
  <1>. QED
    BY <1>2, <1>3 DEF Unique

LEMMA PutServiceRow ==
    ASSUME HeapInv, NEW s \in Services, NEW v \in Service,
           serviceList' = Put(serviceList, s, v), UNCHANGED hostList
    PROVE  /\ HeapInv'
           /\ ServiceTable' = [ServiceTable EXCEPT ![s] = v] /\ HostTable' = HostTable
  BY Records, PutRow DEF HeapInv, ServiceTable, HostTable

LEMMA PutHostRow ==
    ASSUME HeapInv, NEW h \in Hosts, NEW v \in HostAttr,
           hostList' = Put(hostList, h, v), UNCHANGED serviceList
    PROVE  /\ HeapInv'
           /\ HostTable' = [HostTable EXCEPT ![h] = v] /\ ServiceTable' = ServiceTable
  BY Records, PutRow DEF HeapInv, ServiceTable, HostTable

LEMMA ListsKept ==
    ASSUME HeapInv, UNCHANGED <<serviceList, hostList>>
    PROVE  HeapInv' /\ ServiceTable' = ServiceTable /\ HostTable' = HostTable
  BY DEF HeapInv, ServiceTable, HostTable

(* A method that changes the tables as the interface says and answers what *)
(* it promises is the abstract call.                                       *)
LEMMA Performed ==
    ASSUME NEW c, ServiceTable' = HeapR!ServicesAfter(c), HostTable' = HeapR!HostsAfter(c),
           heapAnswer' = IF HeapR!Refused(c) THEN Failure(c)
                         ELSE Answer(c, HeapR!Succeeds(c), HeapR!Selected(c))
    PROVE  HeapR!Perform(c)
  BY DEF HeapR!Perform, HeapR!Failure, HeapR!Answer, Failure, Answer, ServiceTable, HostTable

LEMMA NothingWritten ==
    ASSUME NEW c, c.op \notin {"PutHost", "PutService", "DeleteHost", "DeleteService",
                              "AddServiceDependency", "RemoveServiceDependency"}
    PROVE  HeapR!ServicesAfter(c) = ServiceTable /\ HeapR!HostsAfter(c) = HostTable
  BY DEF HeapR!ServicesAfter, HeapR!HostsAfter, ServiceTable, HostTable

-----------------------------------------------------------------------------
(* The methods that write. *)

LEMMA PutHostStep ==
    ASSUME HeapInv, NEW c \in Calls, PutHost(c)
    PROVE  HeapInv' /\ HeapR!Perform(c)
  <1>1. c.op = "PutHost" /\ c.name \in Hosts /\ c.value \in HostAttr
    BY CallFields DEF PutHost
  <1>2. /\ hostList' = Put(hostList, c.name, c.value) /\ UNCHANGED serviceList
        /\ heapAnswer' = Answer(c, TRUE, {})
    BY <1>1, HostRow DEF PutHost, Reply
  <1>3. /\ HeapInv'
        /\ HostTable' = [HostTable EXCEPT ![c.name] = c.value] /\ ServiceTable' = ServiceTable
    BY <1>1, <1>2, PutHostRow
  <1>4. ServiceTable' = HeapR!ServicesAfter(c) /\ HostTable' = HeapR!HostsAfter(c)
    BY <1>1, <1>3 DEF HeapR!ServicesAfter, HeapR!HostsAfter, ServiceTable, HostTable
  <1>5. ~HeapR!Refused(c) /\ HeapR!Succeeds(c) = TRUE /\ HeapR!Selected(c) = {}
    BY <1>1 DEF HeapR!Refused, HeapR!Succeeds, HeapR!Selected
  <1>. QED
    BY <1>2, <1>3, <1>4, <1>5, Performed

LEMMA PutServiceStep ==
    ASSUME HeapInv, NEW c \in Calls, PutService(c)
    PROVE  HeapInv' /\ HeapR!Perform(c)
  <1>1. c.op = "PutService" /\ c.name \in Services /\ c.value \in Service
    BY CallFields DEF PutService
  <1>2. /\ serviceList' = Put(serviceList, c.name, c.value) /\ UNCHANGED hostList
        /\ heapAnswer' = Answer(c, TRUE, {})
    BY <1>1, ServiceRow DEF PutService, Reply
  <1>3. /\ HeapInv'
        /\ ServiceTable' = [ServiceTable EXCEPT ![c.name] = c.value] /\ HostTable' = HostTable
    BY <1>1, <1>2, PutServiceRow
  <1>4. ServiceTable' = HeapR!ServicesAfter(c) /\ HostTable' = HeapR!HostsAfter(c)
    BY <1>1, <1>3 DEF HeapR!ServicesAfter, HeapR!HostsAfter, ServiceTable, HostTable
  <1>5. ~HeapR!Refused(c) /\ HeapR!Succeeds(c) = TRUE /\ HeapR!Selected(c) = {}
    BY <1>1 DEF HeapR!Refused, HeapR!Succeeds, HeapR!Selected
  <1>. QED
    BY <1>2, <1>3, <1>4, <1>5, Performed

LEMMA DeleteHostStep ==
    ASSUME HeapInv, NEW c \in Calls, DeleteHost(c)
    PROVE  HeapInv' /\ HeapR!Perform(c)
  <1>1. c.op = "DeleteHost" /\ c.name \in Hosts
    BY CallFields DEF DeleteHost
  <1>2. /\ hostList' = Delete(hostList, c.name) /\ UNCHANGED serviceList
        /\ heapAnswer' = Answer(c, HostTable[c.name] # None, {})
    BY <1>1, HostRow DEF DeleteHost, Reply
  <1>3. /\ HeapInv'
        /\ HostTable' = [HostTable EXCEPT ![c.name] = None] /\ ServiceTable' = ServiceTable
    BY <1>1, <1>2, Records, DeleteRow DEF HeapInv, ServiceTable, HostTable
  <1>4. ServiceTable' = HeapR!ServicesAfter(c) /\ HostTable' = HeapR!HostsAfter(c)
    BY <1>1, <1>3 DEF HeapR!ServicesAfter, HeapR!HostsAfter, ServiceTable, HostTable
  <1>5. /\ ~HeapR!Refused(c) /\ HeapR!Selected(c) = {}
        /\ HeapR!Succeeds(c) = (HostTable[c.name] # None)
    BY <1>1 DEF HeapR!Refused, HeapR!Succeeds, HeapR!Selected, HostTable
  <1>. QED
    BY <1>2, <1>3, <1>4, <1>5, Performed

LEMMA DeleteServiceStep ==
    ASSUME HeapInv, NEW c \in Calls, DeleteService(c)
    PROVE  HeapInv' /\ HeapR!Perform(c)
  <1>1. c.op = "DeleteService" /\ c.name \in Services
    BY CallFields DEF DeleteService
  <1>2. /\ serviceList' = Delete(serviceList, c.name) /\ UNCHANGED hostList
        /\ heapAnswer' = Answer(c, ServiceTable[c.name] # None, {})
    BY <1>1, ServiceRow DEF DeleteService, Reply
  <1>3. /\ HeapInv'
        /\ ServiceTable' = [ServiceTable EXCEPT ![c.name] = None] /\ HostTable' = HostTable
    BY <1>1, <1>2, Records, DeleteRow DEF HeapInv, ServiceTable, HostTable
  <1>4. ServiceTable' = HeapR!ServicesAfter(c) /\ HostTable' = HeapR!HostsAfter(c)
    BY <1>1, <1>3 DEF HeapR!ServicesAfter, HeapR!HostsAfter, ServiceTable, HostTable
  <1>5. /\ ~HeapR!Refused(c) /\ HeapR!Selected(c) = {}
        /\ HeapR!Succeeds(c) = (ServiceTable[c.name] # None)
    BY <1>1 DEF HeapR!Refused, HeapR!Succeeds, HeapR!Selected, HeapR!Known, ServiceTable
  <1>. QED
    BY <1>2, <1>3, <1>4, <1>5, Performed

LEMMA AddServiceDependencyStep ==
    ASSUME HeapInv, NEW c \in Calls, AddServiceDependency(c)
    PROVE  HeapInv' /\ HeapR!Perform(c)
  <1> DEFINE svc == ServiceTable[c.name]
             new == [AppendDependent(svc, c.depend) EXCEPT !.version = c.version]
  <1>1. /\ c.op = "AddServiceDependency" /\ c.name \in Services
        /\ c.depend \in Dependency /\ c.version \in Nat
    BY CallFields DEF AddServiceDependency
  <1>2. HeapR!Appends(c) = (svc # None /\ CanAppendDependent(svc, c.depend))
    BY DEF HeapR!Appends, HeapR!Known, HeapR!CanAppendDependent, CanAppendDependent, ServiceTable
  <1>3. CASE HeapR!Appends(c)
    <2>1. svc # None /\ CanAppendDependent(svc, c.depend)
      BY <1>2, <1>3
    <2>2. Unique(serviceList, c.name) /\ Get(serviceList, c.name) = svc /\ svc \in Service
      BY <1>1, <2>1, ServiceRow
    <2>. HIDE DEF svc
    <2>3. /\ serviceList' = Put(serviceList, c.name, new) /\ UNCHANGED hostList
          /\ heapAnswer' = Answer(c, TRUE, {})
      BY <2>1, <2>2 DEF AddServiceDependency, Reply
    <2>4. new \in Service
      BY <1>1, <2>2 DEF Service, AppendDependent
    <2>. HIDE DEF new
    <2>5. /\ HeapInv'
          /\ ServiceTable' = [ServiceTable EXCEPT ![c.name] = new] /\ HostTable' = HostTable
      BY <1>1, <2>3, <2>4, PutServiceRow
    <2>6. HeapR!HostsAfter(c) = HostTable
      BY <1>1 DEF HeapR!HostsAfter, HostTable
    <2>7. HeapR!ServicesAfter(c) = [ServiceTable EXCEPT ![c.name] = new]
      BY <1>1, <1>3 DEF HeapR!ServicesAfter, HeapR!AppendDependent, AppendDependent, ServiceTable, new, svc
    <2>8. ~HeapR!Refused(c) /\ HeapR!Succeeds(c) = TRUE /\ HeapR!Selected(c) = {}
      BY <1>1, <1>3 DEF HeapR!Refused, HeapR!Succeeds, HeapR!Selected
    <2>. QED
      BY <2>3, <2>5, <2>6, <2>7, <2>8, Performed
  <1>4. CASE ~HeapR!Appends(c)
    <2>1. ~(Unique(serviceList, c.name) /\ CanAppendDependent(Get(serviceList, c.name), c.depend))
      BY <1>1, <1>2, <1>4, ServiceRow
    <2>2. UNCHANGED <<serviceList, hostList>> /\ heapAnswer' = Failure(c)
      BY <2>1 DEF AddServiceDependency, Refuse
    <2>3. HeapR!ServicesAfter(c) = ServiceTable /\ HeapR!HostsAfter(c) = HostTable
      BY <1>1, <1>4 DEF HeapR!ServicesAfter, HeapR!HostsAfter, ServiceTable, HostTable
    <2>4. HeapR!Refused(c)
      BY <1>1, <1>4 DEF HeapR!Refused
    <2>. QED
      BY <2>2, <2>3, <2>4, ListsKept, Performed
  <1>. QED
    BY <1>3, <1>4

LEMMA RemoveServiceDependencyStep ==
    ASSUME HeapInv, NEW c \in Calls, RemoveServiceDependency(c)
    PROVE  HeapInv' /\ HeapR!Perform(c)
  <1> DEFINE svc == ServiceTable[c.name]
             new == [RemoveDependent(svc, c.depend) EXCEPT !.version = c.version]
  <1>1. /\ c.op = "RemoveServiceDependency" /\ c.name \in Services
        /\ c.depend \in Services /\ c.version \in Nat
    BY CallFields DEF RemoveServiceDependency
  <1>2. HeapR!Known(c) = (svc # None)
    BY DEF HeapR!Known, ServiceTable
  <1>3. ~HeapR!Refused(c) /\ HeapR!Selected(c) = {}
    BY <1>1 DEF HeapR!Refused, HeapR!Selected
  <1>4. HeapR!Succeeds(c) = (svc # None /\ RefersTo(svc, c.depend))
    BY <1>1, <1>2 DEF HeapR!Succeeds, HeapR!RefersTo, RefersTo, ServiceTable
  <1>5. HeapR!HostsAfter(c) = HostTable
    BY <1>1 DEF HeapR!HostsAfter, HostTable
  <1>6. CASE svc # None
    <2>1. Unique(serviceList, c.name) /\ Get(serviceList, c.name) = svc /\ svc \in Service
      BY <1>1, <1>6, ServiceRow
    <2>. HIDE DEF svc
    <2>2. /\ serviceList' = Put(serviceList, c.name, new) /\ UNCHANGED hostList
          /\ heapAnswer' = Answer(c, RefersTo(svc, c.depend), {})
      BY <2>1 DEF RemoveServiceDependency, Reply
    <2>3. new \in Service
      BY <1>1, <2>1 DEF Service, RemoveDependent
    <2>4. RefersTo(svc, c.depend) = HeapR!Succeeds(c)
      BY <1>4, <1>6 DEF RefersTo
    <2>. HIDE DEF new
    <2>5. /\ HeapInv'
          /\ ServiceTable' = [ServiceTable EXCEPT ![c.name] = new] /\ HostTable' = HostTable
      BY <1>1, <2>2, <2>3, PutServiceRow
    <2>6. HeapR!ServicesAfter(c) = [ServiceTable EXCEPT ![c.name] = new]
      BY <1>1, <1>2, <1>6 DEF HeapR!ServicesAfter, HeapR!RemoveDependent, RemoveDependent, ServiceTable, new, svc
    <2>. QED
      BY <1>3, <1>5, <2>2, <2>4, <2>5, <2>6, Performed
  <1>7. CASE svc = None
    <2>1. ~Unique(serviceList, c.name) /\ ~Duplicate(serviceList, c.name)
      BY <1>1, <1>7, ServiceRow
    <2>2. UNCHANGED <<serviceList, hostList>> /\ heapAnswer' = Answer(c, FALSE, {})
      BY <2>1 DEF RemoveServiceDependency, Reply
    <2>3. HeapR!ServicesAfter(c) = ServiceTable
      BY <1>1, <1>2, <1>7 DEF HeapR!ServicesAfter, ServiceTable
    <2>4. HeapR!Succeeds(c) = FALSE
      BY <1>4, <1>7
    <2>. QED
      BY <1>3, <1>5, <2>2, <2>3, <2>4, ListsKept, Performed
  <1>. QED
    BY <1>6, <1>7

-----------------------------------------------------------------------------
(* The methods that read. *)

LEMMA ReadPerformed ==
    ASSUME HeapInv, NEW c, UNCHANGED <<serviceList, hostList>>,
           c.op \notin {"PutHost", "PutService", "DeleteHost", "DeleteService",
                       "AddServiceDependency", "RemoveServiceDependency"},
           heapAnswer' = IF HeapR!Refused(c) THEN Failure(c)
                         ELSE Answer(c, HeapR!Succeeds(c), HeapR!Selected(c))
    PROVE  HeapInv' /\ HeapR!Perform(c)
  <1>1. /\ HeapInv' /\ ServiceTable' = ServiceTable /\ HostTable' = HostTable
        /\ HeapR!ServicesAfter(c) = ServiceTable /\ HeapR!HostsAfter(c) = HostTable
    BY ListsKept, NothingWritten
  <1>. QED
    BY <1>1, Performed

(* The rows of a selection by name. *)
LEMMA FilteredHost ==
    ASSUME HeapInv, NEW h \in Hosts
    PROVE  {hostList[i] : i \in Filtered(hostList, h)}
              = IF HostTable[h] # None THEN {Row(h, HostTable[h])} ELSE {}
  <1>1. OneRowEach(hostList, Hosts, HostAttr)
    BY DEF HeapInv
  <1>2. CASE HostTable[h] # None
    <2>1. PICK i \in DOMAIN hostList : hostList[i].name = h
      BY <1>1, <1>2, HostRow, FilteredOne
    <2>2. Filtered(hostList, h) = {i}
      BY <1>1, <2>1, FilteredOne
    <2>3. hostList[i] = Row(h, HostTable[h])
      BY <1>1, <2>1, RowType, TableHit DEF HostTable
    <2>. QED
      BY <1>2, <2>2, <2>3
  <1>3. CASE HostTable[h] = None
    <2>1. Filtered(hostList, h) = {}
      BY <1>3, HostRow DEF Duplicate, Missing
    <2>. QED
      BY <1>3, <2>1
  <1>. QED
    BY <1>2, <1>3

LEMMA FilteredService ==
    ASSUME HeapInv, NEW s \in Services
    PROVE  {serviceList[i] : i \in Filtered(serviceList, s)}
              = IF ServiceTable[s] # None THEN {Row(s, ServiceTable[s])} ELSE {}
  <1>1. OneRowEach(serviceList, Services, Service)
    BY DEF HeapInv
  <1>2. CASE ServiceTable[s] # None
    <2>1. PICK i \in DOMAIN serviceList : serviceList[i].name = s
      BY <1>1, <1>2, ServiceRow, FilteredOne
    <2>2. Filtered(serviceList, s) = {i}
      BY <1>1, <2>1, FilteredOne
    <2>3. serviceList[i] = Row(s, ServiceTable[s])
      BY <1>1, <2>1, RowType, TableHit DEF ServiceTable
    <2>. QED
      BY <1>2, <2>2, <2>3
  <1>3. CASE ServiceTable[s] = None
    <2>1. Filtered(serviceList, s) = {}
      BY <1>3, ServiceRow DEF Duplicate, Missing
    <2>. QED
      BY <1>3, <2>1
  <1>. QED
    BY <1>2, <1>3

LEMMA SelectHostByNameStep ==
    ASSUME HeapInv, NEW c \in Calls, SelectHostByName(c), UNCHANGED <<serviceList, hostList>>
    PROVE  HeapInv' /\ HeapR!Perform(c)
  <1> DEFINE rows == {hostList[i] : i \in Filtered(hostList, c.name)}
             row == HostTable[c.name]
  <1>1. c.op = "SelectHostByName" /\ c.name \in Hosts
    BY CallFields DEF SelectHostByName
  <1>2. heapAnswer' = Answer(c, row # None, rows)
    BY <1>1, HostRow DEF SelectHostByName, SelectByName, Reply
  <1>3. ~HeapR!Refused(c) /\ HeapR!Succeeds(c) = (row # None)
    BY <1>1 DEF HeapR!Refused, HeapR!Succeeds, HostTable
  <1>4. HeapR!Selected(c) = {HeapR!Row(n, HostTable[n]) : n \in {c.name} \cap HeapR!Present(HostTable)}
    BY <1>1 DEF HeapR!Selected, HeapR!RowsOf, HostTable
  <1>5. HeapR!Present(HostTable) = {x \in Hosts : HostTable[x] # None}
    BY DEF HeapR!Present, HostTable, TableOf
  <1>6. HeapR!Selected(c) = rows
    <2>1. CASE row # None
      <3>1. rows = {Row(c.name, row)}
        BY <1>1, <2>1, FilteredHost
      <3>2. {c.name} \cap HeapR!Present(HostTable) = {c.name}
        BY <1>1, <1>5, <2>1
      <3>. QED
        BY <1>4, <3>1, <3>2 DEF Row, HeapR!Row
    <2>2. CASE row = None
      <3>1. rows = {}
        BY <1>1, <2>2, FilteredHost
      <3>2. {c.name} \cap HeapR!Present(HostTable) = {}
        BY <1>1, <1>5, <2>2
      <3>. QED
        BY <1>4, <3>1, <3>2
    <2>. QED
      BY <2>1, <2>2
  <1>. QED
    BY <1>1, <1>2, <1>3, <1>6, ReadPerformed

LEMMA SelectServiceByNameStep ==
    ASSUME HeapInv, NEW c \in Calls, SelectServiceByName(c), UNCHANGED <<serviceList, hostList>>
    PROVE  HeapInv' /\ HeapR!Perform(c)
  <1> DEFINE rows == {serviceList[i] : i \in Filtered(serviceList, c.name)}
             row == ServiceTable[c.name]
  <1>1. c.op = "SelectServiceByName" /\ c.name \in Services
    BY CallFields DEF SelectServiceByName
  <1>2. heapAnswer' = Answer(c, row # None, rows)
    BY <1>1, ServiceRow DEF SelectServiceByName, SelectByName, Reply
  <1>3. ~HeapR!Refused(c) /\ HeapR!Succeeds(c) = (row # None)
    BY <1>1 DEF HeapR!Refused, HeapR!Succeeds, HeapR!Known, ServiceTable
  <1>4. HeapR!Selected(c) = {HeapR!Row(n, ServiceTable[n]) : n \in {c.name} \cap HeapR!Present(ServiceTable)}
    BY <1>1 DEF HeapR!Selected, HeapR!RowsOf, ServiceTable
  <1>5. HeapR!Present(ServiceTable) = {x \in Services : ServiceTable[x] # None}
    BY DEF HeapR!Present, ServiceTable, TableOf
  <1>6. HeapR!Selected(c) = rows
    <2>1. CASE row # None
      <3>1. rows = {Row(c.name, row)}
        BY <1>1, <2>1, FilteredService
      <3>2. {c.name} \cap HeapR!Present(ServiceTable) = {c.name}
        BY <1>1, <1>5, <2>1
      <3>. QED
        BY <1>4, <3>1, <3>2 DEF Row, HeapR!Row
    <2>2. CASE row = None
      <3>1. rows = {}
        BY <1>1, <2>2, FilteredService
      <3>2. {c.name} \cap HeapR!Present(ServiceTable) = {}
        BY <1>1, <1>5, <2>2
      <3>. QED
        BY <1>4, <3>1, <3>2
    <2>. QED
      BY <2>1, <2>2
  <1>. QED
    BY <1>1, <1>2, <1>3, <1>6, ReadPerformed

(* The two lists, whole. *)
LEMMA ListRows ==
    ASSUME HeapInv
    PROVE  /\ Names(hostList) = HeapR!Present(HostTable)
           /\ Names(serviceList) = HeapR!Present(ServiceTable)
           /\ Elements(hostList) = HeapR!RowsOf(HostTable, Hosts)
           /\ Elements(serviceList) = HeapR!RowsOf(ServiceTable, Services)
  <1>1. DOMAIN HostTable = Hosts /\ DOMAIN ServiceTable = Services
    BY DEF HostTable, ServiceTable, TableOf
  <1>2. /\ Names(hostList) = {h \in Hosts : HostTable[h] # None}
        /\ Elements(hostList) = {Row(n, HostTable[n]) : n \in {h \in Hosts : HostTable[h] # None}}
    BY Records, AllRows DEF HeapInv, HostTable
  <1>3. /\ Names(serviceList) = {s \in Services : ServiceTable[s] # None}
        /\ Elements(serviceList)
              = {Row(n, ServiceTable[n]) : n \in {s \in Services : ServiceTable[s] # None}}
    <2>1. OneRowEach(serviceList, Services, Service)
      BY DEF HeapInv
    <2>. QED
      BY <2>1, Records, AllRows DEF ServiceTable
  <1>4. /\ HeapR!Present(HostTable) = {h \in Hosts : HostTable[h] # None}
        /\ HeapR!Present(ServiceTable) = {s \in Services : ServiceTable[s] # None}
    BY <1>1 DEF HeapR!Present
  <1>5. /\ HeapR!RowsOf(HostTable, Hosts) = {Row(n, HostTable[n]) : n \in {h \in Hosts : HostTable[h] # None}}
        /\ HeapR!RowsOf(ServiceTable, Services)
              = {Row(n, ServiceTable[n]) : n \in {s \in Services : ServiceTable[s] # None}}
    <2>1. /\ Hosts \cap HeapR!Present(HostTable) = {h \in Hosts : HostTable[h] # None}
          /\ Services \cap HeapR!Present(ServiceTable) = {s \in Services : ServiceTable[s] # None}
      BY <1>4
    <2>. QED
      BY <2>1 DEF HeapR!RowsOf, HeapR!Row, Row
  <1>. QED
    BY <1>2, <1>3, <1>4, <1>5

LEMMA SelectAllNamesStep ==
    ASSUME HeapInv, NEW c \in Calls, SelectAllNames(c), UNCHANGED <<serviceList, hostList>>
    PROVE  HeapInv' /\ HeapR!Perform(c)
  <1>1. c.op \in {"SelectAllHostNames", "SelectAllServiceNames"}
    BY DEF SelectAllNames
  <1>2. ~HeapR!Refused(c) /\ HeapR!Succeeds(c) = TRUE
    BY <1>1 DEF HeapR!Refused, HeapR!Succeeds
  <1>3. heapAnswer' = Answer(c, TRUE, HeapR!Selected(c))
    <2>1. CASE c.op = "SelectAllHostNames"
      <3>1. HeapR!Selected(c) = HeapR!Present(HostTable)
        BY <2>1 DEF HeapR!Selected, HostTable
      <3>. QED
        BY <2>1, <3>1, ListRows DEF SelectAllNames, Reply
    <2>2. CASE c.op = "SelectAllServiceNames"
      <3>1. HeapR!Selected(c) = HeapR!Present(ServiceTable)
        BY <2>2 DEF HeapR!Selected, ServiceTable
      <3>. QED
        BY <2>2, <3>1, ListRows DEF SelectAllNames, Reply
    <2>. QED
      BY <1>1, <2>1, <2>2
  <1>. QED
    BY <1>1, <1>2, <1>3, ReadPerformed

LEMMA SelectAllStep ==
    ASSUME HeapInv, NEW c \in Calls, SelectAll(c), UNCHANGED <<serviceList, hostList>>
    PROVE  HeapInv' /\ HeapR!Perform(c)
  <1>1. c.op \in {"SelectAllHosts", "SelectAllServices"}
    BY DEF SelectAll
  <1>2. ~HeapR!Refused(c) /\ HeapR!Succeeds(c) = TRUE
    BY <1>1 DEF HeapR!Refused, HeapR!Succeeds
  <1>3. heapAnswer' = Answer(c, TRUE, HeapR!Selected(c))
    <2>1. CASE c.op = "SelectAllHosts"
      <3>1. HeapR!Selected(c) = HeapR!RowsOf(HostTable, Hosts)
        BY <2>1 DEF HeapR!Selected, HostTable
      <3>. QED
        BY <2>1, <3>1, ListRows DEF SelectAll, Reply
    <2>2. CASE c.op = "SelectAllServices"
      <3>1. HeapR!Selected(c) = HeapR!RowsOf(ServiceTable, Services)
        BY <2>2 DEF HeapR!Selected, ServiceTable
      <3>. QED
        BY <2>2, <3>1, ListRows DEF SelectAll, Reply
    <2>. QED
      BY <1>1, <2>1, <2>2
  <1>. QED
    BY <1>1, <1>2, <1>3, ReadPerformed

LEMMA SelectHostsOfServiceStep ==
    ASSUME HeapInv, NEW c \in Calls, SelectHostsOfService(c), UNCHANGED <<serviceList, hostList>>
    PROVE  HeapInv' /\ HeapR!Perform(c)
  <1> DEFINE svc == ServiceTable[c.name]
  <1>1. c.op = "SelectHostsOfService" /\ c.name \in Services
    BY CallFields DEF SelectHostsOfService
  <1>2. HeapR!Refused(c) = (svc = None)
    BY <1>1 DEF HeapR!Refused, HeapR!Known, ServiceTable
  <1>3. CASE svc = None
    <2>1. heapAnswer' = Failure(c)
      BY <1>1, <1>3, ServiceRow DEF SelectHostsOfService, Refuse
    <2>. QED
      BY <1>1, <1>2, <1>3, <2>1, ReadPerformed
  <1>4. CASE svc # None
    <2>1. Unique(serviceList, c.name) /\ Get(serviceList, c.name) = svc /\ svc \in Service
      BY <1>1, <1>4, ServiceRow
    <2>2. Listed(svc) \subseteq Hosts
      <3>1. svc.hosts \in Seq(Hosts)
        BY <2>1 DEF Service
      <3>. QED
        BY <3>1, ElementOfSeq, LenProperties DEF Listed
    <2>3. HeapR!Succeeds(c) = TRUE /\ HeapR!Selected(c) = HeapR!RowsOf(HostTable, HeapR!Listed(svc))
      BY <1>1 DEF HeapR!Succeeds, HeapR!Selected, ServiceTable, HostTable
    <2>4. HeapR!Listed(svc) = Listed(svc)
      BY DEF HeapR!Listed, Listed
    <2>. HIDE DEF svc
    <2>5. \A h \in Listed(svc) : /\ ~Duplicate(hostList, h)
                                 /\ Unique(hostList, h) = (HostTable[h] # None)
                                 /\ Unique(hostList, h) => Get(hostList, h) = HostTable[h]
      BY <2>2, HostRow
    <2> DEFINE present == {h \in Listed(svc) : Unique(hostList, h)}
    <2>6. heapAnswer' = Answer(c, TRUE, {Row(h, Get(hostList, h)) : h \in present})
      BY <2>1, <2>5 DEF SelectHostsOfService, Reply
    <2>7. present = Listed(svc) \cap HeapR!Present(HostTable)
      <3>1. HeapR!Present(HostTable) = {h \in Hosts : HostTable[h] # None}
        BY DEF HeapR!Present, HostTable, TableOf
      <3>. QED
        BY <2>2, <2>5, <3>1
    <2>8. \A h \in present : Row(h, Get(hostList, h)) = HeapR!Row(h, HostTable[h])
      BY <2>5 DEF Row, HeapR!Row
    <2>. HIDE DEF present
    <2>9. {Row(h, Get(hostList, h)) : h \in present} = {HeapR!Row(h, HostTable[h]) : h \in present}
      BY <2>8
    <2>10. HeapR!RowsOf(HostTable, Listed(svc)) = {HeapR!Row(h, HostTable[h]) : h \in present}
      BY <2>7 DEF HeapR!RowsOf
    <2>. QED
      BY <1>1, <1>2, <1>4, <2>3, <2>4, <2>6, <2>9, <2>10, ReadPerformed DEF svc
  <1>. QED
    BY <1>3, <1>4

LEMMA SelectReferringServiceNamesToStep ==
    ASSUME HeapInv, NEW c \in Calls, SelectReferringServiceNamesTo(c),
           UNCHANGED <<serviceList, hostList>>
    PROVE  HeapInv' /\ HeapR!Perform(c)
  <1>1. c.op = "SelectReferringServiceNamesTo"
    BY DEF SelectReferringServiceNamesTo
  <1>2. ~HeapR!Refused(c) /\ HeapR!Succeeds(c) = TRUE
    BY <1>1 DEF HeapR!Refused, HeapR!Succeeds
  <1> DEFINE present == {s \in Services : ServiceTable[s] # None}
             rows == {y \in Elements(serviceList) : RefersTo(y.value, c.name)}
  <1>3. HeapR!Selected(c) = {s \in present : RefersTo(ServiceTable[s], c.name)}
    <2>1. HeapR!Selected(c) = {s \in HeapR!Present(ServiceTable) : HeapR!RefersTo(ServiceTable[s], c.name)}
      BY <1>1 DEF HeapR!Selected, ServiceTable
    <2>2. HeapR!Present(ServiceTable) = present
      BY DEF HeapR!Present, ServiceTable, TableOf
    <2>. QED
      BY <2>1, <2>2 DEF HeapR!RefersTo, RefersTo
  <1>4. Elements(serviceList) = {Row(n, ServiceTable[n]) : n \in present}
    BY Records, AllRows DEF HeapInv, ServiceTable
  <1>. HIDE DEF present
  <1>5. {x.name : x \in rows} = {s \in present : RefersTo(ServiceTable[s], c.name)}
    <2>1. \A n \in present : Row(n, ServiceTable[n]).name = n /\ Row(n, ServiceTable[n]).value = ServiceTable[n]
      BY DEF Row
    <2>2. \A x \in rows : x.name \in present /\ RefersTo(ServiceTable[x.name], c.name)
      BY <1>4, <2>1
    <2>3. \A s \in present : RefersTo(ServiceTable[s], c.name) => \E x \in rows : x.name = s
      BY <1>4, <2>1
    <2>. HIDE DEF rows
    <2>. QED
      BY <2>2, <2>3
  <1>6. heapAnswer' = Answer(c, TRUE, HeapR!Selected(c))
    BY <1>3, <1>5 DEF SelectReferringServiceNamesTo, Reply
  <1>. QED
    BY <1>1, <1>2, <1>6, ReadPerformed

-----------------------------------------------------------------------------
LEMMA InitRefines ==
    ASSUME HeapInit
    PROVE  HeapInv /\ HeapR!RepoInit
  <1>1. serviceList = <<>> /\ hostList = <<>> /\ heapAnswer = NoAnswer
    BY DEF HeapInit
  <1>2. HeapInv
    BY <1>1, EmptySeq DEF HeapInv, OneRowEach
  <1>3. /\ TableOf(serviceList, Services) = [s \in Services |-> None]
        /\ TableOf(hostList, Hosts) = [h \in Hosts |-> None]
    BY <1>1 DEF TableOf
  <1>. QED
    BY <1>1, <1>2, <1>3 DEF HeapR!RepoInit, HeapR!NoAnswer, NoAnswer

LEMMA StepRefines ==
    ASSUME HeapInv, [HeapNext]_heapVars
    PROVE  HeapInv' /\ [HeapR!RepoNext]_HeapR!repoVars
  <1>1. ASSUME NEW c \in Calls, HeapReads(c)
        PROVE  HeapInv' /\ HeapR!Perform(c)
    BY <1>1, SelectHostByNameStep, SelectServiceByNameStep, SelectAllNamesStep, SelectAllStep,
       SelectHostsOfServiceStep, SelectReferringServiceNamesToStep DEF HeapReads
  <1>2. ASSUME NEW c \in Calls, HeapWrites(c)
        PROVE  HeapInv' /\ HeapR!Perform(c)
    BY <1>2, PutHostStep, PutServiceStep, DeleteHostStep, DeleteServiceStep,
       AddServiceDependencyStep, RemoveServiceDependencyStep DEF HeapWrites
  <1>3. CASE HeapNext
    BY <1>1, <1>2, <1>3 DEF HeapNext, HeapR!RepoNext
  <1>4. CASE UNCHANGED heapVars
    <2>1. UNCHANGED <<serviceList, hostList, heapAnswer>>
      BY <1>4 DEF heapVars
    <2>. QED
      BY <2>1, ListsKept DEF HeapR!repoVars, HeapR!tables, ServiceTable, HostTable
  <1>. QED
    BY <1>3, <1>4

(* Every method of the in-memory repository changes the tables and answers *)
(* as the interface promises, for every sequence of calls: no name ever    *)
(* gets a second row, so no call fails for a duplicate.                    *)
THEOREM HeapRefines == HeapSpec => HeapImplementsRepository
  <1>1. HeapInit => HeapInv /\ HeapR!RepoInit
    BY InitRefines
  <1>2. HeapInv /\ [HeapNext]_heapVars => HeapInv' /\ [HeapR!RepoNext]_HeapR!repoVars
    BY StepRefines
  <1>. QED
    BY <1>1, <1>2, PTL DEF HeapSpec, HeapImplementsRepository, HeapR!RepoSpec
=============================================================================
