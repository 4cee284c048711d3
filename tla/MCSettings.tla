----------------------------- MODULE MCSettings -----------------------------
(***************************************************************************)
(* Settings with two function instances.  Each workload brings together    *)
(* requests that meet on a view or on the document; the others stay idle.  *)
(***************************************************************************)
EXTENDS Settings, TLC

CONSTANTS r1, r2, r3, r4, i1, i2, names, fees, bkash, courier

MCRequest == {r1, r2, r3, r4}
MCHost    == [r \in MCRequest |-> IF r \in {r1, r2} THEN i1 ELSE i2]

Jobs(warm, a, b, c, d) ==
  [warm |-> warm,
   job  |-> [r \in MCRequest |-> CASE r = r1 -> a [] r = r2 -> b [] r = r3 -> c [] OTHER -> d]]

Do(kind)  == [kind |-> kind, what |-> None]
Reads(v)  == [kind |-> "read", what |-> v]
Writes(s) == [kind |-> "write", what |-> s]

MCWorkload ==
  {Jobs({v}, Writes("category"), Reads(v), Writes("product"), Do("none")) :
     v \in {"products", "categories"}}
  \cup {Jobs({"product"}, Writes("stock"), Reads("product"), Reads("product"), Do("none"))}
  \cup {Jobs({v}, Writes("review"), Reads(v), Reads(v), Do("none")) : v \in {"reviews", "product"}}
  \cup {Jobs({"settings"}, Do("update"), Do("update"), Do("none"), Reads("settings"))}
  \cup {Jobs({}, Do("update"), Do(k), Do("rotate"), Do("none")) : k \in {"update", "rotate"}}
  \cup {Jobs({}, Do("update"), Do("update"), Do("backup"), Do("restore"))}
  \cup {Jobs({v}, Do("update"), Reads(v), Do("backup"), Do("restore")) : v \in {"products", "settings"}}

MCPatch ==
  [r \in MCRequest |->
     CASE r = r1 -> [sections |-> {names}, secrets |-> (bkash :> "set") @@ (courier :> "keep")]
       [] r = r2 -> [sections |-> {fees}, secrets |-> (bkash :> "keep") @@ (courier :> "clear")]
       [] OTHER  -> [sections |-> {names, fees},
                     secrets |-> (bkash :> "clear") @@ (courier :> "set")]]

MCInitial ==
  [exists |-> TRUE, version |-> 0, config |-> [s \in {names, fees} |-> "seed"],
   secrets |-> [s \in {bkash, courier} |-> [by |-> "seed", key |-> 1]]]

=============================================================================
