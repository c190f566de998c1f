------------------------------ MODULE MCTiming ------------------------------
(***************************************************************************)
(* Small instances of the parts that carry time and bytes between a client *)
(* and its server: Clocks, Arrival, InputPath, LiveFrames and SchemaCodec. *)
(* They share no state, so a behaviour takes the steps of one of them.     *)
(***************************************************************************)
EXTENDS Clocks, LiveFrames, TLC

CONSTANTS Parts

VARIABLES part, finalizedTick, targets, counted, arrival, feedback, sentThrough, known,
          seen, moment, fixed, panel, trigger, feed, outbox, menu, hosted, committed,
          inputSeen, authored, offered, spent, registry, wire

arrivalVars == <<finalizedTick, targets, counted, arrival, feedback, sentThrough, known,
  seen>>
inputVars == <<moment, fixed, panel, trigger, feed, outbox, menu, hosted, committed,
  inputSeen, authored, offered, spent>>
schemaVars == <<registry, wire>>

Of(kind, parts) == [kind |-> kind, parts |-> parts]
Times(n, row) == [i \in 1..n |-> row]

ScopeAt(e, index) == <<e, index, 1, 1, 1>>
ReceiptAt(e) == ScopeAt(e, 0) \o <<1, 2, 2>>
ContextAt(e) == ScopeAt(e, 0) \o <<1, 1, 1, 1>>
ProofAt(e) == ReceiptAt(e) \o ContextAt(e) \o <<1, 2, 2, 9>>
KeyAt(e, slot) == <<e, 1, 1, slot>>
\* Accepted with everything, and rejected with nothing.
Hit(e)  == <<1>> \o KeyAt(e, 7) \o <<9, Accepted, 1, 9, 5, 1, 3, 5, 1, 3>>
Miss(e) == <<2>> \o KeyAt(e, 0) \o <<9, 2, 1, 0, 0, 0, 0, 0, 0, 0>>
Receipts(n) == [i \in 1..n |-> <<i + 3, i, 0>>]

\* Every kind, the collections at their bounds.
MCControls(side, e) ==
  IF side = "client"
  THEN {Of("FinalizedAck", <<<<<<1>>>>>>), Of("OutcomesAck", <<<<<<1>>>>>>),
        Of("OutcomeLookup", <<Times(8, KeyAt(e, 7))>>), Of("Ready", <<<<<<1, 2, 3, 1>>>>>>),
        Of("Decoded", <<Times(12, ReceiptAt(e))>>), Of("OwnerDecoded", <<Times(Members, ProofAt(e))>>),
        Of("BaselineRetire", <<Times(Members, ContextAt(e) \o <<1, 2>>)>>),
        Of("BaselineRepair", <<Times(1, ContextAt(e) \o <<1>>)>>),
        Of("Exited", <<<<ScopeAt(e, 3)>>>>), Of("Destroyed", <<<<<<e, 0, 1>>>>>>),
        Of("Menu", <<<<<<1, 9, 1>>>>>>), Of("ClockProbe", <<<<<<0>>>>>>), Of("Resync", <<<<<<5>>>>>>)}
  ELSE {Of("ActionOutcomes", <<<<<<1>>>>, Times(4, Hit(e))>>), Of("ActionOutcomes", <<<<<<2>>>>, <<Miss(e)>>>>),
        Of("OutcomeUnavailable", <<Times(8, KeyAt(e, 0))>>),
        Of("BaselineRetired", <<Times(Members, ContextAt(e) \o <<1, 2>>)>>),
        Of("BaselineReset", <<Times(Members, ContextAt(e) \o <<2>>)>>),
        Of("Finalized", <<<<<<35>>>>, Receipts(32), <<<<4, 1, 2, 1>>>>>>),
        Of("Finalized", <<<<<<4>>>>, <<<<4, 0, 1>>>>, <<<<0, 0, 0, 0>>>>>>),
        Of("Active", <<<<<<1, 4>>>>>>), Of("Exit", <<<<ScopeAt(e, 3)>>>>), Of("Destroy", <<<<<<e, 0, 1>>>>>>),
        Of("ClockReply", <<<<<<0, 1, 1, 4>>>>>>), Of("Notice", <<<<<<512, 1>>>>>>)}

\* Commands with and without a beam sample and an action.
CommandAt(e, n, beam, action) ==
  <<1, e, 1, 0, 1, 1, n, n + 3, 1, beam, IF action = 0 THEN 0 ELSE 1, 0, action, IF action = 0 THEN 0 ELSE 1>>
MCPending(e) ==
  {<<CommandAt(e, 9, 0, 0)>>,
   [i \in 1..9 |-> CommandAt(e, 10 - i, 1, 3)],
   [i \in 1..9 |-> CommandAt(e, 10 - i, i % 2, 0)],
   <<CommandAt(e, 4, 1, 3), CommandAt(e, 3, 1, 3), CommandAt(e, 2, 1, 3), CommandAt(e, 1, 1, 0)>>}

StateAt(e, index, snapshot, bytes) ==
  [scope |-> <<e, index, 1, Septet, 1>>, id |-> <<1, snapshot, Septet - 1, Septet * Septet>>,
   payload |-> <<bytes, 0>>]
Member(e, index, delta, bytes) ==
  LET packet == [generation |-> 1, bytes |-> bytes,
                 base |-> IF delta THEN ScopeAt(e, index) \o <<1, 1, 1, 1, 1, 4, 2, 8>> ELSE <<>>]
  IN [scope |-> ScopeAt(e, index), id |-> <<1, 5, 2, 9>>, payload |-> <<MemberSize(packet), packet>>]
MCStates(e) ==
  {Kind("full", StateAt(e, 0, 1, 0)), Kind("full", StateAt(e, Septet, Septet * Septet, 40)),
   Kind("group", [publication |-> <<e, 1, 1, 5>>, tick |-> 9,
                  members |-> [i \in 1..Members |-> Member(e, i, i % 2 = 0, 1000)]]),
   Kind("group", [publication |-> <<e, 1, 1, 5>>, tick |-> 9,
                  members |-> [i \in 1..MinMembers |-> Member(e, i, FALSE, IF i = 1 THEN PayloadBytes ELSE 9)]])}

Radix    == 16
Unranged == <<>>
IntType  == [k |-> "int"]
Unit     == [k |-> "unit"]
Opt(t)   == [k |-> "opt", of |-> t]
Arr(t, n) == [k |-> "arr", of |-> t, n |-> n]
Vec(t, n) == [k |-> "vec", of |-> t, n |-> n]
Field(id, type, range, visibility, prediction) ==
  [id |-> id, type |-> type, range |-> range, visibility |-> visibility, prediction |-> prediction]
Rec(id, rep, fields, defaults) ==
  [k |-> "rec", id |-> id, version |-> 1, rep |-> rep, fields |-> fields, defaults |-> defaults]
Bit == <<0, 1>>

Inner   == Rec(2, 1, <<Field(1, IntType, Bit, 1, 2)>>, <<0>>)
Hidden  == Rec(2, 1, <<Field(1, IntType, Bit, 1, 0)>>, <<0>>)
Shown   == Rec(2, 0, <<Field(1, [k |-> "float"], Bit, 0, 0)>>, <<0>>)
Choice  == [k |-> "enum", of |-> (1 :> Unit @@ 3 :> Vec(Unit, 2))]
Name    == [k |-> "text", n |-> 2]

\* Several declarations of one schema, as two builds could have them.
MCDeclared(c) ==
  CASE c = "plain"    -> Rec(1, 0, <<Field(1, IntType, Bit, 0, 0), Field(2, Vec(IntType, 2), Bit, 0, 0)>>,
                             1 :> 0 @@ 2 :> <<>>)
    [] c = "reversed" -> Rec(1, 0, <<Field(2, Vec(IntType, 2), Bit, 0, 0), Field(1, IntType, Bit, 0, 0)>>,
                             1 :> 0 @@ 2 :> <<>>)
    [] c = "short"    -> Rec(1, 0, <<Field(1, IntType, Bit, 0, 0), Field(2, Vec(IntType, 1), Bit, 0, 0)>>,
                             1 :> 0 @@ 2 :> <<>>)
    [] c = "one"      -> Rec(1, 0, <<Field(1, Arr(IntType, 1), Bit, 0, 0)>>, 1 :> <<0>>)
    [] c = "two"      -> Rec(1, 0, <<Field(1, Arr(IntType, 2), Bit, 0, 0)>>, 1 :> <<0, 0>>)
    [] c = "lists"    -> Rec(1, 0, <<Field(1, Vec(Vec(IntType, 1), 2), Bit, 0, 0)>>, 1 :> <<>>)
    [] c = "owned"    -> Rec(1, 1, <<Field(1, Opt(Inner), Unranged, 1, 2)>>, 1 :> <<>>)
    [] c = "leak"     -> Rec(1, 0, <<Field(1, Opt(Hidden), Unranged, 0, 0)>>, 1 :> <<>>)
    [] c = "mixed"    -> Rec(1, 1, <<Field(1, Shown, Unranged, 0, 0), Field(3, Choice, Unranged, 1, 1)>>,
                             1 :> <<0>> @@ 3 :> <<1, "unit">>)
    [] c = "shown"    -> Shown
    [] c = "inner"    -> Inner
    [] c = "names"    -> Rec(3, 0, <<Field(1, Vec(Name, 2), Unranged, 0, 0)>>, 1 :> <<>>)

MCCandidates == {"plain", "reversed", "short", "one", "two", "lists", "owned", "leak", "mixed", "shown", "inner", "names"}

Room(nodes, items, bytes) ==
  [nodes |-> nodes, allocated |-> 6, items |-> items, text |-> 4, collection |-> 2, nesting |-> 3,
   fields |-> 2, wire |-> bytes, schemas |-> 2]

\* The client's limits are tight: it must refuse some declarations.
MCLimits == [p \in {"client", "server"} |-> IF p = "client" THEN Room(5, 4, 26) ELSE Room(9, 6, 40)]

RECURSIVE Values(_)
Values(t) ==
  CASE t.k = "int" -> {0, 1, 2}
    [] t.k = "float" -> {0, 1, Radix - 1}
    [] t.k = "unit" -> {"unit"}
    [] t.k \in {"text", "bytes"} -> UNION {[1..n -> {1}] : n \in 0..t.n}
    [] t.k = "opt" -> {<<>>} \cup {<<v>> : v \in Values(t.of)}
    [] t.k = "arr" -> [1..t.n -> Values(t.of)]
    [] t.k = "vec" -> UNION {[1..n -> Values(t.of)] : n \in 0..t.n}
    [] t.k = "enum" -> UNION {{<<id, v>> : v \in Values(t.of[id])} : id \in DOMAIN t.of}
    [] t.k = "rec" ->
         LET upTo[i \in 0..Len(t.fields)] ==
               IF i = 0 THEN {<<>>}
               ELSE {f @@ (t.fields[i].id :> v) : f \in upTo[i - 1], v \in Values(t.fields[i].type)}
         IN upTo[Len(t.fields)]

Reports == INSTANCE Arrival WITH
    FutureTicks <- 2, IssuedWindow <- 2, Batches <- 2,
    MaxTick <- 4, MaxSequence <- 4

Hands == INSTANCE InputPath WITH
    EdgeSlots <- 2, JournalRoom <- 2, BacklogRoom <- 2,
    FutureTicks <- 1, Redundancy <- 1, MaxMoment <- 2, MaxPresses <- 3, MaxKeys <- 1,
    MaxCommitted <- 1, MaxAhead <- 2, seen <- inputSeen

Schemas == INSTANCE SchemaCodec WITH
    Base <- Radix, Candidates <- MCCandidates,
    Declared <- MCDeclared, Samples <- Values, Limits <- MCLimits

ASSUME /\ Reports!ArrivalAssumption

\* The parts that a step of part p leaves alone.
OthersIdle(p) ==
  /\ UNCHANGED part
  /\ p # "clocks" => UNCHANGED clockVars
  /\ p # "arrival" => UNCHANGED arrivalVars
  /\ p # "input" => UNCHANGED inputVars
  /\ p # "frames" => UNCHANGED frameVars
  /\ p # "schema" => UNCHANGED schemaVars

PartsInit ==
  /\ part \in Parts
  /\ ClocksInit
  /\ Reports!ArrivalInit
  /\ Hands!InputInit
  /\ FramesInit
  /\ Schemas!CodecInit

PartsNext ==
  \/ part = "clocks" /\ ClocksNext /\ OthersIdle("clocks")
  \/ part = "arrival" /\ Reports!ArrivalNext /\ OthersIdle("arrival")
  \/ part = "input" /\ Hands!InputNext /\ OthersIdle("input")
  \/ part = "frames" /\ FramesNext /\ OthersIdle("frames")
  \/ part = "schema" /\ Schemas!CodecNext /\ OthersIdle("schema")

partsVars ==
  <<part, clockVars, arrivalVars, inputVars, frameVars, schemaVars>>
PartsSpec == PartsInit /\ [][PartsNext]_partsVars




=============================================================================
