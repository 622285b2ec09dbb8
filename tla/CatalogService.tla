--------------------------- MODULE CatalogService ---------------------------
(***************************************************************************)
(* What the core crate promises its host: each call is answered in one step *)
(* from the catalog and the pin store alone.  `verify` reports the drift of  *)
(* the catalog against the pins and writes nothing; `repin` replaces the     *)
(* pins and the catalog hash, or fails at the first bad descriptor.          *)
(***************************************************************************)
EXTENDS ToolCatalog

VARIABLES
    pins,        \* the pins between calls
    catalogHash, \* the catalog hash last recorded
    call,        \* the call being answered: "verify", "repin" or "none"
    catalog,     \* its argument, until the reply is taken
    reply        \* what the call returned, until the host takes it

vars == <<pins, catalogHash, call, catalog, reply>>

NoReply == [op |-> "none", result |-> "Ok", report |-> EmptyReport,
            observedHash |-> NoCatalogHash]

\* The error path of both operations: the report built so far is dropped.
Failed(op, error) == [NoReply EXCEPT !.op = op, !.result = error]

Init ==
    /\ pins = [n \in Name |-> NoPin]
    /\ catalogHash = NoCatalogHash
    /\ call = "none"
    /\ catalog = <<>>
    /\ reply = NoReply

Idle == call = "none" /\ reply = NoReply

Call(op, c) ==
    /\ call' = op
    /\ catalog' = c
    /\ UNCHANGED <<pins, catalogHash, reply>>

\* The host takes the reply before its next call.
TakeReply ==
    /\ call = "none" /\ reply # NoReply
    /\ reply' = NoReply
    /\ catalog' = <<>>
    /\ UNCHANGED <<pins, catalogHash, call>>

Verify ==
    /\ call = "verify"
    /\ call' = "none"
    /\ reply' = IF ResultOf(catalog) = "Ok"
                THEN [op |-> "verify", result |-> "Ok",
                      report |-> ReportOf(catalog, pins),
                      observedHash |-> CatalogHash(HashesIn(catalog))]
                ELSE Failed("verify", ResultOf(catalog))
    /\ UNCHANGED <<pins, catalogHash, catalog>>

Repin ==
    /\ call = "repin"
    /\ ResultOf(catalog) = "Ok"
    /\ call' = "none"
    /\ pins' = BaselineOf(catalog)
    /\ catalogHash' = CatalogHash(HashesIn(catalog))
    /\ reply' = [NoReply EXCEPT !.op = "repin"]
    /\ UNCHANGED catalog

\* An error in the middle keeps the pins written before it.
RepinFails ==
    /\ call = "repin"
    /\ ResultOf(catalog) # "Ok"
    /\ call' = "none"
    /\ pins' = PinnedOver(pins, catalog, Accepted(catalog))
    /\ reply' = Failed("repin", ResultOf(catalog))
    /\ UNCHANGED <<catalogHash, catalog>>

\* The host writes the store it owns without the help of `repin`.
Edit ==
    /\ \/ /\ \E n \in Name, h \in Hash \cup {NoPin} : pins' = [pins EXCEPT ![n] = h]
          /\ UNCHANGED catalogHash
       \/ /\ \E c \in Catalog : ResultOf(c) = "Ok" /\ catalogHash' = CatalogHash(HashesIn(c))
          /\ UNCHANGED pins
    /\ UNCHANGED <<call, catalog, reply>>

Next ==
    \/ Idle /\ (Edit \/ \E op \in {"verify", "repin"}, c \in Catalog : Call(op, c))
    \/ TakeReply
    \/ Verify
    \/ Repin
    \/ RepinFails

Spec == Init /\ [][Next]_vars
=============================================================================
