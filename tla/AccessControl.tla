---------------------------- MODULE AccessControl ----------------------------
(***************************************************************************)
(* The access list of core/acl/mod.rs.  An address is [family, bits] with  *)
(* family "v4", "v6" or "mapped" (an IPv4 address written as IPv6, as a    *)
(* dual-stack socket reports it); a rule's source is a prefix              *)
(* [family, bits, readable] where readable tells whether the text parses.  *)
(***************************************************************************)
EXTENDS Integers, Sequences, SequencesExt, Lists

Operations == {"read", "write"}

OperationsOf(words) ==
  IF "all" \in ToSet(words) THEN Operations ELSE ToSet(words) \cap Operations

\* A rule is kept when its action is known and its source can be read
Usable(r) == r.action \in {"allow", "deny"} /\ r.source.readable

\* AclEngine::new: an unknown mode disables the list
Engine(config) ==
  [mode  |-> IF config.mode \in {"whitelist", "blacklist"} THEN config.mode ELSE "disabled",
   rules |-> LET kept == Select(config.rules, {r \in ToSet(config.rules) : Usable(r)})
             IN  [i \in DOMAIN kept |-> [allow      |-> kept[i].action = "allow",
                                         source     |-> kept[i].source,
                                         operations |-> OperationsOf(kept[i].operations)]]]

Normalized(client) ==
  IF client.family = "mapped" THEN [client EXCEPT !.family = "v4"] ELSE client

\* IpNet::contains (external crate ipnet)
Covers(source, address) ==
  source.family = address.family /\ IsPrefix(source.bits, address.bits)

Matches(rule, client, op) == Covers(rule.source, Normalized(client)) /\ op \in rule.operations

\* A slip: the last match decides
MutCheck(engine, client, op) ==
  LET hits == {i \in DOMAIN engine.rules : Matches(engine.rules[i], client, op)}
  IN  CASE engine.mode = "disabled" -> TRUE
        [] engine.mode # "disabled" /\ hits # {} ->
             engine.rules[CHOOSE i \in hits : \A j \in hits : i >= j].allow
        [] OTHER -> engine.mode = "blacklist"

\* check: the first match decides, without one the mode does
Check(engine, client, op) ==
  LET hits == {i \in DOMAIN engine.rules : Matches(engine.rules[i], client, op)}
  IN  CASE engine.mode = "disabled" -> TRUE
        [] engine.mode # "disabled" /\ hits # {} ->
             engine.rules[CHOOSE i \in hits : \A j \in hits : i <= j].allow
        [] OTHER -> engine.mode = "blacklist"

-----------------------------------------------------------------------------
\* A rule that can be used names the client and the operation: an IPv4 rule
\* the client on a dual-stack socket too, "all" both operations.
Names(r, client, op) ==
  /\ r.source.readable
  /\ r.source.family = IF client.family = "mapped" THEN "v4" ELSE client.family
  /\ IsPrefix(r.source.bits, client.bits)
  /\ \E i \in DOMAIN r.operations : r.operations[i] \in {op, "all"}

\* The list as an administrator reads it, in the text of the configuration:
\* start from the mode's answer and let every rule, from the last to the
\* first, overrule what is below it for the clients and operations it names;
\* read[k] is what the last k rules say.  Rules that cannot be used decide
\* nothing.
ReadAsList(config, client, op) ==
  LET n == Len(config.rules)
      read[k \in Nat] ==
        IF k = 0 THEN IF config.mode = "whitelist" THEN "deny" ELSE "allow"
        ELSE LET r == config.rules[n - k + 1]
             IN  IF Names(r, client, op) /\ r.action \in {"allow", "deny"}
                 THEN r.action ELSE read[k - 1]
  IN  Check(Engine(config), client, op)
        = (config.mode \in {"whitelist", "blacklist"} => read[n] = "allow")
=============================================================================
