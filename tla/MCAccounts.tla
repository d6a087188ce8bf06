----------------------------- MODULE MCAccounts -----------------------------
(* An instance of Accounts for TLC.                                        *)
EXTENDS Accounts, TLC

CONSTANTS q1, q2, q3, alice, boss, apiKey

ThreeRequests == {q1, q2, q3}

EqualRequests == Permutations(ThreeRequests)

Fields(name, status) == [name |-> name, status |-> status]

(* Two solutions of one person, from before, and one who may be an admin.   *)
Old(name) == [owner |-> alice, fields |-> Fields(name, "active"),
              author |-> [name |-> "before", status |-> "before"]]

OneBoss == {boss}

TwoSolutions == "a" :> Old("crm") @@ "b" :> Old("erp")

Ask(by, op, id, name, status) == [by |-> by, op |-> op, id |-> id, fields |-> Fields(name, status)]

(* Two names are swapped, one is taken again, a solution is edited by its   *)
(* owner and another, and deleted by both.                                 *)
SomeDemands == { Ask(alice, "update", "a", "erp", "active"), Ask(alice, "update", "b", "crm", "active"),
                 Ask(alice, "update", "a", "crm", "retired"), Ask(alice, "create", "", "crm", "active"),
                 Ask(alice, "delete", "b", "", ""), Ask(boss, "update", "a", "crm", "planned"),
                 Ask(boss, "delete", "a", "", ""), Ask(boss, "everyone", "", "", ""),
                 Ask(apiKey, "create", "", "x", "active"), Ask(alice, "get", "a", "", "") }

(* What an analysis of the intent page may find: all, little, or nothing of *)
(* the buyer.                                                              *)
StagesOf(low, high) == {[name |-> low, max |-> 15], [name |-> high, max |-> 100]}

TwoProfiles ==
  [default |-> [buyer_readiness |-> StagesOf("Cold", "Ready to Buy"), product_fit |-> StagesOf("Poor Fit", "Strategic Fit")],
   health  |-> [buyer_readiness |-> StagesOf("Unaware", "Committed"), product_fit |-> StagesOf("Poor Fit", "Strategic Fit")]]

LowestStages == [buyer_readiness |-> "Cold", product_fit |-> "Poor Fit"]

Finding(client, notes, readiness, fit, stages) ==
  [value |-> [client_name |-> client, notes |-> notes, buyer_readiness |-> readiness, product_fit |-> fit],
   stage |-> [buyer_readiness |-> stages[1], product_fit |-> stages[2]]]

SomeFindings == { Finding("x", "", 90, 0, <<"Ready to Buy", "Poor Fit">>),
                  Finding("y", "x", 0, 90, <<"Cold", "Strategic Fit">>),
                  Finding("", "y", NoScore, NoScore, <<"", "">>) }

AllOrOneFailed == {{}, {"pricing_notes"}}
=============================================================================
