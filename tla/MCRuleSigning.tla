---------------------------- MODULE MCRuleSigning ----------------------------
(***************************************************************************)
(* A small site: one invoice with an amount and a customer.  Two rules     *)
(* fire on submit, by amount; one fires when the invoice is approved, for  *)
(* customer acme.                                                          *)
(***************************************************************************)
EXTENDS RuleSigning, TLC

CONSTANTS invoice, big, any, approval, alice, bob, blank, none, acme, globex, t0, t3, t5, t7,
          own, plain, profile, company,
          left, right, c1, c2

MCTexts   == {blank, none, acme, globex, t0, t3, t5, t7}
MCNumbers == {0, 3, 7}
MCNumeral == 0 :> t0 @@ 3 :> t3 @@ 7 :> t7
MCFloatOf == t0 :> 0 @@ t3 :> 3 @@ t5 :> 5 @@ t7 :> 7
MCItemsOf == [t \in MCTexts |-> {t}]
MCPartsOf == [t \in MCTexts |-> {t, blank}]

MCFields == {"amount", "customer"}
MCUserLists == {<<alice>>}
MCBoxOf == c1 :> left @@ c2 :> right

Cond(f, op, v) == [field |-> f, operator |-> op, value |-> v]

\* The rule of large amounts, the one for any amount, the one of approvals.
MCRules ==
  big :> [event |-> "on_submit", priority |-> 1, company |-> company, state |-> NoState,
          conditions |-> {Cond("amount", "greater_than", t5)}, profile |-> profile,
          format |-> own, print |-> TRUE, email |-> FALSE, mandatory |-> TRUE] @@
  any :> [event |-> "on_submit", priority |-> 2, company |-> NoCompany, state |-> NoState,
          conditions |-> {Cond("amount", "is_set", blank)}, profile |-> profile,
          format |-> own, print |-> FALSE, email |-> TRUE, mandatory |-> TRUE] @@
  approval :> [event |-> "on_workflow_action", priority |-> 1, company |-> NoCompany,
          state |-> "Approved", conditions |-> {Cond("customer", "equals", acme)},
          profile |-> profile, format |-> own, print |-> FALSE, email |-> FALSE, mandatory |-> FALSE]

Invoice(amount, customer, state, submitted) ==
  [fields |-> [f \in MCFields |-> IF f = "amount" THEN amount ELSE customer],
   company |-> company, state |-> state, submitted |-> submitted]

\* The workflow submits a large invoice when it is approved.
MCDocStates == {Invoice(3, acme, NoState, b) : b \in BOOLEAN}
                 \cup {Invoice(7, acme, NoState, FALSE), Invoice(7, acme, "Approved", TRUE)}
MCTextStates == {Invoice(3, c, s, FALSE) : c \in {acme, globex}, s \in {NoState, "Approved"}}

MCTemplates == {<<1>>, <<1, 2>>}

\* Under these SubmitIsServed holds.
ASSUME RulesReadRight == NumericRules /\ DistinctPriorities

\* The requests are alike, and the contents with their boxes.
Alike == Permutations(Requests) \cup {c1 :> c2 @@ c2 :> c1 @@ left :> right @@ right :> left}
=============================================================================
