----------------------------- MODULE RuleChanges -----------------------------
(***************************************************************************)
(* Rules of the subscriptions: the template every profile is rendered      *)
(* from, edited by administrators who may have the same page open, and the *)
(* rules of an account, which the agent changes by plans that an           *)
(* administrator confirms and may undo.  Template, accounts and plans are  *)
(* three files, under three locks; a plan writes two of them.              *)
(***************************************************************************)
EXTENDS Naturals, FiniteSets, Sequences, SequencesExt

CONSTANTS Admins,      \* administrators with a page of the template open
          Rules,       \* rules
          PackRules,   \* the rules of a rule pack, in its order
          Plans,       \* ids of plans, 1 .. n in the order they are stored
          MaxRecords,  \* MAX_CHANGE_RECORDS
          MaxRules,    \* bound: rules of a list
          MaxEdits     \* bound: edits

VARIABLES
    template,  \* the rules of the template
    form,      \* the rules an administrator's page shows, by which its revision goes
    owed,      \* rules added and not removed by somebody who saw them (history variable)
    edits,     \* edits so far, of the template and of the account by others than plans
    account,   \* the account's rules, and a stand-in for its other fields
    draft,     \* a plan that is computed and not stored yet
    plan,      \* rule_changes.json
    mover,     \* the request that applies or undoes a plan, and holds the plans' lock
    mine       \* plans since whose preview nobody else edited the account (history variable)

templateVars == <<template, form, owed>>
ruleVars == <<template, form, owed, edits, account, draft, plan, mover, mine>>

RuleSeq == SeqOf(Rules, MaxRules)
Content == [rules : RuleSeq, other : 0 .. MaxEdits]
NoPlan == [status |-> "none"]
Record == [status : {"pending", "applying", "applied", "undoing", "undone"},
           before : Content, after : Content, global : RuleSeq, age : 0 .. 2]
Rest == [pc |-> "idle", plan |-> 0, undo |-> FALSE]

RuleTypeOK ==
    /\ template \in RuleSeq /\ form \in [Admins -> RuleSeq] /\ owed \subseteq Rules
    /\ account \in Content
    /\ draft \in Record \cup {NoPlan} /\ plan \in [Plans -> Record \cup {NoPlan}]
    /\ mover.pc \in {"idle", "write", "note"} /\ mover.plan \in Plans \cup {0}
    /\ mine \subseteq Plans \cup {0}

RuleInit ==
    /\ template = <<>> /\ form = [a \in Admins |-> <<>>] /\ owed = {}
    /\ edits = 0
    /\ account = [rules |-> <<>>, other |-> 0]
    /\ draft = NoPlan /\ plan = [p \in Plans |-> NoPlan]
    /\ mover = Rest /\ mine = {}

-----------------------------------------------------------------------------
(* The template                                                            *)

\* _prepend_unique_rules, and _dedupe of an account's rules.
WithPack(rules) ==
    PackRules \o SelectSeq(rules, LAMBDA r : \A i \in 1 .. Len(PackRules) : PackRules[i] # r)

\* load_template_config_snapshot: rules and their revision, under the lock.
Open(a) ==
    /\ form[a] # template
    /\ form' = [form EXCEPT ![a] = template]
    /\ UNCHANGED <<template, owed, edits, account, draft, plan, mover, mine>>

\* _validate_template_revision_unlocked: the revision is the content's digest.
CurrentWhenGiven(a) == form[a] \in {template, <<>>}
Current(a) == form[a] = template

\* save_template_rules, which checks every rule.
Saves(a, rules, added) ==
    /\ Current(a)
    /\ edits < MaxEdits /\ rules \in RuleSeq
    /\ template' = rules
    /\ owed' = ((owed \ ToSet(form[a])) \cup added) \cup (owed \cap ToSet(rules))
    /\ edits' = edits + 1
    /\ UNCHANGED <<form, account, draft, plan, mover, mine>>

AddRule(a, r) == Saves(a, <<r>> \o template, {r})

\* The index of a row, and the rule the page showed in it.
DeleteRule(a, i) ==
    /\ i <= Len(template) /\ i <= Len(form[a]) /\ template[i] = form[a][i]
    /\ Saves(a, RemoveAt(template, i), {})

ApplyPack(a) == Saves(a, WithPack(template), {})

\* The raw editor of the rules, and of the whole template.
Replace(a, rules) == rules # <<>> /\ Saves(a, rules, {})

-----------------------------------------------------------------------------
(* The account                                                             *)

\* user_config_revision covers every field of the account.  Whoever else writes them,
\* a rule pack included, holds usage_lock.
Unlocked == mover.pc # "write"
EditAccount ==
    /\ Unlocked /\ edits < MaxEdits
    /\ \/ account' = [account EXCEPT !.other = @ + 1]
       \/ /\ Len(account.rules) < MaxRules
          /\ \E r \in Rules : account' = [account EXCEPT !.rules = <<r>> \o @]
       \/ /\ account.rules # <<>>
          /\ account' = [account EXCEPT !.rules = Tail(@)]
       \/ /\ Len(WithPack(account.rules)) <= MaxRules
          /\ account' = [account EXCEPT !.rules = WithPack(@)]
    /\ edits' = edits + 1
    /\ mine' = {}
    /\ UNCHANGED <<templateVars, draft, plan, mover>>

-----------------------------------------------------------------------------
(* Plans                                                                   *)

\* preview_rule and preview_rule_pack compute a plan under usage_lock, ...
Preview(rules) ==
    /\ Unlocked /\ draft = NoPlan
    /\ Len(rules) <= MaxRules
    /\ draft' = [status |-> "pending", before |-> account,
                 after |-> [account EXCEPT !.rules = rules], global |-> template, age |-> 0]
    /\ mine' = mine \cup {0}
    /\ UNCHANGED <<templateVars, edits, account, plan, mover>>

Add(r) == Preview(IF Contains(account.rules, r) THEN account.rules ELSE <<r>> \o account.rules)
Drop(r) == Contains(account.rules, r)
           /\ Preview(SelectSeq(account.rules, LAMBDA s : s # r))
Pack == Preview(WithPack(account.rules))

\* _load_changes leaves out what is old, a day for a plan under way and a month for
\* history, and all but the newest; the next save makes it so.
Kept(records) ==
    LET young == {p \in Plans : /\ records[p] # NoPlan
                                /\ records[p].age < IF records[p].status \in
                                        {"pending", "applying", "undoing"} THEN 1 ELSE 2}
        newest == {p \in young : Cardinality({q \in young : q > p}) < MaxRecords}
    IN [p \in Plans |-> IF p \in newest THEN records[p] ELSE NoPlan]

\* ... and _store_pending_plan stores it afterwards, under the plans' lock.
Store ==
    /\ draft # NoPlan /\ mover.pc = "idle"
    /\ \E p \in Plans :
         /\ \A q \in Plans : q >= p => plan[q] = NoPlan
         /\ p > 1 => plan[p - 1] # NoPlan
         /\ plan' = [Kept(plan) EXCEPT ![p] = draft]
         /\ mine' = (mine \ {0, p}) \cup (IF 0 \in mine THEN {p} ELSE {})
    /\ draft' = NoPlan
    /\ UNCHANGED <<templateVars, edits, account, mover>>

\* The status that is saved before the account is.
MarkedDone(undo) == IF undo THEN "undone" ELSE "applied"
Marked(undo) == IF undo THEN "undoing" ELSE "applying"

\* apply_change, up to the first save.  A plan that was interrupted after it wrote the
\* account is only noted; one that was interrupted before is done again.
Apply(p) ==
    LET kept == Kept(plan)
        record == kept[p]
    IN /\ mover.pc = "idle"
       /\ record.status \in {"pending", "applying"}
       /\ record.global = template
       /\ \/ /\ record.status = "applying" /\ account = record.after
             /\ plan' = [kept EXCEPT ![p].status = "applied"]
             /\ UNCHANGED mover
          \/ /\ account = record.before
             /\ record.status = "applying" => account # record.after
             /\ plan' = [kept EXCEPT ![p].status = Marked(FALSE)]
             /\ mover' = [pc |-> "write", plan |-> p, undo |-> FALSE]
       /\ UNCHANGED <<templateVars, edits, account, draft, mine>>

\* undo_change, likewise.
Undo(p) ==
    LET kept == Kept(plan)
        record == kept[p]
    IN /\ mover.pc = "idle"
       /\ record.status \in {"applied", "undoing"}
       /\ \/ /\ record.status = "undoing" /\ account = record.before
             /\ plan' = [kept EXCEPT ![p].status = "undone"]
             /\ UNCHANGED mover
          \/ /\ account = record.after
             /\ record.status = "undoing" => account # record.before
             /\ plan' = [kept EXCEPT ![p].status = Marked(TRUE)]
             /\ mover' = [pc |-> "write", plan |-> p, undo |-> TRUE]
       /\ UNCHANGED <<templateVars, edits, account, draft, mine>>

\* _restore_snapshot and the save of the accounts, which ends usage_lock.
Write ==
    /\ mover.pc = "write"
    /\ account' = [account EXCEPT !.rules = IF mover.undo THEN plan[mover.plan].before.rules
                                            ELSE plan[mover.plan].after.rules]
    /\ mover' = [mover EXCEPT !.pc = "note"]
    /\ mine' = IF account' = account THEN mine ELSE mine \cap {mover.plan}
    /\ UNCHANGED <<templateVars, edits, draft, plan>>

Note ==
    /\ mover.pc = "note"
    /\ plan' = [plan EXCEPT ![mover.plan].status = IF mover.undo THEN "undone" ELSE "applied"]
    /\ mover' = Rest
    /\ UNCHANGED <<templateVars, edits, account, draft, mine>>

\* A save that fails, or a process that dies.
Interrupted ==
    /\ mover # Rest \/ draft # NoPlan
    /\ mover' = Rest /\ draft' = NoPlan /\ mine' = mine \ {0}
    /\ UNCHANGED <<templateVars, edits, account, plan>>

\* A plan grows older: by a day, by a month.
Age(p) ==
    /\ mover = Rest /\ plan[p] # NoPlan /\ plan[p].age < 2
    /\ plan' = [plan EXCEPT ![p].age = @ + 1]
    /\ UNCHANGED <<templateVars, edits, account, draft, mover, mine>>

TemplateNext ==
    \E a \in Admins :
      \/ Open(a) \/ ApplyPack(a)
      \/ \E r \in Rules : AddRule(a, r)
      \/ \E i \in 1 .. MaxRules : DeleteRule(a, i)
      \/ \E rules \in RuleSeq : Replace(a, rules)

PlanNext ==
    \/ EditAccount
    \/ \E r \in Rules : Add(r) \/ Drop(r)
    \/ \E p \in Plans : Apply(p) \/ Undo(p) \/ Age(p)
    \/ Pack \/ Store \/ Write \/ Note \/ Interrupted

RuleNext == TemplateNext \/ PlanNext

-----------------------------------------------------------------------------
(* Properties                                                              *)

\* A rule that an administrator added stays until one who saw it takes it away,
\* whichever pages were open meanwhile.
NoRuleIsLost == owed \subseteq ToSet(template)

\* What a plan's status says is so, whichever save failed, as long as nobody else edits
\* the account: it was not written, it was, or it is one of the two and the plan can be
\* carried on.
PlanTellsTruth ==
    \A p \in Plans \cap mine :
       LET rec == plan[p]
       IN rec # NoPlan =>
          /\ rec.status \in {"pending", "undone"} => account = rec.before
          /\ rec.status = "applied" => account = rec.after
          /\ rec.status \in {"applying", "undoing"} => account \in {rec.before, rec.after}
=============================================================================
