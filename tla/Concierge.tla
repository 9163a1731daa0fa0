------------------------------ MODULE Concierge ------------------------------
(***************************************************************************)
(* A conversation with a family: what it needs is collected turn by turn,  *)
(* schools are searched for it, and questions about them are answered.     *)
(*                                                                         *)
(* A message is what it says: the parser of its text is modelled from what *)
(* the text means on.  Left out: the services other than transport, the    *)
(* shift, titles, the wording of the answers, and of the messages all but  *)
(* the schools that the last results message names.                        *)
(***************************************************************************)
EXTENDS Marketplace

CONSTANTS
    Names,         \* of places, classes and kinds of teaching, "" for none
    Messages,      \* what a family may write
    Readings,      \* what the language model may make of it
    Patches,       \* what the form beside the conversation may send
    FirstNeeds,    \* the needs a conversation that is under way may have
    FlexibleBudget \* 150000 Kz: a budget nobody named

VARIABLES
    session,       \* the row in concierge_sessions
    told,          \* the schools the last results message names
    llmEnabled,    \* OLLAMA_ENABLED
    needsAsked,    \* history: what the family last asked for
    sought         \* history: the search behind the results of the session

conciergeVars == <<session, told, llmEnabled, needsAsked, sought>>

Transport == {"yes", "no", "unknown"}
Needs ==
    [municipio : Names, provincia : Names, classe : Names, precoMax : Nat \cup {None},
     transporte : Transport, integral : BOOLEAN, tipoEnsino : Names, browseWide : BOOLEAN]
EMPTY_NEEDS ==
    [municipio |-> "", provincia |-> "", classe |-> "", precoMax |-> None,
     transporte |-> "unknown", integral |-> FALSE, tipoEnsino |-> "", browseWide |-> FALSE]

ConciergePhase == {"collecting", "processing", "results", "adjusting"}
Session ==
    [id : Nat, there : BOOLEAN, needs : Needs, phase : ConciergePhase, results : SUBSET Schools]
NewSession(id) ==
    [id |-> id, there |-> TRUE, needs |-> EMPTY_NEEDS, phase |-> "collecting", results |-> {}]

Search ==
    [needs : Needs, relaxed : BOOLEAN, offers : UNION {[ids -> Offers] : ids \in SUBSET Schools}]
NoSearch == [needs |-> EMPTY_NEEDS, relaxed |-> FALSE, offers |-> <<>>]

ConciergeFrames ==
    [at : {"turn.save", "patch.save", "search.read", "search.find", "search.tell",
           "search.save", "session.delete"},
     row : Session,                 \* the session as it was read
     needs : Needs,                 \* the needs to be saved, or to search with
     phase : ConciergePhase,        \* the phase to be saved
     search : BOOLEAN,              \* a search follows; or it may relax the needs
     relax : 0..3,                  \* how far it did
     found : Search]

Talking(step) ==
    [at |-> step, row |-> session, needs |-> session.needs, phase |-> session.phase,
     search |-> FALSE, relax |-> 0, found |-> NoSearch]

ConciergeTypeOK ==
    /\ session \in Session
    /\ told \subseteq Schools
    /\ llmEnabled \in BOOLEAN
    /\ needsAsked \in Needs
    /\ sought \in Search

\* No conversation yet, or one that has what a search needs.
ConciergeInit ==
    /\ session \in {[NewSession(0) EXCEPT !.there = FALSE]} \cup
           {[NewSession(1) EXCEPT !.needs = n, !.phase = "processing"] : n \in FirstNeeds}
    /\ told = {}
    /\ llmEnabled \in BOOLEAN
    /\ needsAsked = session.needs
    /\ sought = NoSearch

-----------------------------------------------------------------------------
(* The needs.                                                              *)

\* {...under, ...over}
Spread(under, over) ==
    [field \in DOMAIN under \cup DOMAIN over |->
        IF field \in DOMAIN over THEN over[field] ELSE under[field]]

mergeNeeds(current, patch) == Spread(current, patch)

\* Some fields of the needs.
IsPatch(patch) == mergeNeeds(EMPTY_NEEDS, patch) \in Needs

ASSUME ConciergeAssumption ==
    /\ "" \in Names
    /\ Limit \in Nat /\ FlexibleBudget \in Nat
    /\ \A m \in Messages : IsPatch(m.patch)
    /\ \A r \in Readings : IsPatch(r.patch)
    /\ \A patch \in Patches : IsPatch(patch)

isNeedsReady(n) ==
    /\ n.municipio # "" \/ n.provincia # ""
    /\ n.classe # "" \/ n.browseWide
    /\ n.precoMax # None
    /\ n.transporte # "unknown"

ASSUME FirstNeedsAssumption == \A n \in FirstNeeds : n \in Needs /\ isNeedsReady(n)

\* Math.round of a share of an amount.
Percent(amount, share) == (amount * share + 50) \div 100

\* A municipality named as its province is the whole province.
needsToMarketplaceFilters(n) ==
    [province |-> n.provincia,
     municipality |-> IF n.municipio = n.provincia THEN "" ELSE n.municipio,
     classLabel |-> IF n.browseWide THEN "" ELSE n.classe,
     tuitionMax |-> n.precoMax,
     serviceIds |-> IF n.transporte = "yes" THEN {"transporte"} ELSE {},
     fullDay |-> n.integral,
     teachingType |-> n.tipoEnsino]

-----------------------------------------------------------------------------
(* What a message is taken for: an intent, a patch of the needs, whether   *)
(* to search, an adjustment, and whether it is about the results.          *)

Reading(intent, patch, search, soft, topic) ==
    [intent |-> intent, patch |-> patch, search |-> search, soft |-> soft, topic |-> topic]

NeedsFields(patch, field, default) == IF field \in DOMAIN patch THEN patch[field] ELSE default

\* A wide search asks for no class, and fills in what is missing.
applyBrowseWideDefaults(patch, current) ==
    Spread(patch, [browseWide |-> TRUE, classe |-> "",
     municipio |-> NeedsFields(patch, "municipio", ""),
     provincia |-> NeedsFields(patch, "provincia", current.provincia),
     precoMax |-> IF NeedsFields(patch, "precoMax", None) = None /\ current.precoMax = None
                  THEN FlexibleBudget ELSE NeedsFields(patch, "precoMax", current.precoMax),
     transporte |-> IF NeedsFields(patch, "transporte", "unknown") = "unknown"
                       /\ current.transporte = "unknown"
                    THEN "no" ELSE NeedsFields(patch, "transporte", current.transporte)])

\* Questions about the results and what is off topic were answered before.
parseConciergeTurnDeterministic(m, current) ==
    LET patch == IF m.browse = "no" THEN m.patch ELSE applyBrowseWideDefaults(m.patch, current)
        soft == IF m.soft = "none" /\ m.browse = "list" THEN "more_options"
                ELSE IF m.soft = "no_transport" /\ current.transporte # "yes" THEN "none"
                ELSE m.soft
        ready == isNeedsReady(mergeNeeds(current, patch))
    IN  IF m.talk = "distance" THEN Reading("clarify", <<>>, FALSE, "none", TRUE)
        ELSE IF m.compare THEN Reading("compare", patch, FALSE, soft, FALSE)
        ELSE Reading(CASE ready /\ soft # "none" /\ m.browse # "list" -> "soft_adjust"
                       [] ready /\ (soft = "none" \/ m.browse = "list") -> "ready_to_search"
                       [] OTHER -> "ask_question",
                     patch, ready, soft, FALSE)

\* Whatever else the model says, needs that are ready are searched for.
normalizeLlmResult(raw, current) ==
    Reading(raw.intent, raw.patch,
            raw.search \/ isNeedsReady(mergeNeeds(current, raw.patch)), raw.soft, raw.topic)

\* The parser's word on a field goes before the model's.
mergeWithDeterministic(llm, det, current, hasResults) ==
    LET patch == Spread(llm.patch, det.patch)
        search == det.search \/ llm.search \/ isNeedsReady(mergeNeeds(current, patch))
    IN  IF det.intent = "clarify" THEN det
        ELSE IF hasResults /\ (llm.intent = "answer_from_results" \/ (llm.topic /\ ~llm.search))
             THEN Reading("answer_from_results", <<>>, FALSE, "none", TRUE)
        ELSE Reading(CASE search -> "ready_to_search"
                       [] ~search /\ det.intent = "soft_adjust" -> "soft_adjust"
                       [] OTHER -> llm.intent,
                     patch, search, IF det.soft = "none" THEN llm.soft ELSE det.soft, llm.topic)

\* The parser alone, where the model is off, fails or is late.
interpretTurn(m, current, hasResults) ==
    LET det == parseConciergeTurnDeterministic(m, current)
    IN  {det} \cup
        IF llmEnabled
        THEN {mergeWithDeterministic(normalizeLlmResult(r, current), det, current, hasResults) :
                 r \in Readings}
        ELSE {}

SoftAdjust(n, soft) ==
    CASE soft = "cheaper" /\ n.precoMax # None -> [n EXCEPT !.precoMax = Percent(@, 85)]
      [] soft = "only_transport" -> [n EXCEPT !.transporte = "yes"]
      [] soft = "no_transport" -> [n EXCEPT !.transporte = "no"]
      [] OTHER -> n

-----------------------------------------------------------------------------
(* The conversation begins, goes on, and is deleted.                       *)

CreateSession(h) ==
    /\ Serve(h, "session")
    /\ ~session.there
    /\ session' = NewSession(session.id + 1)
    /\ needsAsked' = EMPTY_NEEDS
    /\ told' = {}
    /\ sought' = NoSearch
    /\ UNCHANGED <<llmEnabled, marketVars, stale>>

\* The message is answered from the session as it was read, after the model has
\* had its time.
AnswerFromResults(h) == Become(h, [Talking("turn.save") EXCEPT !.phase = "results"])

TakeUp(h, llm) ==
    LET needs == SoftAdjust(mergeNeeds(session.needs, llm.patch), llm.soft)
        search == llm.search \/ (isNeedsReady(needs) /\ ~isNeedsReady(session.needs))
    IN  Become(h, [Talking("turn.save") EXCEPT
               !.needs = needs,
               !.phase = IF search THEN "processing"
                         ELSE IF session.results # {} THEN "results" ELSE "collecting"])

ProcessTurn(h) ==
    LET hasResults == session.results # {} IN
    /\ Begin(h, "turn")
    /\ session.there
    /\ \E m \in Messages :
        IF hasResults /\ m.talk \in {"followUp", "distance"} THEN AnswerFromResults(h)
        ELSE IF m.talk = "offTopic" THEN UNCHANGED frame
        ELSE \E llm \in interpretTurn(m, session.needs, hasResults) :
            IF hasResults /\ (llm.intent = "answer_from_results" \/ llm.topic)
            THEN AnswerFromResults(h)
            ELSE IF llm.intent = "off_topic" THEN UNCHANGED frame
            ELSE TakeUp(h, llm)
    /\ UNCHANGED <<marketVars, conciergeVars, stale>>

\* The row of the frame is still there.
Kept(h) == session.there /\ session.id = frame[h].row.id

SaveTurn(h) ==
    /\ At(h, "turn.save")
    /\ Kept(h)
    /\ session' = [session EXCEPT !.needs = frame[h].needs, !.phase = frame[h].phase]
    /\ needsAsked' = frame[h].needs
    /\ Mark("session", session = frame[h].row)
    /\ Return(h)
    /\ UNCHANGED <<told, llmEnabled, sought, marketVars, counters>>

PatchNeeds(h) ==
    /\ Begin(h, "patch")
    /\ session.there
    /\ \E patch \in Patches, search \in BOOLEAN :
        LET needs == mergeNeeds(session.needs, patch) IN
        Become(h, [Talking("patch.save") EXCEPT
            !.needs = needs, !.search = search,
            !.phase = IF isNeedsReady(needs) THEN "processing" ELSE "adjusting"])
    /\ UNCHANGED <<marketVars, conciergeVars, stale>>

SavePatch(h) ==
    /\ At(h, "patch.save")
    /\ Kept(h)
    /\ session' = [session EXCEPT !.needs = frame[h].needs, !.phase = frame[h].phase]
    /\ needsAsked' = frame[h].needs
    /\ Mark("session", session = frame[h].row)
    /\ IF frame[h].search THEN Goto(h, "search.read") ELSE Return(h)
    /\ UNCHANGED <<told, llmEnabled, sought, marketVars, counters>>

FindSession(h) ==
    /\ Begin(h, "session")
    /\ session.there
    /\ Become(h, Talking("session.delete"))
    /\ UNCHANGED <<marketVars, conciergeVars, stale>>

DeleteSession(h) ==
    /\ At(h, "session.delete")
    /\ Kept(h)
    /\ session' = [session EXCEPT !.there = FALSE]
    /\ Return(h)
    /\ UNCHANGED <<told, llmEnabled, needsAsked, sought, marketVars, counters, stale>>

DeleteAllSessions(h) ==
    /\ Serve(h, "session")
    /\ session' = [session EXCEPT !.there = FALSE]
    /\ UNCHANGED <<told, llmEnabled, needsAsked, sought, marketVars, stale>>

-----------------------------------------------------------------------------
(* The search: when nothing is found, the needs are relaxed step by step.  *)

SearchSession(h) ==
    /\ Begin(h, "search")
    /\ session.there
    /\ \E relaxIfEmpty \in BOOLEAN :
        Become(h, [Talking("search.find") EXCEPT !.search = relaxIfEmpty])
    /\ UNCHANGED <<marketVars, conciergeVars, stale>>

\* The one that follows a patch.
ReadForSearch(h) ==
    /\ At(h, "search.read")
    /\ Kept(h)
    /\ Become(h, [Talking("search.find") EXCEPT !.search = TRUE])
    /\ UNCHANGED <<marketVars, conciergeVars, counters, stale>>

\* 1: no services, no type, and a quarter more; 2: the whole province; 3: any class.
Relaxed(n, step) ==
    CASE step = 1 -> [n EXCEPT !.transporte = "unknown", !.integral = FALSE, !.tipoEnsino = "",
                               !.precoMax = IF @ = None THEN None ELSE Percent(@, 125)]
      [] step = 2 -> [n EXCEPT !.municipio = ""]
      [] step = 3 -> [n EXCEPT !.classe = ""]

NextRelaxation(relax, needs) ==
    IF relax = 1 /\ needs.provincia = "" THEN 3 ELSE relax + 1

runSearch(h) ==
    /\ At(h, "search.find")
    /\ \E ids \in FirstCards(needsToMarketplaceFilters(frame[h].needs)) :
        IF ids = {} /\ frame[h].search /\ frame[h].relax < 3
        THEN LET step == NextRelaxation(frame[h].relax, frame[h].needs)
             IN  Become(h, [frame[h] EXCEPT !.relax = step, !.needs = Relaxed(@, step)])
        ELSE Become(h, [frame[h] EXCEPT !.at = "search.tell", !.found =
                [needs |-> frame[h].row.needs, relaxed |-> frame[h].relax > 0,
                 offers |-> [s \in ids |-> market[s].offer]]])
    /\ UNCHANGED <<marketVars, conciergeVars, counters, stale>>

\* After the model has explained them, or has failed to.
TellResults(h) ==
    LET ids == DOMAIN frame[h].found.offers IN
    /\ At(h, "search.tell")
    /\ Kept(h)
    /\ told' = IF ids = {} THEN told ELSE ids
    /\ Goto(h, "search.save")
    /\ UNCHANGED <<session, llmEnabled, needsAsked, sought, marketVars, counters, stale>>

SaveResultsWithRelaxedNeeds(h) ==
    LET ids == DOMAIN frame[h].found.offers IN
    /\ At(h, "search.save")
    /\ Kept(h)
    /\ session' = [session EXCEPT !.needs = frame[h].needs, !.results = ids,
                                  !.phase = IF ids = {} THEN "adjusting" ELSE "results"]
    /\ sought' = frame[h].found
    /\ Mark("session", session = frame[h].row /\ (ids # {} => told = ids))
    /\ Return(h)
    /\ UNCHANGED <<told, llmEnabled, needsAsked, marketVars, counters>>

\* The needs are written back as they were when the search began.
SaveResults(h) ==
    LET ids == DOMAIN frame[h].found.offers IN
    /\ At(h, "search.save")
    /\ Kept(h)
    /\ session' = [session EXCEPT !.needs = frame[h].row.needs, !.results = ids,
                                  !.phase = IF ids = {} THEN "adjusting" ELSE "results"]
    /\ sought' = frame[h].found
    /\ Mark("session", session = frame[h].row /\ (ids # {} => told = ids))
    /\ Return(h)
    /\ UNCHANGED <<told, llmEnabled, needsAsked, marketVars, counters>>

\* The session was deleted meanwhile.
SessionLost(h) ==
    /\ frame[h].at \in {"turn.save", "patch.save", "search.read", "search.tell", "search.save",
                        "session.delete"}
    /\ ~Kept(h)
    /\ Return(h)
    /\ UNCHANGED <<marketVars, conciergeVars, counters, stale>>

ConciergeStep(h) ==
    \/ CreateSession(h) \/ ProcessTurn(h) \/ SaveTurn(h) \/ PatchNeeds(h) \/ SavePatch(h)
    \/ FindSession(h) \/ DeleteSession(h) \/ DeleteAllSessions(h) \/ SearchSession(h)
    \/ ReadForSearch(h) \/ runSearch(h) \/ TellResults(h) \/ SaveResults(h) \/ SessionLost(h)

-----------------------------------------------------------------------------
(***************************************************************************)
(* A conversation keeps the needs the family last gave it, though a search *)
(* relaxes them and writes them back; its phase tells what it has: results *)
(* there are, none while it collects, and (where no model may decide it)   *)
(* only needs that are ready are searched for; unless it was written from  *)
(* a copy that another request had changed.                                *)
(***************************************************************************)
ConversationIsAsLastAsked ==
    session.there /\ "session" \notin stale =>
        /\ session.needs = needsAsked
        /\ session.phase = "results" => session.results # {}
        /\ session.phase = "collecting" => session.results = {}
        /\ session.phase = "processing" /\ ~llmEnabled => isNeedsReady(session.needs)

(***************************************************************************)
(* A school in the results was, when it was found, in the province asked   *)
(* for and its price at most a quarter above the budget, whatever was      *)
(* relaxed; when nothing was relaxed it had all that was asked.  And the   *)
(* results are those the family was told.                                  *)
(***************************************************************************)
ResultsFitNeeds ==
    /\ session.results = DOMAIN sought.offers
    /\ \A s \in session.results :
        LET o == sought.offers[s]
            n == sought.needs
        IN  /\ n.provincia # "" => o.province = n.provincia
            /\ n.precoMax # None => tuitionFrom(o) \in 0..Percent(n.precoMax, 125)
            /\ ~sought.relaxed => buildWhere(o, needsToMarketplaceFilters(n))
    /\ session.there /\ "session" \notin stale /\ faults = 0 /\ session.results # {}
           /\ (\A h \in Handlers : ~At(h, "search.save")) =>
        told = session.results
=============================================================================
