----------------------------- MODULE PowerDomain -----------------------------
(***************************************************************************)
(* The tree of power domains (module/power_domain/src): clients ask for    *)
(* the states of a domain and of its ancestors, drivers make transitions   *)
(* and report them, and entities that subscribed are told before and after *)
(* a transition and answer.                                                *)
(*                                                                         *)
(* The module serves one event at a time.  A handler walks the tree: it is *)
(* one action, whose walk changes a record "w", one domain after another.  *)
(* Drivers do one transition at a time and report it when it is done; one  *)
(* that is asked for another state meanwhile makes for that state.         *)
(***************************************************************************)
EXTENDS Naturals, SequencesExt

CONSTANTS
    Domains,    \* The power domains, numbered as in pd_ctx_table.
    Parent,     \* Parent[d]: the parent of domain d, None for the root.
    Cores,      \* The core domains.
    Clusters,   \* The cluster domains.
    States,     \* The power states.
    Depth,      \* normalize_state: Depth[s] is greater for a deeper state.
    Allowed,    \* allowed_state_mask_table: the states Allowed[d][s] of
                \* domain d when its parent is in state s.
    Requests,   \* Composite states clients ask for: pairs of a domain and of
                \* the states for it and its ancestors.
    BootStates, \* The states the hardware may start in.
    Before,     \* Before[d]: how many entities are told before transitions.
    After,      \* After[d]: how many entities are told after transitions.
    None,
    MaxAsks,    \* Bound: how many requests clients make.
    MayFail,    \* Whether drivers and entities may refuse a transition.
    Overlap     \* Whether clients make requests for domains on the move.

Root == CHOOSE d \in Domains : Parent[d] = None
Children(d) == {c \in Domains : Parent[c] = d}

ASSUME PowerDomainAssumption ==
    /\ Domains \subseteq Nat /\ IsFiniteSet(Domains) /\ Cores \subseteq Domains \ {Root}
    /\ Clusters \subseteq Domains \ Cores
    /\ None \notin Domains /\ None \notin States /\ {"ON", "OFF"} \subseteq States
    /\ Parent \in [Domains -> Domains \cup {None}]
    /\ \A d \in Domains : Parent[d] # None => d < Parent[d]
    /\ Cardinality(Children(None)) = 1
    /\ Depth \in [States -> Nat] /\ IsInjective(Depth)
    /\ Allowed \in [Domains \ {Root} -> [States -> SUBSET States]]
    /\ Requests \subseteq Domains \X Seq(States)
    /\ BootStates \subseteq [Domains -> States]
    /\ \A b \in BootStates, d \in Domains \ {Root} : b[d] \in Allowed[d][b[Parent[d]]]
    /\ Before \in [Domains -> Nat] /\ After \in [Domains -> Nat]
    /\ MaxAsks \in Nat /\ MayFail \in BOOLEAN /\ Overlap \in BOOLEAN

\* Of cores, in the tables of every product: nothing is below a core, and under
\* a state of its parent in which it may be in any state it may be off.  The
\* last core is switched off without a look at the tables.
ASSUME CoreAssumption ==
    \A c \in Cores :
        /\ Children(c) = {}
        /\ \A s \in States : Allowed[c][s] # {} => "OFF" \in Allowed[c][s]

VARIABLES
    pd,      \* the contexts of the domains
    before,  \* before[d]: how many answers the next transition waits for
    after,   \* after[d]: how many answers are due to the last transition
    suspend, \* mod_pd_ctx.system_suspend
    queue,   \* the module's events, oldest first
    driver,  \* driver[d]: the state a transition makes for, or None
    hw,      \* hw[d]: the state domain d is really in
    asks,    \* the number of requests made, which names them
    answer,  \* history: answer[r] of a set state request, or None
    heard,   \* history: heard[d] agreed to the transition domain d is to make
    lost     \* history: whether a transition was refused that a request had
             \* left for later

pdVars == <<pd, before, after, suspend, queue, driver, hw, asks, answer, heard,
            lost>>

Ids == 1 .. MaxAsks
Answers == {"success", "overwritten", "pwrstate", "device"}

Context == [requested: States,        \* requested_state
            toDriver: States,         \* state_requested_to_driver
            current: States,          \* current_state
            driverState: States,      \* driver_state
            response: Ids \cup {None},\* response: the request to answer
            pre: [state: States, ok: BOOLEAN, valid: BOOLEAN],
            post: [state: States, previous: States]]

Events == [kind: {"set"}, request: Requests, id: Ids]
          \cup [kind: {"report"}, domain: Domains, state: States]
          \cup [kind: {"suspend"}, state: States]

PdTypeOK ==
    /\ pd \in [Domains -> Context]
    /\ \A d \in Domains : before[d] \in 0 .. Before[d] /\ after[d] \in 0 .. After[d]
    /\ suspend \in [ongoing: BOOLEAN, core: Cores \cup {None}, state: States]
    /\ \A i \in DOMAIN queue : queue[i] \in Events
    /\ driver \in [Domains -> States \cup {None}]
    /\ \A d \in Domains : driver[d] # None => driver[d] = pd[d].toDriver
    /\ hw \in [Domains -> States]
    /\ asks \in 0 .. MaxAsks
    /\ answer \in [Ids -> Answers \cup {None}]
    /\ \A d \in Domains : heard[d] \in 0 .. Before[d]
    /\ lost \in BOOLEAN

\* pd_start: the domains below one that is off are not read.
PdInit ==
    /\ hw \in BootStates
    /\ pd = [d \in Domains |->
               [requested |-> hw[d], toDriver |-> hw[d], current |-> "OFF",
                driverState |-> "OFF", response |-> None,
                pre |-> [state |-> "OFF", ok |-> TRUE, valid |-> FALSE],
                post |-> [state |-> "OFF", previous |-> "OFF"]]]
    /\ before = [d \in Domains |-> 0] /\ after = before
    /\ suspend = [ongoing |-> FALSE, core |-> None, state |-> "OFF"]
    /\ LET on == {d \in Domains : hw[d] # "OFF"}
           reports == {[kind |-> "report", domain |-> d, state |-> hw[d]] : d \in on}
       IN /\ queue \in [1 .. Cardinality(on) -> reports] /\ Range(queue) = reports
          /\ \A i, j \in DOMAIN queue : i < j => queue[i].domain > queue[j].domain
    /\ driver = [d \in Domains |-> None]
    /\ asks = 0 /\ answer = [r \in Ids |-> None] /\ heard = before /\ lost = FALSE

-----------------------------------------------------------------------------
\* power_domain_state_checks.c
Deeper(s, t) == Depth[s] > Depth[t]

AllowedByChildren(ctx, d, s) ==
    \A c \in Children(d) : ctx[c].requested \in Allowed[c][s]

\* Variant: only the parent is asked.
AllowedByParentOnly(ctx, d, s) == d # Root => s \in Allowed[d][ctx[Parent[d]].current]

AllowedByParentAndChildren(ctx, d, s) ==
    /\ d # Root => s \in Allowed[d][ctx[Parent[d]].current]
    /\ \A c \in Children(d) : ctx[c].current \in Allowed[c][s]

Path[d \in Domains] == IF d = Root THEN <<d>> ELSE <<d>> \o Path[Parent[d]]

\* is_valid_composite_state
Valid(d, states) ==
    /\ Len(states) \in 1 .. Len(Path[d])
    /\ \A k \in 1 .. Len(states) - 1 : states[k] \in Allowed[Path[d][k]][states[k + 1]]

-----------------------------------------------------------------------------
\* What a walk changes, and what its loops keep: the domain in charge of the
\* response, whether a driver was called, the status and whether to go on.
Walk == [pd |-> pd, before |-> before, after |-> after, driver |-> driver,
         answer |-> answer, heard |-> heard, lost |-> lost,
         charge |-> None, first |-> FALSE, status |-> "success", stop |-> FALSE]

Done(w) == /\ pd' = w.pd /\ before' = w.before /\ after' = w.after
           /\ driver' = w.driver
           /\ answer' = w.answer /\ heard' = w.heard /\ lost' = w.lost

\* send_pd_set_state_delayed_response
Respond(w, d, a) ==
    IF w.pd[d].response = None THEN w
    ELSE [w EXCEPT !.answer[w.pd[d].response] = a, !.pd[d].response = None]

\* initiate_power_state_transition: the driver takes the state.
Initiate(w, d) ==
    LET s == w.pd[d].requested
    IN [w EXCEPT !.driver[d] = s, !.pd[d].driverState = s, !.pd[d].toDriver = s,
                 !.heard[d] = 0]

\* It refuses, or denies, a transition that no request waits to start.
InitiateLater(w, d, fails) ==
    IF d \in fails THEN [w EXCEPT !.lost = TRUE] ELSE Initiate(w, d)

\* Variant: the answers are not waited for.
TellAtOnce(w, d) ==
    [walk |-> [w EXCEPT !.before[d] = Before[d], !.heard[d] = 0,
                        !.pd[d].pre = [state |-> w.pd[d].requested, ok |-> TRUE,
                                       valid |-> TRUE]],
     waits |-> FALSE]

\* initiate_power_state_pre_transition_notification: the result "waits" when
\* the transition has to wait for answers.
Tell(w, d) ==
    LET pre == w.pd[d].pre
        s == w.pd[d].requested
    IN IF pre.state = s /\ pre.valid /\ pre.ok
       THEN [walk |-> w, waits |-> FALSE]
       ELSE IF w.before[d] # 0
       THEN [walk |-> w, waits |-> TRUE]
       ELSE [walk |-> [w EXCEPT !.before[d] = Before[d], !.heard[d] = 0,
                                !.pd[d].pre = [state |-> s, ok |-> TRUE, valid |-> TRUE]],
             waits |-> Before[d] # 0]

Start(w, d, fails) ==
    LET told == Tell(w, d)
    IN IF told.waits THEN told.walk ELSE InitiateLater(told.walk, d, fails)

\* Variant: the answers to an earlier transition are not invalidated.
RequestKeepsAgreement(w, d, s) ==
    Respond([w EXCEPT !.pd[d].requested = s], d, "overwritten")

\* A level of process_set_state_request, domain d to be in state s.
Request(w, d, s) ==
    Respond([w EXCEPT !.pd[d].requested = s, !.pd[d].pre.valid = FALSE], d,
            "overwritten")

Transition(w, d, old, fails) ==
    LET told == Tell([w EXCEPT !.charge = d], d)
    IN IF told.waits THEN told.walk
       ELSE IF d \in fails
       THEN [told.walk EXCEPT !.charge = None, !.pd[d].requested = old,
                              !.status = "device"]
       ELSE [Initiate(told.walk, d) EXCEPT !.first = TRUE]

SetLevel(w, d, s, fails) ==
    LET asked == Request(w, d, s)
    IN CASE w.status # "success" \/ s = w.pd[d].requested -> w
         [] OTHER ->
              IF d # Root /\ s \notin Allowed[d][w.pd[Parent[d]].requested]
              THEN [w EXCEPT !.status = "pwrstate"]
              ELSE IF ~AllowedByChildren(w.pd, d, s) THEN w
              ELSE IF w.pd[d].toDriver = s THEN asked
              ELSE IF w.first \/ ~AllowedByParentAndChildren(asked.pd, d, s)
              THEN [asked EXCEPT !.charge = d]
              ELSE Transition(asked, d, w.pd[d].requested, fails)

\* Variants: always in the same direction.
WalkedFromRoot(w, d, states) == Reverse([k \in DOMAIN states |-> k])

WalkedToRoot(w, d, states) == [k \in DOMAIN states |-> k]

\* process_set_state_request: towards the root when the lowest level that
\* changes gets deeper, and from the root otherwise.  The last domain whose
\* driver has to be called is in charge of the response.
Walked(w, d, states) ==
    LET changes == {k \in DOMAIN states : states[k] # w.pd[Path[d][k]].requested}
        lowest == Min(changes)
        up == changes # {} /\ Deeper(states[lowest], w.pd[Path[d][lowest]].requested)
        levels == [k \in DOMAIN states |-> k]
    IN IF up THEN levels ELSE Reverse(levels)

\* level[n] is the walk after n levels.
SetLevels(w, d, states, fails) ==
    LET walked == Walked(w, d, states)
        level[n \in 0 .. Len(walked)] ==
            IF n = 0 THEN w
            ELSE SetLevel(level[n - 1], Path[d][walked[n]], states[walked[n]], fails)
    IN level[Len(walked)]

SetStates(w, d, states, id, fails) ==
    LET v == SetLevels(w, d, states, fails)
    IN IF id = None THEN v
       ELSE IF v.charge # None THEN [v EXCEPT !.pd[v.charge].response = id]
       ELSE [v EXCEPT !.answer[id] = v.status]

\* complete_system_suspend: only cores have composite states.
CompleteSuspend(w, d, state, fails) ==
    SetStates(w, d,
              [k \in 1 .. Len(Path[d]) |-> IF Path[d][k] = Root THEN state ELSE "OFF"],
              None, fails)

-----------------------------------------------------------------------------
\* The drivers that may refuse while an event is served.
Failures == IF MayFail THEN SUBSET Domains ELSE {{}}

Take(kind) == queue # <<>> /\ Head(queue).kind = kind /\ queue' = Tail(queue)

ProcessSetState ==
    /\ Take("set")
    /\ \E fails \in Failures :
           Done(SetStates(Walk, Head(queue).request[1], Head(queue).request[2],
                          Head(queue).id, fails))
    /\ suspend' = [suspend EXCEPT !.ongoing = FALSE]
    /\ UNCHANGED <<hw, asks>>

\* process_power_state_transition_report_deeper_state
StartParent(w, d, fails) ==
    LET p == Parent[d]
    IN IF \/ d = Root
          \/ w.pd[p].toDriver = w.pd[p].requested
          \/ ~AllowedByParentAndChildren(w.pd, p, w.pd[p].requested)
       THEN w ELSE Start(w, p, fails)

\* process_power_state_transition_report_shallower_state: the children come in
\* the order of their numbers, and the first that is not allowed its state ends
\* the walk.
StartChild(w, c, fails) ==
    IF w.stop \/ ~AllowedByParentAndChildren(w.pd, c, w.pd[c].requested)
    THEN [w EXCEPT !.stop = TRUE] ELSE Start(w, c, fails)

StartChildren(w, d, fails) ==
    LET waiting == {c \in Children(d) : w.pd[c].toDriver # w.pd[c].requested}
        below[n \in 0 .. Max(Domains) + 1] ==  \* the walk of the children below n
            IF n = 0 THEN w
            ELSE IF n - 1 \in waiting THEN StartChild(below[n - 1], n - 1, fails)
            ELSE below[n - 1]
    IN below[Max(Domains) + 1]

\* Variants: in one direction only.
PropagateDown(w, d, new, previous, fails) ==
    IF Deeper(previous, new) THEN StartChildren(w, d, fails) ELSE w

PropagateUp(w, d, new, previous, fails) ==
    IF Deeper(new, previous) THEN StartParent(w, d, fails) ELSE w

Propagate(w, d, new, previous, fails) ==
    CASE Deeper(new, previous) -> StartParent(w, d, fails)
      [] Deeper(previous, new) -> StartChildren(w, d, fails)
      [] OTHER -> w

\* process_power_state_transition_report: the state that was requested is taken
\* for the one reported, because drivers may map states.
Reported(d, s) ==
    LET w == IF s = pd[d].driverState THEN Respond(Walk, d, "success") ELSE Walk
        post == [w.pd[d].post EXCEPT !.state = IF after[d] = 0 THEN s ELSE @]
    IN [w EXCEPT !.pd[d] = [@ EXCEPT !.current = w.pd[d].requested, !.post = post],
                 !.after[d] = IF @ = 0 THEN After[d] ELSE @]

ProcessReport ==
    /\ Take("report")
    /\ LET d == Head(queue).domain
           s == Head(queue).state
           w == Reported(d, s)
           previous == pd[d].current
           last == suspend.ongoing /\ suspend.core = d
           settled == [w EXCEPT !.pd[d].toDriver = w.pd[d].requested]
       IN /\ \E fails \in Failures :
                Done(CASE last -> CompleteSuspend(w, d, suspend.state, fails)
                       [] ~last /\ w.after[d] > 0 ->
                              [w EXCEPT !.pd[d].post.previous = previous]
                       [] OTHER -> Propagate(settled, d, s, previous, fails))
          /\ suspend' = IF last THEN [suspend EXCEPT !.ongoing = FALSE] ELSE suspend
    /\ UNCHANGED <<hw, asks>>

\* process_system_suspend_request: all cores but one have to be off.
ProcessSuspend ==
    /\ Take("suspend")
    /\ LET active == {d \in Domains : pd[d].requested # "OFF" \/ pd[d].current # "OFF"}
           cores == active \cap Cores
           clusters == active \cap Clusters
       IN IF Cardinality(cores) > 1 \/ Cardinality(clusters) > 1
          THEN UNCHANGED <<pd, before, after, driver, answer, heard, lost, suspend>>
          ELSE IF cores # {}
          THEN LET core == Min(cores)
               IN \/ /\ suspend' = [ongoing |-> TRUE, core |-> core,
                                   state |-> Head(queue).state]
                     /\ pd' = [pd EXCEPT ![core].requested = "OFF",
                                         ![core].toDriver = "OFF"]
                     /\ driver' = [driver EXCEPT ![core] = "OFF"]
                     /\ UNCHANGED <<before, after, answer, heard, lost>>
                  \/ MayFail /\ UNCHANGED <<pd, before, after, driver, answer, heard, lost, suspend>>
          ELSE UNCHANGED <<pd, before, after, driver, answer, heard, lost, suspend>>
    /\ UNCHANGED <<hw, asks>>

-----------------------------------------------------------------------------
\* process_power_state_pre_transition_notification_response
AnswerBefore(d) ==
    /\ before[d] > 0
    /\ \E ok \in IF MayFail THEN BOOLEAN ELSE {TRUE}, fails \in Failures :
           LET w == [Walk EXCEPT !.before[d] = @ - 1, !.pd[d].pre.ok = @ /\ ok,
                                 !.heard[d] = IF ok THEN @ + 1 ELSE @]
               pre == w.pd[d].pre
               last == w.before[d] = 0
           IN Done(CASE last /\ pre.valid ->
                            IF pre.ok THEN InitiateLater(w, d, fails)
                            ELSE [w EXCEPT !.lost = TRUE]
                     [] /\ last /\ ~pre.valid
                        /\ pd[d].requested # pd[d].toDriver
                        /\ AllowedByParentAndChildren(pd, d, pd[d].requested) ->
                            Start(w, d, fails)
                     [] OTHER -> w)
    /\ UNCHANGED <<suspend, queue, hw, asks>>

\* process_power_state_transition_notification_response
AnswerAfter(d) ==
    /\ after[d] > 0
    /\ \E fails \in Failures :
           LET w == [Walk EXCEPT !.after[d] = @ - 1]
               post == w.pd[d].post
               current == pd[d].current
           IN Done(CASE w.after[d] # 0 -> w
                     [] w.after[d] = 0 /\ post.state = current ->
                            Propagate([w EXCEPT !.pd[d].post.previous = current],
                                      d, current, post.previous, fails)
                     [] OTHER -> [w EXCEPT !.pd[d].post.state = current,
                                           !.after[d] = After[d]])
    /\ UNCHANGED <<suspend, queue, hw, asks>>

-----------------------------------------------------------------------------
\* Clients, and the drivers of domains.
Levels(r) == {Path[r[1]][k] : k \in DOMAIN r[2]}

AtRest(d) ==
    /\ driver[d] = None /\ before[d] = 0 /\ after[d] = 0
    /\ pd[d].requested = pd[d].toDriver
    /\ \A i \in DOMAIN queue :
           CASE queue[i].kind = "set" -> d \notin Levels(queue[i].request)
             [] queue[i].kind = "report" -> d # queue[i].domain
             [] OTHER -> FALSE

Near(D) == {d \in Domains : d \in D \/ Parent[d] \in D \/ \E e \in D : Parent[e] = d}

\* pd_set_state
SetState ==
    /\ asks < MaxAsks
    /\ \E r \in Requests :
           /\ Valid(r[1], r[2])
           /\ Overlap \/ (~suspend.ongoing /\ \A d \in Near(Levels(r)) : AtRest(d))
           /\ queue' = Append(queue, [kind |-> "set", request |-> r, id |-> asks + 1])
    /\ asks' = asks + 1
    /\ UNCHANGED <<pd, before, after, suspend, driver, hw, answer, heard, lost>>

\* pd_system_suspend
SystemSuspend ==
    /\ asks < MaxAsks
    /\ Overlap \/ \A d \in Domains : AtRest(d)
    /\ Cardinality({c \in Cores : {pd[c].requested, pd[c].current, pd[c].toDriver}
                                  # {"OFF"}}) <= 1
    /\ \E s \in States \ {"ON"} : queue' = Append(queue, [kind |-> "suspend", state |-> s])
    /\ asks' = asks + 1
    /\ UNCHANGED <<pd, before, after, suspend, driver, hw, answer, heard, lost>>

Report(d) ==
    /\ driver[d] # None
    /\ hw' = [hw EXCEPT ![d] = driver[d]]
    /\ driver' = [driver EXCEPT ![d] = None]
    /\ queue' = Append(queue, [kind |-> "report", domain |-> d, state |-> driver[d]])
    /\ UNCHANGED <<pd, before, after, suspend, asks, answer, heard, lost>>

Process == ProcessSetState \/ ProcessReport \/ ProcessSuspend

PdNext == SetState \/ SystemSuspend \/ Process
        \/ \E d \in Domains : Report(d) \/ AnswerBefore(d) \/ AnswerAfter(d)

PdSpec == PdInit /\ [][PdNext]_pdVars

\* The main loop keeps running; drivers and subscribed entities answer.
PdFairSpec ==
    /\ PdSpec
    /\ WF_queue(queue # <<>> /\ queue' = Tail(queue))
    /\ \A d \in Domains :
           /\ WF_driver(driver[d] # None /\ driver' = [driver EXCEPT ![d] = None])
           /\ WF_before(before[d] > 0 /\ before' = [before EXCEPT ![d] = @ - 1])
           /\ WF_after(after[d] > 0 /\ after' = [after EXCEPT ![d] = @ - 1])

-----------------------------------------------------------------------------
\* A domain is never in a state that the state of its parent does not allow,
\* at any moment of their transitions: "The module will ensure that, for each
\* power state transition, the parent and the children of the power domain
\* involved are in a state where the transition can be completed"
\* (mod_power_domain.h).
May(d) == {hw[d], driver[d]} \ {None}

TreeSafe ==
    /\ PdTypeOK
    /\ \A d \in Domains \ {Root} :
           \A s \in May(d), t \in May(Parent[d]) : s \in Allowed[d][t]

\* A driver is called when every entity that is told before the transition has
\* agreed to it: "Defer the power state transition if power state pre-transition
\* notification responses need to be waited for" (mod_power_domain.c).  Nobody
\* is told of the suspension of the last core.
AgreedFirst ==
    [][\A d \in Domains :
          driver'[d] \notin {driver[d], None} /\ (suspend'.ongoing => d # suspend'.core)
              => before'[d] = 0 /\ heard[d] + before[d] >= Before[d] /\ pd'[d].pre.ok]_pdVars

Serves(kind, id) ==
    /\ queue # <<>> /\ queue' = Tail(queue)
    /\ Head(queue).kind = kind /\ Head(queue).id = id

\* A request is taken as far as it can be: after its handler a domain is asked
\* for another state than the request names only if its parent or a child, as
\* they are asked to be, do not allow that state, or a driver refused.
TakenInFull ==
    [][\A id \in Ids :
          LET r == Head(queue).request
              asked(d) == pd'[d].requested
          IN Serves("set", id) /\ answer'[id] # "device" =>
                 \A k \in DOMAIN r[2] :
                     LET d == Path[r[1]][k]
                     IN \/ asked(d) = r[2][k]
                        \/ d # Root /\ r[2][k] \notin Allowed[d][asked(Parent[d])]
                        \/ \E c \in Children(d) : asked(c) \notin Allowed[c][r[2][k]]]_pdVars

\* Each request is answered and then the tree gets as requested, and the module
\* knows the states it is in, unless a transition that a request waits for was
\* refused.
EventuallyDone ==
    /\ \A id \in Ids :
           (\E i \in DOMAIN queue : queue[i].kind = "set" /\ queue[i].id = id)
               ~> (answer[id] # None \/ lost)
    /\ <>[](lost \/ \A d \in Domains : pd[d].current = pd[d].requested
                                        /\ hw[d] = pd[d].current)
=============================================================================
