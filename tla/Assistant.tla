------------------------------ MODULE Assistant ------------------------------
(***************************************************************************)
(* One question to the assistant, POST /ai/ask: the settings and the tools *)
(* are read, the provider is asked what to search for, the search is made, *)
(* and the provider is asked for an answer, the tools it calls being run   *)
(* in between.  Each of these steps reads the database anew, but the       *)
(* settings and the tools offered are those of the beginning.              *)
(*                                                                         *)
(* The loop with the provider is written twice in the code, for OpenAI's   *)
(* Responses API and for chat completions (Groq); req.backend says which.  *)
(* The provider is external and may reply anything at all.  The asker has  *)
(* a settings row (making one would commit) and no post.update_any.        *)
(***************************************************************************)
EXTENDS Naturals, SequencesExt

CONSTANTS
    Posts,
    MaxIterations,  \* ai_max_tool_iterations, at least 1
    MaxEdits        \* bound: changes others commit

VARIABLES
    facts,    \* what the database says of the asker, the posts and a plugin
    req,      \* the request: where it is, its backend, and the calls still to be run
    offered,  \* the registry's tools that not every ask has
    replies,  \* the provider's replies to the question itself
    log,      \* the activity entries committed, with what was true of them then
    told,     \* the posts the provider was told of
    cards,    \* referenced_posts: those the app will show with the answer
    seen,     \* the posts listed, and readable, for the asker at some time since the ask began
    edits

vars == <<facts, req, offered, replies, log, told, cards, seen, edits>>

Reference == {"get_post", "search_posts", "get_user_posts"}
OnePost   == {"get_post", "get_post_tags"}
Searches  == {"search_posts", "get_user_posts", "get_nearby_content"}
BuiltIn   == OnePost \cup Searches \cup {"search_tags", "search_events"}
Tools     == BuiltIn \cup {"get_user_settings", "ecommerce_search_products"}

\* A function call of the provider: a tool that may not exist, arguments that
\* may not be JSON or not fit its model, and the post they name.
FunctionCall(tool, arguments) == [tool |-> tool, arguments |-> arguments]
Calls == {FunctionCall(t, "fit") : t \in Tools \cup {"another"}}
         \cup {FunctionCall("search_posts", a) : a \in {"unfit", "not json"}}
Reply(kind, calls) == [kind |-> kind, calls |-> calls]
Failures == {"timeout", "rate limited", "unavailable"}
Replies  ==
    {Reply(k, <<>>) : k \in Failures \cup {"text", "no text"}}
    \cup {Reply("calls", <<c>>) : c \in Calls}
    \cup {Reply("calls", <<FunctionCall("search_posts", "fit"), c>>) : c \in Calls}
NoFacts == [ai |-> FALSE, personal |-> FALSE, private |-> FALSE, events |-> FALSE,
            plugin |-> "gone", listed |-> {}, readable |-> {}]
Idle    == [at |-> "idle", outcome |-> "none", backend |-> "none",
            calls |-> <<>>, asked |-> 0, choice |-> "none", began |-> NoFacts]
Visible(f) == [listed |-> f.listed, readable |-> f.readable]
\* An activity entry: the tool, or "answer"; was the asker allowed it then,
\* and which posts did it return?
Entry(tool, allowed, posts) == [tool |-> tool, allowed |-> allowed, posts |-> posts]

TypeOK ==
    /\ facts.listed \subseteq facts.readable /\ facts.readable \subseteq Posts
    /\ facts.plugin \in {"serving", "off", "gone"}
    /\ req.at \in {"idle", "intent", "search", "call", "tools", "done"}
    /\ req.asked \in 0 .. MaxIterations + 1 /\ req.choice \in {"none", "auto"}
    /\ offered \subseteq Tools
    /\ cards \cup told \cup seen.listed \cup seen.readable \subseteq Posts
    /\ edits \in 0 .. MaxEdits

\* The other posts are those of communities the asker is a member of.
Listed == CHOOSE p \in Posts : TRUE
Init ==
    /\ facts = [ai |-> TRUE, personal |-> TRUE, private |-> TRUE, events |-> TRUE,
                plugin |-> "serving", listed |-> {Listed}, readable |-> Posts]
    /\ req = Idle
    /\ offered = {}
    /\ replies = <<>>
    /\ log = <<>>
    /\ told = {} /\ cards = {}
    /\ seen = Visible(NoFacts)
    /\ edits = 0

Goes(changes) == req' = [f \in DOMAIN req |-> IF f \in DOMAIN changes THEN changes[f] ELSE req[f]]
Ends(outcome) == Goes([at |-> "done", outcome |-> outcome])
Asks(asked, choice) == Goes([at |-> "call", calls |-> <<>>, asked |-> asked, choice |-> choice])

-----------------------------------------------------------------------------
PluginTools == IF facts.plugin = "serving" THEN {"ecommerce_search_products"} ELSE {}

\* AIService.ask, up to its first call of the provider.
Ask ==
    /\ req.at = "idle"
    /\ \E backend \in {"responses", "chat"} :
          req' = [Idle EXCEPT !.at = IF facts.ai THEN "intent" ELSE "done",
                              !.outcome = IF facts.ai THEN "none" ELSE "disabled",
                              !.backend = backend, !.began = facts]
    /\ offered' = IF facts.ai THEN BuiltIn \cup PluginTools
                                   \cup (IF facts.personal THEN {"get_user_settings"} ELSE {})
                  ELSE {}
    /\ seen' = Visible(facts)
    /\ UNCHANGED <<facts, replies, log, told, cards, edits>>

\* What a text says when it is read as a search intent: it may be no such
\* object, and be one that is not is_searchable.
Intents == {"unreadable", "not searchable", "searchable"}

\* The provider's reply about the intent, which has no tools: a call is
\* refused by _no_tools, and only what is wrong with the reply is forgiven.
ReplyIntent(r) ==
    /\ req.at = "intent"
    /\ CASE r.kind \in Failures -> Ends(r.kind)
         [] r.kind = "no text" -> Asks(1, "auto")
         [] r.kind = "calls" -> IF r.calls[1].arguments = "not json" THEN Asks(1, "auto")
                                ELSE Ends("unknown tool")
         [] OTHER -> \E i \in Intents : IF i = "searchable" THEN Goes([at |-> "search"])
                                        ELSE Asks(1, "auto")
    /\ UNCHANGED <<facts, offered, replies, log, told, cards, seen, edits>>

\* PostRepository.search, search_nearby, list_by_user: some of the posts that
\* are in the lists for the asker, private ones of communities never.
Found == SUBSET facts.listed

\* NativeLifeRetriever.retrieve, near the user or not; the businesses found go
\* to the provider only.
Retrieve ==
    /\ req.at = "search"
    /\ \E found \in Found : told' = found /\ cards' = found
    /\ Asks(1, "auto")
    /\ UNCHANGED <<facts, offered, replies, log, seen, edits>>

-----------------------------------------------------------------------------
\* Is the tool_choice of call n "none"?  The Responses loop forbids tools in
\* the call that ends its last round, the chat loop in its last turn.
Choice(n) ==
    IF \/ req.backend = "responses" /\ n - 2 = MaxIterations - 1
       \/ req.backend = "chat" /\ n - 1 = MaxIterations
    THEN "none" ELSE "auto"

\* Are there rounds left to run the calls of reply n in?  A chat turn runs
\* its calls before it is known to be the last.
RunsCalls(n) == req.backend = "responses" => n <= MaxIterations

\* A reply to the question, in _ResponsesBackend.run or
\* _ChatCompletionsBackend.run: calls are looked at before text.
ReplyAnswer(r) ==
    /\ req.at = "call"
    /\ replies' = Append(replies, r)
    /\ CASE r.kind \in Failures -> Ends(r.kind)
         [] r.kind = "no text" -> Ends("malformed")
         [] r.kind = "text" -> Ends("answered")
         [] r.kind = "calls" /\ RunsCalls(req.asked) -> Goes([at |-> "tools", calls |-> r.calls])
         [] OTHER -> Ends("limit")
    /\ log' = IF r.kind = "text" THEN Append(log, Entry("answer", TRUE, {})) ELSE log
    /\ UNCHANGED <<facts, offered, told, cards, seen, edits>>

\* The asker as the session has it: read before the ask, and again after
\* every commit, which each entry of the log is.
Asker == IF log = <<>> THEN req.began ELSE facts

\* May the asker have the tool run?  get_user_posts is about another user;
\* the settings are those the ask began with.
May(tool, asker) ==
    CASE tool = "get_user_posts" -> asker.private
      [] tool = "search_events"  -> asker.events
      [] OTHER -> TRUE

\* The posts a tool may return, one possible result a member; none when it
\* fails: the post is not visible, or the plugin's tables are gone.
Results(tool) ==
    CASE tool \in OnePost  -> {{p} : p \in facts.readable}
      [] tool \in Searches -> Found
      [] tool = "ecommerce_search_products" /\ facts.plugin = "gone" -> {}
      [] OTHER -> {{}}

\* AIToolRegistry.execute: why it fails before the tool is run, if it does.
Refusal(call) ==
    IF call.arguments = "not json" THEN "malformed"
    ELSE IF call.tool \notin offered THEN "unknown tool"
    ELSE IF call.arguments = "unfit" THEN "invalid arguments"
    ELSE IF ~May(call.tool, Asker) THEN "forbidden" ELSE "none"

\* The next call: handle_tool_call runs it, commits the entry and keeps the
\* posts it refers to.  After the last call of a reply the provider is asked
\* again, unless it was the chat loop's last turn.
After(calls) ==
    IF calls # <<>> THEN Goes([calls |-> calls])
    ELSE IF req.asked > MaxIterations THEN Ends("limit")
    ELSE Asks(req.asked + 1, Choice(req.asked + 1))
RunTool ==
    /\ req.at = "tools"
    /\ LET call == Head(req.calls)  refusal == Refusal(call) IN
       \/ /\ refusal # "none"
          /\ Ends(refusal)
          /\ UNCHANGED <<log, told, cards>>
       \/ /\ refusal = "none"
          /\ Results(call.tool) = {} \/ (call.tool \in OnePost /\ facts.readable # Posts)
          /\ Ends("tool failed")
          /\ UNCHANGED <<log, told, cards>>
       \/ /\ refusal = "none"
          /\ \E posts \in Results(call.tool) :
                /\ log' = Append(log, Entry(call.tool, May(call.tool, facts), posts))
                /\ told' = told \cup posts
                /\ cards' = IF call.tool \in Reference THEN cards \cup posts ELSE cards
          /\ After(Tail(req.calls))
    /\ UNCHANGED <<facts, offered, replies, seen, edits>>

-----------------------------------------------------------------------------
\* Others' commits: the asker's settings, rights and posts, the plugin.
Edit ==
    /\ req.at # "done" /\ edits < MaxEdits
    /\ edits' = edits + 1
    /\ \E f \in {"ai", "personal", "private", "events"}, p \in Posts :
          facts' \in {[facts EXCEPT ![f] = FALSE],
                      [facts EXCEPT !.plugin = IF @ = "serving" THEN "off" ELSE "gone"],
                      [facts EXCEPT !.listed = @ \ {p}, !.readable = @ \ {p}],
                      [facts EXCEPT !.listed = @ \cup {p}, !.readable = @ \cup {p}]}
    /\ facts' # facts
    /\ seen' = [l \in DOMAIN seen |-> seen[l] \cup facts'[l]]
    /\ UNCHANGED <<req, offered, replies, log, told, cards>>

Next ==
    \/ Ask \/ Retrieve \/ RunTool \/ Edit
    \/ \E r \in Replies : ReplyIntent(r) \/ ReplyAnswer(r)

Spec == Init /\ [][Next]_vars

-----------------------------------------------------------------------------
Done    == req.at = "done"
Asked   == FlattenSeq([i \in DOMAIN replies |-> [j \in DOMAIN replies[i].calls |-> replies[i].calls[j].tool]])
Entries == SelectSeq(log, LAMBDA e : e.tool # "answer")
Ran     == [i \in DOMAIN Entries |-> Entries[i].tool]

\* The provider is called at most once per iteration and once more, and the
\* last call it can get forbids tools, so that it is asked for an answer.
CallsBounded ==
    /\ Len(replies) <= MaxIterations + 1
    /\ req.at = "call" /\ req.asked = MaxIterations + 1 => req.choice = "none"

\* Whatever the backend, the outcome follows from the replies: the answer is
\* the first text, all tools called before it were run in order and have
\* their entries, each before the provider hears of its result; an ask that
\* ends otherwise has entries for what ran and none for an answer.  Only the
\* calls of a last reply differ: Responses drops them, chat runs them first.
RepliesFollowed ==
    /\ IsPrefix(Ran, Asked)
    /\ req.at = "call" => Ran = Asked
    /\ req.outcome = "answered" => Ran = Asked /\ Last(log).tool = "answer"
    /\ req.outcome # "answered" => Ran = [i \in DOMAIN log |-> log[i].tool]
    /\ req.outcome = "limit" =>
          /\ Len(replies) = MaxIterations + 1
          /\ Len(Ran) = Len(Asked) - IF req.backend = "chat" THEN 0 ELSE Len(Last(replies).calls)

\* A tool ran with a right the asker had when it ran, or, only for the first
\* one, when the ask began; what was offered is what the settings and the
\* enabled plugins were when it began, and no later change withdraws it.
ToolsAllowed ==
    \A i \in DOMAIN log : LET e == log[i] IN
        /\ e.allowed \/ (i = 1 /\ May(e.tool, req.began))
        /\ e.tool = "get_user_settings" => req.began.personal
        /\ e.tool = "ecommerce_search_products" => req.began.plugin = "serving"

\* The provider is told of no post the asker could not see at some time since
\* the ask began, of none outside the lists but by get_post or its tags; and
\* the app shows no post the provider was not told of.
PostsVisible ==
    /\ cards \subseteq told
    /\ \A p \in told :
          \/ p \in seen.listed
          \/ p \in seen.readable /\ \E i \in DOMAIN log : log[i].tool \in OnePost /\ p \in log[i].posts

\* Their inductive invariant, with what the request has and may still ask for.
FactRows  == [ai : BOOLEAN, personal : BOOLEAN, private : BOOLEAN, events : BOOLEAN,
              plugin : {"serving", "off", "gone"}, listed : SUBSET Posts, readable : SUBSET Posts]
EntryRows == [tool : Tools \cup {"answer"}, allowed : BOOLEAN, posts : SUBSET Posts]
AskTypes ==
    /\ facts \in FactRows /\ facts.listed \subseteq facts.readable
    /\ DOMAIN req = DOMAIN Idle /\ req.began \in FactRows
    /\ req.at \in {"idle", "intent", "search", "call", "tools", "done"}
    /\ req.choice \in {"none", "auto"}
    /\ offered \subseteq Tools /\ told \subseteq Posts /\ edits \in 0 .. MaxEdits
    /\ seen \in [listed : SUBSET Posts, readable : SUBSET Posts]
    /\ replies \in Seq(Replies) /\ log \in Seq(EntryRows)
OfferedAsBegan ==
    /\ "get_user_settings" \in offered => req.began.personal
    /\ "ecommerce_search_products" \in offered => req.began.plugin = "serving"
SinceBegan ==
    IF req.at = "idle" THEN log = <<>> /\ told = {} /\ cards = {} /\ replies = <<>> /\ req.asked = 0
    ELSE /\ facts.listed \subseteq seen.listed /\ facts.readable \subseteq seen.readable
         /\ req.backend \in {"responses", "chat"}
RepliesCounted ==
    /\ req.asked \in 0 .. MaxIterations + 1
    /\ req.at \in {"intent", "search"} => replies = <<>>
    /\ req.at = "call" => req.asked > 0 /\ Len(replies) = req.asked - 1
    /\ req.at = "tools" => req.asked > 0 /\ Len(replies) = req.asked
AskIInv == AskTypes /\ OfferedAsBegan /\ SinceBegan /\ RepliesCounted
           /\ CallsBounded /\ ToolsAllowed /\ PostsVisible
=============================================================================
