------------------------------- MODULE SdkCalls -------------------------------
(***************************************************************************)
(* The methods of the Python SDK that turn a call into one request          *)
(* (sdk-py/langgraph_sdk/client.py). Every client is written twice, for      *)
(* asyncio and without; here both are asked the same, and what reaches the   *)
(* server is compared.                                                      *)
(*                                                                         *)
(* A caller leaves an argument out, gives it empty (0, False, "", {}, []) or *)
(* gives it. "if x:" sends what is given; "if x is not None" what is given or*)
(* empty; what has a default that is not None is always sent. Left out:      *)
(* headers and params, which every method passes on, and the values.        *)
(***************************************************************************)
VARIABLES
    call,               \* the method and the arguments given and given empty
    requests,           \* what the two clients send
    answers             \* how wait ends, for each client

-----------------------------------------------------------------------------
Given(a, names) == names \cap a.given
Provided(a, names) == names \cap (a.given \cup a.empty)

Get(path, sent) == [verb |-> "GET", path |-> path, sent |-> sent]
Post(path, sent) == [verb |-> "POST", path |-> path, sent |-> sent]
Put(path, sent) == [verb |-> "PUT", path |-> path, sent |-> sent]
Patch(path, sent) == [verb |-> "PATCH", path |-> path, sent |-> sent]
Delete(path, sent) == [verb |-> "DELETE", path |-> path, sent |-> sent]

\* Asked again at the Location of the answer when the connection breaks: SdkRequest.
Reconnect(verb, path, sent) == [verb |-> verb, path |-> path, sent |-> sent]

\* A stream: SdkStream.
Stream(verb, path, sent) == [verb |-> verb, path |-> path, sent |-> sent]

-----------------------------------------------------------------------------
(* AssistantsClient.                                                        *)

AssistantsGet(a) == Get("/assistants/{assistant_id}", {})
AssistantsGetGraph(a) == Get("/assistants/{assistant_id}/graph", {"xray"})
AssistantsGetSchemas(a) == Get("/assistants/{assistant_id}/schemas", {})
AssistantsGetSubgraphs(a) ==
    IF Provided(a, {"namespace"}) # {}
    THEN Get("/assistants/{assistant_id}/subgraphs/{namespace}", {"namespace", "recurse"})
    ELSE Get("/assistants/{assistant_id}/subgraphs", {"recurse"})
AssistantsCreate(a) ==
    Post("/assistants",
         {"graph_id"} \cup Given(a, {"config", "context", "metadata", "assistant_id",
                                     "if_exists", "name", "description"}))
AssistantsUpdate(a) ==
    Patch("/assistants/{assistant_id}",
          Given(a, {"graph_id", "config", "context", "metadata", "name", "description"}))
AssistantsDelete(a) == Delete("/assistants/{assistant_id}", {})
AssistantsSearch(a) ==
    Post("/assistants/search",
         {"limit", "offset"} \cup Given(a, {"metadata", "graph_id", "name", "sort_by",
                                            "sort_order", "select"}))
AssistantsCount(a) == Post("/assistants/count", Given(a, {"metadata", "graph_id", "name"}))
AssistantsGetVersions(a) ==
    Post("/assistants/{assistant_id}/versions",
         {"limit", "offset"} \cup Given(a, {"metadata"}))
AssistantsSetLatest(a) == Post("/assistants/{assistant_id}/latest", {"version"})

(* ThreadsClient.                                                           *)

ThreadsGet(a) == Get("/threads/{thread_id}", {})
ThreadsCreate(a) ==
    Post("/threads", Given(a, {"thread_id", "metadata", "graph_id", "if_exists", "supersteps"})
                     \cup Provided(a, {"ttl"}))
ThreadsUpdate(a) == Patch("/threads/{thread_id}", {"metadata"} \cup Provided(a, {"ttl"}))
ThreadsDelete(a) == Delete("/threads/{thread_id}", {})
ThreadsSearch(a) ==
    Post("/threads/search",
         {"limit", "offset"} \cup Given(a, {"metadata", "values", "ids", "status", "sort_by",
                                            "sort_order", "select"}))
ThreadsCount(a) == Post("/threads/count", Given(a, {"metadata", "values", "status"}))
ThreadsCopy(a) == Post("/threads/{thread_id}/copy", {})
ThreadsGetState(a) ==
    IF Given(a, {"checkpoint"}) # {}
    THEN Post("/threads/{thread_id}/state/checkpoint", {"checkpoint", "subgraphs"})
    ELSE IF Given(a, {"checkpoint_id"}) # {}
    THEN Get("/threads/{thread_id}/state/{checkpoint_id}", {"checkpoint_id", "subgraphs"})
    ELSE Get("/threads/{thread_id}/state", {"subgraphs"})
ThreadsUpdateState(a) ==
    Post("/threads/{thread_id}/state",
         {"values"} \cup Given(a, {"checkpoint_id", "checkpoint", "as_node"}))
ThreadsGetHistory(a) ==
    Post("/threads/{thread_id}/history",
         {"limit"} \cup Given(a, {"before", "metadata", "checkpoint"}))
ThreadsJoinStream(a) ==
    Stream("GET", "/threads/{thread_id}/stream",
           {"stream_mode"} \cup Given(a, {"last_event_id"}))

(* RunsClient: every one of these three may be on a thread or on none.      *)

RunsStream(a) ==
    Stream("POST", IF Provided(a, {"thread_id"}) # {}
                   THEN "/threads/{thread_id}/runs/stream" ELSE "/runs/stream",
           {"assistant_id", "stream_mode", "stream_subgraphs", "stream_resumable"}
             \cup Given(a, {"command"})
             \cup Provided(a, {"input", "config", "context", "metadata", "interrupt_before",
                               "interrupt_after", "feedback_keys", "webhook", "checkpoint",
                               "checkpoint_id", "checkpoint_during", "multitask_strategy",
                               "if_not_exists", "on_disconnect", "on_completion",
                               "after_seconds", "durability"}))
RunsCreate(a) ==
    Post(IF Given(a, {"thread_id"}) # {} THEN "/threads/{thread_id}/runs" ELSE "/runs",
         {"assistant_id", "stream_mode", "stream_subgraphs", "stream_resumable"}
           \cup Given(a, {"command"})
           \cup Provided(a, {"input", "config", "context", "metadata", "interrupt_before",
                             "interrupt_after", "webhook", "checkpoint", "checkpoint_id",
                             "checkpoint_during", "multitask_strategy", "if_not_exists",
                             "on_completion", "after_seconds", "durability"}))
RunsCreateBatch(a) == Post("/runs/batch", {"payloads"})
RunsWait(a) ==
    Reconnect("POST", IF Provided(a, {"thread_id"}) # {}
                      THEN "/threads/{thread_id}/runs/wait" ELSE "/runs/wait",
              {"assistant_id"}
                \cup Given(a, {"command"})
                \cup Provided(a, {"input", "config", "context", "metadata",
                                  "interrupt_before", "interrupt_after", "webhook",
                                  "checkpoint", "checkpoint_id", "checkpoint_during",
                                  "multitask_strategy", "if_not_exists", "on_disconnect",
                                  "on_completion", "after_seconds", "durability"}))
RunsList(a) ==
    Get("/threads/{thread_id}/runs",
        {"limit", "offset"} \cup Provided(a, {"status"}) \cup Given(a, {"select"}))
RunsGet(a) == Get("/threads/{thread_id}/runs/{run_id}", {})
RunsCancel(a) ==
    IF Given(a, {"wait"}) # {}
    THEN Reconnect("POST", "/threads/{thread_id}/runs/{run_id}/cancel", {"wait", "action"})
    ELSE Post("/threads/{thread_id}/runs/{run_id}/cancel", {"wait", "action"})
RunsJoin(a) == Reconnect("GET", "/threads/{thread_id}/runs/{run_id}/join", {})
RunsJoinStream(a) ==
    Stream("GET", "/threads/{thread_id}/runs/{run_id}/stream",
           {"cancel_on_disconnect", "stream_mode"} \cup Given(a, {"last_event_id"}))
RunsDelete(a) == Delete("/threads/{thread_id}/runs/{run_id}", {})

\* An answer that holds the run's error.
RunsWaitEnds(a, failed) ==
    IF failed /\ "raise_error" \notin a.empty THEN "raised" ELSE "returned"

(* CronClient.                                                              *)

CronsCreateForThread(a) ==
    Post("/threads/{thread_id}/runs/crons",
         {"schedule", "assistant_id"}
           \cup Given(a, {"end_time", "multitask_strategy"})
           \cup Provided(a, {"input", "config", "metadata", "context", "checkpoint_during",
                             "interrupt_before", "interrupt_after", "webhook", "enabled"}))
CronsCreate(a) ==
    Post("/runs/crons",
         {"schedule", "assistant_id"}
           \cup Given(a, {"end_time", "multitask_strategy"})
           \cup Provided(a, {"input", "config", "metadata", "context", "checkpoint_during",
                             "interrupt_before", "interrupt_after", "webhook",
                             "on_run_completed", "enabled"}))
CronsDelete(a) == Delete("/runs/crons/{cron_id}", {})
CronsUpdate(a) ==
    Patch("/runs/crons/{cron_id}",
          Given(a, {"end_time"})
            \cup Provided(a, {"schedule", "input", "metadata", "config", "context", "webhook",
                              "interrupt_before", "interrupt_after", "on_run_completed",
                              "enabled"}))
CronsSearch(a) ==
    Post("/runs/crons/search",
         {"limit", "offset"}
           \cup Given(a, {"sort_by", "sort_order", "select"})
           \cup Provided(a, {"assistant_id", "thread_id", "enabled"}))
CronsCount(a) == Post("/runs/crons/count", Given(a, {"assistant_id", "thread_id"}))

(* StoreClient.                                                             *)

\* Mutant: what is empty is taken for nothing.
StorePutItemGiven(a) ==
    Put("/store/items", {"namespace", "key", "value"} \cup Given(a, {"index", "ttl"}))

StorePutItem(a) ==
    Put("/store/items", {"namespace", "key", "value"} \cup Provided(a, {"index", "ttl"}))
StoreGetItem(a) ==
    Get("/store/items", {"namespace", "key"} \cup Provided(a, {"refresh_ttl"}))
StoreDeleteItem(a) == Delete("/store/items", {"namespace", "key"})
StoreSearchItems(a) ==
    Post("/store/items/search",
         {"namespace_prefix", "limit", "offset"}
           \cup Provided(a, {"filter", "query", "refresh_ttl"}))
StoreListNamespaces(a) ==
    Post("/store/namespaces",
         {"limit", "offset"} \cup Provided(a, {"prefix", "suffix", "max_depth"}))

-----------------------------------------------------------------------------
(* SyncHttpClient.                                                          *)

SyncGet(path, sent) == [verb |-> "GET", path |-> path, sent |-> sent]
SyncPost(path, sent) == [verb |-> "POST", path |-> path, sent |-> sent]
SyncPut(path, sent) == [verb |-> "PUT", path |-> path, sent |-> sent]
SyncPatch(path, sent) == [verb |-> "PATCH", path |-> path, sent |-> sent]
SyncDelete(path, sent) == [verb |-> "DELETE", path |-> path, sent |-> sent]
SyncReconnect(verb, path, sent) == [verb |-> verb, path |-> path, sent |-> sent]
SyncStream(verb, path, sent) == [verb |-> verb, path |-> path, sent |-> sent]

(* SyncAssistantsClient.                                                        *)

SyncAssistantsGet(a) == SyncGet("/assistants/{assistant_id}", {})
SyncAssistantsGetGraph(a) == SyncGet("/assistants/{assistant_id}/graph", {"xray"})
SyncAssistantsGetSchemas(a) == SyncGet("/assistants/{assistant_id}/schemas", {})
SyncAssistantsGetSubgraphs(a) ==
    IF Provided(a, {"namespace"}) # {}
    THEN SyncGet("/assistants/{assistant_id}/subgraphs/{namespace}", {"namespace", "recurse"})
    ELSE SyncGet("/assistants/{assistant_id}/subgraphs", {"recurse"})
SyncAssistantsCreate(a) ==
    SyncPost("/assistants",
         {"graph_id"} \cup Given(a, {"config", "context", "metadata", "assistant_id",
                                     "if_exists", "name", "description"}))
SyncAssistantsUpdate(a) ==
    SyncPatch("/assistants/{assistant_id}",
          Given(a, {"graph_id", "config", "context", "metadata", "name", "description"}))
SyncAssistantsDelete(a) == SyncDelete("/assistants/{assistant_id}", {})
SyncAssistantsSearch(a) ==
    SyncPost("/assistants/search",
         {"limit", "offset"} \cup Given(a, {"metadata", "graph_id", "name", "sort_by",
                                            "sort_order", "select"}))
SyncAssistantsCount(a) == SyncPost("/assistants/count", Given(a, {"metadata", "graph_id", "name"}))
SyncAssistantsGetVersions(a) ==
    SyncPost("/assistants/{assistant_id}/versions",
         {"limit", "offset"} \cup Given(a, {"metadata"}))
SyncAssistantsSetLatest(a) == SyncPost("/assistants/{assistant_id}/latest", {"version"})

(* SyncThreadsClient.                                                           *)

SyncThreadsGet(a) == SyncGet("/threads/{thread_id}", {})
SyncThreadsCreate(a) ==
    SyncPost("/threads", Given(a, {"thread_id", "metadata", "graph_id", "if_exists", "supersteps"})
                     \cup Provided(a, {"ttl"}))
SyncThreadsUpdate(a) == SyncPatch("/threads/{thread_id}", {"metadata"} \cup Provided(a, {"ttl"}))
SyncThreadsDelete(a) == SyncDelete("/threads/{thread_id}", {})
SyncThreadsSearch(a) ==
    SyncPost("/threads/search",
         {"limit", "offset"} \cup Given(a, {"metadata", "values", "ids", "status", "sort_by",
                                            "sort_order", "select"}))
SyncThreadsCount(a) == SyncPost("/threads/count", Given(a, {"metadata", "values", "status"}))
SyncThreadsCopy(a) == SyncPost("/threads/{thread_id}/copy", {})
SyncThreadsGetState(a) ==
    IF Given(a, {"checkpoint"}) # {}
    THEN SyncPost("/threads/{thread_id}/state/checkpoint", {"checkpoint", "subgraphs"})
    ELSE IF Given(a, {"checkpoint_id"}) # {}
    THEN SyncGet("/threads/{thread_id}/state/{checkpoint_id}", {"checkpoint_id", "subgraphs"})
    ELSE SyncGet("/threads/{thread_id}/state", {"subgraphs"})
SyncThreadsUpdateState(a) ==
    SyncPost("/threads/{thread_id}/state",
         {"values"} \cup Given(a, {"checkpoint_id", "checkpoint", "as_node"}))
SyncThreadsGetHistory(a) ==
    SyncPost("/threads/{thread_id}/history",
         {"limit"} \cup Given(a, {"before", "metadata", "checkpoint"}))
SyncThreadsJoinStream(a) ==
    SyncStream("GET", "/threads/{thread_id}/stream",
           {"stream_mode"} \cup Given(a, {"last_event_id"}))

(* SyncRunsClient: every one of these three may be on a thread or on none.      *)

SyncRunsStream(a) ==
    SyncStream("POST", IF Provided(a, {"thread_id"}) # {}
                   THEN "/threads/{thread_id}/runs/stream" ELSE "/runs/stream",
           {"assistant_id", "stream_mode", "stream_subgraphs", "stream_resumable"}
             \cup Given(a, {"command"})
             \cup Provided(a, {"input", "config", "context", "metadata", "interrupt_before",
                               "interrupt_after", "feedback_keys", "webhook", "checkpoint",
                               "checkpoint_id", "checkpoint_during", "multitask_strategy",
                               "if_not_exists", "on_disconnect", "on_completion",
                               "after_seconds", "durability"}))
SyncRunsCreate(a) ==
    SyncPost(IF Given(a, {"thread_id"}) # {} THEN "/threads/{thread_id}/runs" ELSE "/runs",
         {"assistant_id", "stream_mode", "stream_subgraphs", "stream_resumable"}
           \cup Given(a, {"command"})
           \cup Provided(a, {"input", "config", "context", "metadata", "interrupt_before",
                             "interrupt_after", "webhook", "checkpoint", "checkpoint_id",
                             "checkpoint_during", "multitask_strategy", "if_not_exists",
                             "on_completion", "after_seconds", "durability"}))
SyncRunsCreateBatch(a) == SyncPost("/runs/batch", {"payloads"})
SyncRunsWait(a) ==
    SyncReconnect("POST", IF Provided(a, {"thread_id"}) # {}
                      THEN "/threads/{thread_id}/runs/wait" ELSE "/runs/wait",
              {"assistant_id", "raise_error"}
                \cup Given(a, {"command"})
                \cup Provided(a, {"input", "config", "context", "metadata",
                                  "interrupt_before", "interrupt_after", "webhook",
                                  "checkpoint", "checkpoint_id", "checkpoint_during",
                                  "multitask_strategy", "if_not_exists", "on_disconnect",
                                  "on_completion", "after_seconds", "durability"}))
SyncRunsList(a) ==
    SyncGet("/threads/{thread_id}/runs",
        {"limit", "offset"} \cup Provided(a, {"status"}) \cup Given(a, {"select"}))
SyncRunsGet(a) == SyncGet("/threads/{thread_id}/runs/{run_id}", {})
SyncRunsCancel(a) ==
    IF Given(a, {"wait"}) # {}
    THEN SyncReconnect("POST", "/threads/{thread_id}/runs/{run_id}/cancel", {"wait", "action"})
    ELSE SyncPost("/threads/{thread_id}/runs/{run_id}/cancel", {"wait", "action"})
SyncRunsJoin(a) == SyncReconnect("GET", "/threads/{thread_id}/runs/{run_id}/join", {})
SyncRunsJoinStream(a) ==
    SyncStream("GET", "/threads/{thread_id}/runs/{run_id}/stream",
           {"cancel_on_disconnect", "stream_mode"} \cup Given(a, {"last_event_id"}))
SyncRunsDelete(a) == SyncDelete("/threads/{thread_id}/runs/{run_id}", {})

\* Nothing looks at the answer here.
SyncRunsWaitEnds(a, failed) ==
    "returned"

(* SyncCronClient.                                                              *)

SyncCronsCreateForThread(a) ==
    SyncPost("/threads/{thread_id}/runs/crons",
         {"schedule", "assistant_id"}
           \cup Given(a, {"end_time"})
           \cup Provided(a, {"input", "config", "metadata", "context", "checkpoint_during",
                             "interrupt_before", "interrupt_after", "webhook", "enabled",
                             "multitask_strategy"}))
SyncCronsCreate(a) ==
    SyncPost("/runs/crons",
         {"schedule", "assistant_id"}
           \cup Given(a, {"end_time"})
           \cup Provided(a, {"input", "config", "metadata", "context", "checkpoint_during",
                             "interrupt_before", "interrupt_after", "webhook",
                             "on_run_completed", "enabled", "multitask_strategy"}))
SyncCronsDelete(a) == SyncDelete("/runs/crons/{cron_id}", {})
\* Mutant: a field that only the other client was taught.
SyncCronsUpdateOlder(a) ==
    SyncPatch("/runs/crons/{cron_id}",
          Given(a, {"end_time"})
            \cup Provided(a, {"schedule", "input", "metadata", "config", "context", "webhook",
                              "interrupt_before", "interrupt_after", "on_run_completed"}))

SyncCronsUpdate(a) ==
    SyncPatch("/runs/crons/{cron_id}",
          Given(a, {"end_time"})
            \cup Provided(a, {"schedule", "input", "metadata", "config", "context", "webhook",
                              "interrupt_before", "interrupt_after", "on_run_completed",
                              "enabled"}))
SyncCronsSearch(a) ==
    SyncPost("/runs/crons/search",
         {"limit", "offset"}
           \cup Given(a, {"sort_by", "sort_order", "select"})
           \cup Provided(a, {"assistant_id", "thread_id", "enabled"}))
SyncCronsCount(a) == SyncPost("/runs/crons/count", Given(a, {"assistant_id", "thread_id"}))

(* SyncStoreClient.                                                             *)

SyncStorePutItem(a) ==
    SyncPut("/store/items", {"namespace", "key", "value"} \cup Provided(a, {"index", "ttl"}))
SyncStoreGetItem(a) ==
    SyncGet("/store/items", {"namespace", "key"} \cup Provided(a, {"refresh_ttl"}))
SyncStoreDeleteItem(a) == SyncDelete("/store/items", {"namespace", "key"})
SyncStoreSearchItems(a) ==
    SyncPost("/store/items/search",
         {"namespace_prefix", "limit", "offset"}
           \cup Provided(a, {"filter", "query", "refresh_ttl"}))
SyncStoreListNamespaces(a) ==
    SyncPost("/store/namespaces",
         {"limit", "offset"} \cup Provided(a, {"prefix", "suffix", "max_depth"}))

-----------------------------------------------------------------------------
(* What each client sends for the arguments a.                              *)

Async(a) ==
    [assistants_get |-> AssistantsGet(a),
     assistants_get_graph |-> AssistantsGetGraph(a),
     assistants_get_schemas |-> AssistantsGetSchemas(a),
     assistants_get_subgraphs |-> AssistantsGetSubgraphs(a),
     assistants_create |-> AssistantsCreate(a),
     assistants_update |-> AssistantsUpdate(a),
     assistants_delete |-> AssistantsDelete(a),
     assistants_search |-> AssistantsSearch(a),
     assistants_count |-> AssistantsCount(a),
     assistants_get_versions |-> AssistantsGetVersions(a),
     assistants_set_latest |-> AssistantsSetLatest(a),
     threads_get |-> ThreadsGet(a),
     threads_create |-> ThreadsCreate(a),
     threads_update |-> ThreadsUpdate(a),
     threads_delete |-> ThreadsDelete(a),
     threads_search |-> ThreadsSearch(a),
     threads_count |-> ThreadsCount(a),
     threads_copy |-> ThreadsCopy(a),
     threads_get_state |-> ThreadsGetState(a),
     threads_update_state |-> ThreadsUpdateState(a),
     threads_get_history |-> ThreadsGetHistory(a),
     threads_join_stream |-> ThreadsJoinStream(a),
     runs_stream |-> RunsStream(a),
     runs_create |-> RunsCreate(a),
     runs_create_batch |-> RunsCreateBatch(a),
     runs_wait |-> RunsWait(a),
     runs_list |-> RunsList(a),
     runs_get |-> RunsGet(a),
     runs_cancel |-> RunsCancel(a),
     runs_join |-> RunsJoin(a),
     runs_join_stream |-> RunsJoinStream(a),
     runs_delete |-> RunsDelete(a),
     crons_create_for_thread |-> CronsCreateForThread(a),
     crons_create |-> CronsCreate(a),
     crons_delete |-> CronsDelete(a),
     crons_update |-> CronsUpdate(a),
     crons_search |-> CronsSearch(a),
     crons_count |-> CronsCount(a),
     store_put_item |-> StorePutItem(a),
     store_get_item |-> StoreGetItem(a),
     store_delete_item |-> StoreDeleteItem(a),
     store_search_items |-> StoreSearchItems(a),
     store_list_namespaces |-> StoreListNamespaces(a)]

Sync(a) ==
    [assistants_get |-> SyncAssistantsGet(a),
     assistants_get_graph |-> SyncAssistantsGetGraph(a),
     assistants_get_schemas |-> SyncAssistantsGetSchemas(a),
     assistants_get_subgraphs |-> SyncAssistantsGetSubgraphs(a),
     assistants_create |-> SyncAssistantsCreate(a),
     assistants_update |-> SyncAssistantsUpdate(a),
     assistants_delete |-> SyncAssistantsDelete(a),
     assistants_search |-> SyncAssistantsSearch(a),
     assistants_count |-> SyncAssistantsCount(a),
     assistants_get_versions |-> SyncAssistantsGetVersions(a),
     assistants_set_latest |-> SyncAssistantsSetLatest(a),
     threads_get |-> SyncThreadsGet(a),
     threads_create |-> SyncThreadsCreate(a),
     threads_update |-> SyncThreadsUpdate(a),
     threads_delete |-> SyncThreadsDelete(a),
     threads_search |-> SyncThreadsSearch(a),
     threads_count |-> SyncThreadsCount(a),
     threads_copy |-> SyncThreadsCopy(a),
     threads_get_state |-> SyncThreadsGetState(a),
     threads_update_state |-> SyncThreadsUpdateState(a),
     threads_get_history |-> SyncThreadsGetHistory(a),
     threads_join_stream |-> SyncThreadsJoinStream(a),
     runs_stream |-> SyncRunsStream(a),
     runs_create |-> SyncRunsCreate(a),
     runs_create_batch |-> SyncRunsCreateBatch(a),
     runs_wait |-> SyncRunsWait(a),
     runs_list |-> SyncRunsList(a),
     runs_get |-> SyncRunsGet(a),
     runs_cancel |-> SyncRunsCancel(a),
     runs_join |-> SyncRunsJoin(a),
     runs_join_stream |-> SyncRunsJoinStream(a),
     runs_delete |-> SyncRunsDelete(a),
     crons_create_for_thread |-> SyncCronsCreateForThread(a),
     crons_create |-> SyncCronsCreate(a),
     crons_delete |-> SyncCronsDelete(a),
     crons_update |-> SyncCronsUpdate(a),
     crons_search |-> SyncCronsSearch(a),
     crons_count |-> SyncCronsCount(a),
     store_put_item |-> SyncStorePutItem(a),
     store_get_item |-> SyncStoreGetItem(a),
     store_delete_item |-> SyncStoreDeleteItem(a),
     store_search_items |-> SyncStoreSearchItems(a),
     store_list_namespaces |-> SyncStoreListNamespaces(a)]

-----------------------------------------------------------------------------
\* Arguments of a closed set of names, which are never empty.
Literals == {"if_exists", "sort_by", "sort_order", "status", "multitask_strategy",
            "if_not_exists", "on_disconnect", "on_completion", "on_run_completed",
            "durability", "action"}

\* Arguments of which zero and false say something of their own.
NumbersAndFlags == {"limit", "offset", "after_seconds", "ttl", "max_depth", "version", "xray",
                    "recurse", "subgraphs", "stream_subgraphs", "stream_resumable", "enabled",
                    "refresh_ttl", "cancel_on_disconnect", "wait", "checkpoint_during"}

\* All that is there to be given; paths and checkpoints choose between requests.
Names == Literals \cup NumbersAndFlags
           \cup {"namespace", "graph_id", "config", "context", "metadata", "assistant_id",
                 "name", "description", "select", "supersteps", "thread_id", "values", "ids",
                 "checkpoint", "checkpoint_id", "as_node", "before", "stream_mode",
                 "last_event_id", "input", "command", "interrupt_before", "interrupt_after",
                 "feedback_keys", "webhook", "raise_error", "schedule", "end_time", "index",
                 "filter", "query", "prefix", "suffix"}

NoArguments == [given |-> {}, empty |-> {}]
Methods == DOMAIN Async(NoArguments)

\* What a method, called with everything there is, sends or goes by.
Arguments ==
    [m \in Methods |->
        {n \in Names : \E other \in {{}, {"checkpoint"}} :
            LET without == [given |-> other, empty |-> {}]
                with == [given |-> other \cup {n}, empty |-> {}]
                emptied == [given |-> other, empty |-> {n}]
            IN  \/ n \in Sync(with)[m].sent
                \/ Async(with)[m] # Async(without)[m]
                \/ Async(emptied)[m] # Async(without)[m]}]

NoCall == [method |-> "none", a |-> NoArguments]
NoRequests == [async |-> {}, sync |-> {}]

Init == call = NoCall /\ requests = NoRequests /\ answers = {}

\* At most two arguments at once: no method's conditions look at more.
Call ==
    /\ call = NoCall
    /\ \E m \in Methods :
         \E names \in {{}} \cup {{x, y} : x, y \in Arguments[m]} :
           \E given \in SUBSET names :
             LET a == [given |-> given, empty |-> names \ given]
             IN  /\ a.empty \cap Literals = {}
                 /\ call' = [method |-> m, a |-> a]
                 /\ requests' = [async |-> {Async(a)[m]}, sync |-> {Sync(a)[m]}]
    /\ UNCHANGED answers

\* The server answers a wait: with the run's output or with its error.
Answer ==
    /\ call.method = "runs_wait" /\ answers = {}
    /\ \E failed \in BOOLEAN :
         answers' = {[failed |-> failed,
                      async |-> RunsWaitEnds(call.a, failed),
                      sync |-> SyncRunsWaitEnds(call.a, failed)]}
    /\ UNCHANGED <<call, requests>>

Next == Call \/ Answer

vars == <<call, requests, answers>>
Spec == Init /\ [][Next]_vars

-----------------------------------------------------------------------------
\* The two clients of one method send the same: verb, path and arguments, whatever
\* is left out or given empty. Only wait differs: without asyncio its raise_error
\* goes to the server.
TwinsAgree ==
    \A a \in requests.async, s \in requests.sync :
        a = [s EXCEPT !.sent = IF call.method = "runs_wait" THEN @ \ {"raise_error"} ELSE @]

\* A limit of 0, ttl=0, enabled=False, after_seconds=0 are not taken for nothing:
\* in every method the number or flag a caller gives reaches the server.
ZerosAreSent ==
    \A r \in requests.async \cup requests.sync :
        (call.a.given \cup call.a.empty) \cap NumbersAndFlags \subseteq r.sent

\* A wait ends the same in both clients, unless the run failed: the error is raised by
\* the one with asyncio and returned by the other, whatever raise_error says to it.
WaitsAgree ==
    \A o \in answers : o.async # o.sync => o.failed /\ o.async = "raised" /\ o.sync = "returned"
=============================================================================
