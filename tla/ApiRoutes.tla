------------------------------ MODULE ApiRoutes ------------------------------
(* The table of the API's routes, in the order in which a request is compared *)
(* with them, and the comparison.  A path is the sequence of its segments; a *)
(* trailing slash is an empty last segment; ":" stands for a parameter.      *)
EXTENDS Naturals, Sequences

Route(method, path, handler, auth) == [method |-> method, path |-> path, handler |-> handler, auth |-> auth]

\* Under /api, with and without authentication; and a path of its own.
Sec(method, path, handler) == Route(method, <<"api">> \o path, handler, TRUE)
Pub(method, path, handler) == Route(method, <<"api">> \o path, handler, FALSE)
Top(method, path, handler) == Route(method, path, handler, FALSE)

AuthRoutes ==
    << Pub("POST", <<"auth", "login">>, "login"), Pub("POST", <<"auth", "register">>, "register"),
       Pub("POST", <<"auth", "refresh">>, "token_refresh"), Sec("POST", <<"auth", "logout">>, "logout"),
       Sec("GET", <<"auth", "session">>, "get_current_session"),
       Sec("GET", <<"auth", "library">>, "get_library_context"),
       Sec("POST", <<"auth", "library", "">>, "switch_library"),
       Sec("PUT", <<"auth", "password">>, "change_password") >>

SessionRoutes ==
    << Sec("GET", <<"sessions">>, "get_sessions"),
       Sec("GET", <<"sessions", "active">>, "get_active_sessions"),
       Sec("POST", <<"sessions", "">>, "session_terminate"),
       Sec("DELETE", <<"sessions", "">>, "terminate_session") >>

LibraryRoutes ==
    << Sec("GET", <<"libraries">>, "get_libraries"), Sec("POST", <<"libraries">>, "create_library"),
       Sec("GET", <<"library-templates">>, "get_library_templates"),
       Sec("GET", <<"libraries", ":", "metrics", "query">>, "query_library_metrics"),
       Sec("GET", <<"libraries", ":", "metrics">>, "library_metrics"),
       Sec("POST", <<"libraries", ":", "metrics">>, "record_library_metric") >>

DocumentRoutes ==
    << Sec("GET", <<"collections">>, "virtual_collections_list"),
       Sec("POST", <<"collections">>, "virtual_collection_create"),
       Sec("GET", <<"documents">>, "unified_documents_query"),
       Sec("POST", <<"documents">>, "unified_documents_create"),
       Sec("GET", <<"documents", "count">>, "unified_documents_count"),
       Sec("POST", <<"documents", "query">>, "unified_documents_query"),
       Sec("GET", <<"documents", "">>, "unified_document_get"),
       Sec("PUT", <<"documents", "">>, "unified_document_update"),
       Sec("DELETE", <<"documents", "">>, "unified_document_delete"),
       Sec("GET", <<"collections", "">>, "documents_query"),
       Sec("GET", <<"collections", "">>, "document_field_access"),
       Sec("GET", <<"collections", "">>, "document_get"),
       Sec("POST", <<"collections", "">>, "document_create"),
       Sec("PUT", <<"collections", "">>, "document_update"),
       Sec("DELETE", <<"collections", "">>, "document_delete"),
       Sec("DELETE", <<"collections", "">>, "virtual_collection_drop") >>

UserRoutes ==
    << Sec("GET", <<"users">>, "users_list"), Sec("POST", <<"users">>, "user_create"),
       Sec("GET", <<"users", "">>, "user_get"), Sec("PUT", <<"users", "">>, "user_update"),
       Sec("DELETE", <<"users", "">>, "user_delete"), Sec("GET", <<"roles">>, "roles_list"),
       Sec("POST", <<"roles">>, "role_create"), Sec("GET", <<"roles", "">>, "role_get"),
       Sec("PUT", <<"roles", "">>, "role_update"), Sec("DELETE", <<"roles", "">>, "role_delete") >>

MetricsRoutes ==
    << Sec("GET", <<"metrics">>, "metrics"), Sec("GET", <<"metrics", "stats">>, "metrics"),
       Sec("GET", <<"metrics", "activity">>, "metrics"),
       Sec("POST", <<"metrics", "export">>, "metrics_export"),
       Sec("GET", <<"metrics", "history">>, "metrics_history"),
       Sec("GET", <<"metrics", "aggregate">>, "metrics_aggregate"),
       Sec("GET", <<"metrics", "adaptive-indexing">>, "adaptive_indexing_metrics"),
       Sec("GET", <<"system", "info">>, "system_info"),
       Sec("GET", <<"system", "log-control">>, "log_control"),
       Sec("POST", <<"system", "log-control">>, "log_control"),
       Pub("GET", <<"openapi.json">>, "openapi_spec") >>

VisualizationRoutes ==
    << Sec("GET", <<"visualization", "collection-stats">>, "visualization_collection_stats"),
       Sec("GET", <<"visualization", "document-types">>, "visualization_document_types"),
       Sec("GET", <<"visualization", "field-distribution">>, "visualization_field_distribution"),
       Sec("GET", <<"visualization", "transaction-history">>, "visualization_transaction_history"),
       Sec("GET", <<"visualization", "transaction-metrics">>, "visualization_transaction_metrics"),
       Sec("GET", <<"visualization", "transaction-relationships">>, "visualization_transaction_relationships") >>

OpenRoutes ==
    << Sec("POST", <<"export">>, "export"), Sec("POST", <<"import">>, "import"),
       Pub("POST", <<"login">>, "login"), Pub("POST", <<"admin", "login">>, "admin_login"),
       Pub("GET", <<"admin", "test">>, "admin_test"), Top("GET", <<"health">>, "health_check"),
       Top("GET", <<"metrics">>, "metrics"), Top("GET", <<"metrics", "available">>, "metrics_available") >>

SchemaRoutes ==
    << Pub("GET", <<"schemas">>, "schema_get"), Pub("POST", <<"schemas">>, "schema_create"),
       Pub("GET", <<"schemas", "">>, "schema_get"), Pub("PUT", <<"schemas", "">>, "schema_update"),
       Pub("DELETE", <<"schemas", "">>, "schema_delete"), Sec("POST", <<"validate">>, "schema_validate") >>

IndexRoutes ==
    << Sec("GET", <<"indexes", "">>, "index_list"), Sec("POST", <<"indexes", "">>, "index_create"),
       Sec("GET", <<"indexes", "">>, "index_get"), Sec("DELETE", <<"indexes", "">>, "index_delete"),
       Sec("POST", <<"indexes", "rebuild", "">>, "index_rebuild"),
       Sec("GET", <<"indexes", "stats", "">>, "index_stats"),
       Sec("GET", <<"index", "stats">>, "index_aggregate_stats"),
       Sec("POST", <<"indexes", "query", "">>, "index_query"),
       Sec("POST", <<"indexes", "compound", "">>, "index_compound_query") >>

ScriptRoutes ==
    << Sec("POST", <<"js", "query">>, "js_query"), Sec("POST", <<"js", "eval">>, "js_eval"),
       Sec("POST", <<"js", "functions">>, "js_function_register"),
       Sec("POST", <<"js", "functions", "">>, "js_function_execute"),
       Sec("POST", <<"js", "validators">>, "js_validator_register"),
       Sec("POST", <<"js", "transformers">>, "js_transformer_register"),
       Sec("GET", <<"cache", "stats">>, "cache_stats"),
       Sec("POST", <<"cache", "configure">>, "cache_configure"),
       Sec("POST", <<"cache", "clear">>, "cache_clear"),
       Sec("POST", <<"cache", "invalidate">>, "cache_invalidate") >>

TransactionRoutes ==
    << Sec("POST", <<"transactions">>, "transaction_begin"),
       Sec("POST", <<"transactions", "">>, "transaction_commit"),
       Sec("DELETE", <<"transactions", "">>, "transaction_rollback"),
       Sec("PATCH", <<"transactions", "">>, "transaction_set_isolation"),
       Sec("PATCH", <<"transactions", "">>, "transaction_set_timeout"),
       Sec("POST", <<"transactions", "">>, "transaction_create_savepoint"),
       Sec("POST", <<"transactions", "">>, "transaction_rollback_to_savepoint"),
       Sec("DELETE", <<"transactions", "">>, "transaction_release_savepoint"),
       Sec("GET", <<"transactions", "metrics">>, "transaction_metrics"),
       Sec("POST", <<"transactions", "check-deadlocks">>, "transaction_check_deadlocks"),
       Sec("GET", <<"transactions", "">>, "transaction_status"),
       Sec("GET", <<"transactions", "logs">>, "transaction_logs"),
       Sec("POST", <<"transactions", "logs", "configure">>, "transaction_logs_configure"),
       Sec("POST", <<"transactions", "logs", "archive">>, "transaction_logs_archive"),
       Sec("GET", <<"transactions", "logs", "report">>, "transaction_logs_report"),
       Sec("GET", <<"transactions", "logs", "document-history">>, "transaction_logs_document_history"),
       Sec("GET", <<"transactions", "">>, "transaction_document_operation"),
       Sec("POST", <<"transactions", "">>, "transaction_document_operation"),
       Sec("PUT", <<"transactions", "">>, "transaction_document_operation"),
       Sec("DELETE", <<"transactions", "">>, "transaction_document_operation") >>

LibraryScopedRoutes ==
    << Sec("GET", <<"libraries", "">>, "documents_query"),
       Sec("POST", <<"libraries", "">>, "document_create"),
       Sec("DELETE", <<"libraries", "">>, "delete_library"),
       Sec("GET", <<"libraries", "">>, "library_document_field_access"),
       Sec("PUT", <<"libraries", "">>, "update_library"), Sec("POST", <<"libraries", "">>, "copy_library") >>

js_native_routes ==
    << Sec("POST", <<"js", "native", "store">>, "js_native_store_script"),
       Sec("GET", <<"js", "native", "script", ":">>, "js_native_get_script"),
       Sec("PUT", <<"js", "native", "script", ":">>, "js_native_update_script"),
       Sec("DELETE", <<"js", "native", "script", ":">>, "js_native_delete_script"),
       Sec("GET", <<"js", "native", "list">>, "js_native_list_scripts"),
       Sec("POST", <<"js", "native", "execute">>, "js_native_execute_script"),
       Sec("GET", <<"js", "native", "metrics">>, "js_native_get_metrics"),
       Sec("GET", <<"js", "native", "stats", ":">>, "js_native_get_script_stats"),
       Sec("POST", <<"js", "native", "execute-tagged">>, "js_native_execute_tagged_functions") >>

rbac_routes ==
    << Sec("GET", <<"rbac", "users">>, "rbac_get_users"),
       Sec("GET", <<"rbac", "users", ":">>, "rbac_get_user"),
       Sec("POST", <<"rbac", "users">>, "rbac_create_user"),
       Sec("PUT", <<"rbac", "users", ":">>, "rbac_update_user"),
       Sec("DELETE", <<"rbac", "users", ":">>, "rbac_delete_user"),
       Sec("GET", <<"rbac", "roles">>, "rbac_get_roles"),
       Sec("GET", <<"rbac", "roles", ":">>, "rbac_get_role"),
       Sec("POST", <<"rbac", "roles">>, "rbac_create_role"),
       Sec("PUT", <<"rbac", "roles", ":">>, "rbac_update_role"),
       Sec("DELETE", <<"rbac", "roles", ":">>, "rbac_delete_role"),
       Sec("POST", <<"rbac", "roles", ":", "users", ":">>, "rbac_add_user_to_role"),
       Sec("DELETE", <<"rbac", "roles", ":", "users", ":">>, "rbac_remove_user_from_role"),
       Sec("POST", <<"rbac", "roles", ":", "permissions">>, "rbac_grant_permission"),
       Sec("DELETE", <<"rbac", "roles", ":", "permissions">>, "rbac_revoke_permission"),
       Sec("GET", <<"rbac", "permissions">>, "rbac_get_permissions") >>

health_routes ==
    << Pub("GET", <<"health">>, "health_check"), Pub("GET", <<"status">>, "status"),
       Sec("GET", <<"metrics">>, "metrics"), Sec("GET", <<"metrics", "available">>, "metrics_available"),
       Sec("POST", <<"metrics", "export">>, "metrics_export") >>

config_routes ==
    << Sec("GET", <<"config">>, "config_get"), Sec("PUT", <<"config">>, "config_update"),
       Sec("POST", <<"config", "reload">>, "config_reload"),
       Sec("GET", <<"config", "defaults">>, "config_defaults"),
       Sec("GET", <<"config", "logging">>, "logging_get"),
       Sec("PUT", <<"config", "logging">>, "logging_update") >>

logging_routes ==
    << Sec("GET", <<"system", "logging">>, "get_logging_config"),
       Sec("PUT", <<"system", "logging">>, "update_logging_config") >>

-----------------------------------------------------------------------------
\* The routes of the source's table, and the groups registered at startup, in order.
routes ==
    AuthRoutes \o SessionRoutes \o LibraryRoutes \o DocumentRoutes \o UserRoutes \o MetricsRoutes
    \o VisualizationRoutes \o OpenRoutes \o SchemaRoutes \o IndexRoutes \o ScriptRoutes
    \o TransactionRoutes \o LibraryScopedRoutes

Groups == << js_native_routes, rbac_routes, health_routes, config_routes, logging_routes >>

\* The text of a route is the text of the path, each parameter standing for a segment.
Fits(route, path) ==
    /\ Len(route) = Len(path)
    /\ \A i \in 1..Len(route) : route[i] \in {":", path[i]}

\* A route that ends in a slash also matches what begins with its text.
PathBelow(route, path) ==
    /\ route[Len(route)] = ""
    /\ Len(path) >= Len(route)
    /\ \A i \in 1..(Len(route) - 1) : route[i] = path[i]

route_matches(route, path) == Fits(route, path) \/ PathBelow(route, path)

Matches(table, method, path) ==
    {i \in 1..Len(table) : table[i].method = method /\ route_matches(table[i].path, path)}

\* The index of the route that serves the request, 0 for none.
FirstRoute(table, method, path) ==
    LET found == Matches(table, method, path)
    IN  IF found = {} THEN 0 ELSE CHOOSE i \in found : \A j \in found : i <= j

\* Paths a route is meant for: its own, parameters and what follows a slash filled in.
Concrete(seg) == IF seg \in {"", ":"} THEN "x" ELSE seg
Meant(route) ==
    LET filled == [i \in 1..Len(route) |-> Concrete(route[i])]
    IN  {filled} \cup IF route[Len(route)] = "" THEN {filled \o <<"y">>, filled \o <<"y", "z">>} ELSE {}

\* The handlers of routes that no request reaches.
UnreachableIn(table) ==
    {<<table[i].method, table[i].handler>> : i \in {k \in 1..Len(table) :
        \A path \in Meant(table[k].path) : FirstRoute(table, table[k].method, path) # k}}
=============================================================================
