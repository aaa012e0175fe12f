------------------------------ MODULE ClientApi ------------------------------
(***************************************************************************)
(* The functions of ipc/client/client.c that make a request and, for some, *)
(* read the reply: the message each of them sends and what it tells its    *)
(* caller.  A reply is abstracted to the type of its value.                *)
(***************************************************************************)

Message(op, path, elem) == [op |-> op, path |-> path, elem |-> elem]

dicey_client_exec(path, elem) == Message("EXEC", path, elem)
dicey_client_get(path, elem) == Message("GET", path, elem)
dicey_client_set(path, elem) == Message("SET", path, elem)

dicey_client_get_real_path == dicey_client_exec("/dicey/registry", "RealPath")
dicey_client_is_path_alias == dicey_client_exec("/dicey/registry", "PathIsAlias")
dicey_client_list_objects == dicey_client_get("/dicey/registry", "Objects")
dicey_client_list_paths == dicey_client_get("/dicey/registry", "Paths")
dicey_client_list_traits == dicey_client_get("/dicey/registry", "Traits")
dicey_client_inspect_path == dicey_client_get("given", "Data")
dicey_client_inspect_path_as_xml == dicey_client_get("given", "XML")

\* client_subunsub: the path and the selector are the argument of an operation
\* of the server's event manager.
client_subunsub(op) ==
    dicey_client_exec("/dicey/server", IF op = "SUBSCRIBE" THEN "Subscribe" ELSE "Unsubscribe")

\* The functions that make a request, each of them blocking or not.
Functions ==
    {"exec", "get", "set", "get_real_path", "is_path_alias", "list_objects", "list_paths",
     "list_traits", "inspect_path", "inspect_path_as_xml", "subscribe_to", "unsubscribe_from"}

\* The message behind a function, whether it blocks or not.
Sent(f) ==
    CASE f = "exec" -> dicey_client_exec("given", "given")
      [] f = "get" -> dicey_client_get("given", "given")
      [] f = "set" -> dicey_client_set("given", "given")
      [] f = "get_real_path" -> dicey_client_get_real_path
      [] f = "is_path_alias" -> dicey_client_is_path_alias
      [] f = "list_objects" -> dicey_client_list_objects
      [] f = "list_paths" -> dicey_client_list_paths
      [] f = "list_traits" -> dicey_client_list_traits
      [] f = "inspect_path" -> dicey_client_inspect_path
      [] f = "inspect_path_as_xml" -> dicey_client_inspect_path_as_xml
      [] f = "subscribe_to" -> client_subunsub("SUBSCRIBE")
      [] f = "unsubscribe_from" -> client_subunsub("UNSUBSCRIBE")

\* The types of value a server may answer a message with, "error" aside.
Answers(m) ==
    CASE m.op = "SET" \/ m.elem = "Unsubscribe" -> {"unit"}
      [] m.elem = "PathIsAlias" -> {"true", "false"}
      [] m.elem = "Subscribe" -> {"unit", "path"}
      [] m.elem = "RealPath" -> {"path"}
      [] OTHER -> {"value"}

-----------------------------------------------------------------------------
Outcome(status, value) == [status |-> status, value |-> value]

\* Mutant: whatever is not a boolean is taken for one.
parse_bool_reply_Lax(reply) ==
    Outcome("OK", reply)

\* parse_bool_reply: a boolean, or the code of the error in the reply.
parse_bool_reply(reply) ==
    CASE reply \in {"true", "false"} -> Outcome("OK", reply)
      [] reply = "error" -> Outcome("reply_error", "none")
      [] OTHER -> Outcome("EVALUE_TYPE_MISMATCH", "none")

\* parse_unit_reply.
parse_unit_reply(reply) == Outcome(IF reply = "unit" THEN "OK" ELSE "EINVAL", "none")

\* parse_subunsub_reply: unit, or the real path when the one given is an alias.
parse_subunsub_reply(reply) ==
    CASE reply = "unit" -> Outcome("OK", "none")
      [] reply = "path" -> Outcome("OK", "path")
      [] OTHER -> Outcome("EVALUE_TYPE_MISMATCH", "none")

\* is_alias_on_reply, and the end of dicey_client_is_path_alias, which has a
\* status only.
is_alias_on_reply(reply, blocking) ==
    LET r == parse_bool_reply(reply)
    IN  IF ~blocking THEN Outcome(r.status, IF r.status = "OK" THEN r.value ELSE "false")
        ELSE IF r.status = "OK" /\ r.value = "false" THEN Outcome("EPATH_NOT_ALIAS", "none")
        ELSE Outcome(r.status, "none")

\* subunsub_on_reply, and the end of client_subunsub.  The path a blocking
\* unsubscribe is given is freed.  The context of an asynchronous call does not
\* say which operation it is for: the callback is called as that of a subscribe.
subunsub_on_reply(f, reply, blocking) ==
    LET r == parse_subunsub_reply(reply)
    IN  IF blocking /\ f = "unsubscribe_from" THEN Outcome(r.status, "none") ELSE r

\* The type of the callback an asynchronous subscribe or unsubscribe ends with.
CalledAs == "SUBSCRIBE"

\* What the caller of f, or its callback, gets for a reply.  The asynchronous
\* set hands over the reply as it is.
Told(f, blocking, reply) ==
    CASE f = "is_path_alias" -> is_alias_on_reply(reply, blocking)
      [] f \in {"subscribe_to", "unsubscribe_from"} -> subunsub_on_reply(f, reply, blocking)
      [] f = "set" /\ blocking -> parse_unit_reply(reply)
      [] OTHER -> Outcome("OK", reply)
==============================================================================
