---------------------------- MODULE MCMemoryStore ----------------------------
(* Six intents about one memory id and about what shares a tag with it; the *)
(* last is below the confidence threshold.                                  *)
EXTENDS MemoryStore

Want(action, type, id, tags, confident) ==
    [action |-> action, type |-> type, id |-> id, tags |-> tags, confident |-> confident]

Wanted ==
    [note |-> Want("upsert", "facts", NoId, {"a", "b"}, TRUE),
     fix |-> Want("upsert", "facts", "m1", {"b"}, TRUE),
     twin |-> Want("upsert", "projects", "m1", {"b"}, TRUE),
     drop |-> Want("delete", "facts", "m1", {}, TRUE),
     use |-> Want("touch", "facts", "m1", {}, TRUE),
     vague |-> Want("upsert", "facts", "m1", {"a"}, FALSE)]

=============================================================================
