------------------------------- MODULE Metadata -------------------------------
(***************************************************************************)
(* The metadata of a session, as the host gives it and the agent gets it: a   *)
(* tree, in which a value is a string [val], something else [num], or an     *)
(* object [obj].  A text is a sequence of paragraphs, and a blank one has     *)
(* none.                                                                     *)
(***************************************************************************)

Val(x) == [val |-> x]
Obj(f) == [obj |-> f]
IsVal(v) == "val" \in DOMAIN v
IsObj(v) == "obj" \in DOMAIN v
NoKeys == [k \in {} |-> 0]
Put(m, key, v) == [k \in DOMAIN m \cup {key} |-> IF k = key THEN v ELSE m[k]]
When(cond, key, v) == IF cond THEN Put(NoKeys, key, v) ELSE NoKeys
Under(m, key) == IF key \in DOMAIN m /\ IsObj(m[key]) THEN m[key].obj ELSE NoKeys

\* The keys a system prompt comes under.
Reserved == {"systemPrompt", "appendSystemPrompt"}
=============================================================================
