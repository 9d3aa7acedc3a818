---------------------------- MODULE MCTemplates -----------------------------
(* Values for model checking Templates: one text of each kind.             *)
EXTENDS Templates, TLC

Text(name, plain, expressions, parses, outcome) ==
    [name |-> name, plain |-> plain, expressions |-> expressions,
     parses |-> parses, outcome |-> outcome]

DefaultValue == Text("default", {"client_name"}, FALSE, TRUE, "message")

\* Another text; {{client_nmae}} alone; besides {{client_name}} the expressions
\* {{client_nmae|upper}} and {{client_name|uper}}; a statement not closed.
BodiesValue == {DefaultValue,
                Text("changed", {"client_name"}, TRUE, TRUE, "message"),
                Text("misspelt", {"client_nmae"}, FALSE, TRUE, "undefined"),
                Text("hides", {"client_name"}, TRUE, TRUE, "undefined"),
                Text("fails", {"client_name"}, TRUE, TRUE, "exception"),
                Text("broken", {}, TRUE, FALSE, "exception")}

AllowedValue == {"client_name", "salon_name"}

KeysValue == {<<"confirmed", "telegram">>, <<"confirmed", "max">>}
=============================================================================
