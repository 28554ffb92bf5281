--------------------------- MODULE MCOperatorCommand ---------------------------
(* Instances of OperatorCommand for TLC. *)
EXTENDS OperatorCommand, TLC

\* Two environment profiles, one of which says nothing of the locale.
MCEnvironments == "e1" :> "environment" @@ "e2" :> Null

MCConfigurations ==
    [mode : {"headless"}, locale : {Null, "session"}, timeout : {"session"},
     environment : {Null, "e1"}, captures : BOOLEAN,
     fingerprint : {Null}, private : {{}, {"proxy_password"}}]
    \cup
    [mode : {"headless"}, locale : {Null}, timeout : {"session"}, environment : {Null},
     captures : {TRUE}, fingerprint : {"reference and agent"}, private : {{}}]

\* The resolver of a caller sets nothing private, an environment, or a directory.
MCAdditions == {{}, {"env"}, {"user_data_dir"}}

CliRequests ==
    [caller : {"cli"}, headed : {Null, TRUE, FALSE},
     url : {"good", "malformed", "unparsable", "unsafe"},
     timeout : {"none", "nonpositive", "outside", "good"}, resolver : {Null},
     overrides : {Null}, initializers : {0}, navigations : {1}]

\* A caller of the library overrides what it likes.
Resolving ==
    [caller : {"library"}, headed : {Null, TRUE, FALSE}, url : {"good"}, timeout : {"good"},
     resolver : {"default"}, overrides : {Null} \cup Overrides,
     initializers : {0}, navigations : {1}]

\* Or it brings a resolver, an initializer or a plan of its own.
Extending ==
    [caller : {"library"}, headed : {Null}, url : {"good"}, timeout : {"outside", "good"},
     resolver : {Null, "custom"},
     overrides : {Null, [mode |-> "headed", locale |-> Null, timeout |-> Null,
                         environment |-> Null]},
     initializers : {0, 1}, navigations : {0, 1, 2}]

MCRequests == CliRequests \cup Resolving \cup Extending

=============================================================================
