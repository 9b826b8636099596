---------------------------- MODULE MCToolServer ----------------------------
(***************************************************************************)
(* The built-in code_exec and a name that administrators register tools    *)
(* under, with a strict or a loose schema.                                 *)
(***************************************************************************)
EXTENDS ToolServer

Field(type, enum) == [type |-> type, enum |-> enum]
Str(text) == [type |-> "string", text |-> text, whole |-> FALSE]
Num(whole) == [type |-> "number", text |-> "", whole |-> whole]

CodeExec ==
    [schema |-> [required |-> {"language", "code"},
                 properties |-> [language |-> Field("string", {"python", "bash"}),
                                 code |-> Field("string", {})]]]
Counter == [schema |-> [required |-> {"n"}, properties |-> [n |-> Field("integer", {})]]]
Loose == [schema |-> [required |-> {}, properties |-> [code |-> Field("any", {})]]]

MCTools == {"code_exec", "custom"}
MCBuiltIn == [code_exec |-> CodeExec, custom |-> NoTool]
MCRegistrations == {Counter, Loose}

Call(name, input, text) == [kind |-> "call", name |-> name, input |-> input, text |-> text]
Run(language) == [language |-> Str(language), code |-> Str("pass")]

MCRequests ==
    {[kind |-> "list"], [kind |-> "parse"],
     Call("code_exec", Run("python"), "plain"), Call("code_exec", Run("python"), "split"),
     Call("code_exec", [code |-> Str("pass")], "plain"), Call("code_exec", Run("ruby"), "attack"),
     Call("custom", [n |-> Num(TRUE)], "secret"), Call("custom", [n |-> Num(FALSE)], "plain")}

\* DefaultRules, and a rule that an operator could add for secrets in output.
MCRules ==
    {[target |-> "input", action |-> "block", matches |-> {"attack"}],
     [target |-> "output", action |-> "warn", matches |-> {"secret"}],
     [target |-> "both", action |-> "block", matches |-> {"secret"}]}
=============================================================================
