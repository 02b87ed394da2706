--------------------------- MODULE MCRuntimeSelection ---------------------------
(* Two profiles on a shared base and one of its own; an edit changes one   *)
(* part of a profile, and its version or not: a prompt, the tools, the     *)
(* settings outside their metadata, what cannot be encoded.                *)
EXTENDS RuntimeSelection, TLC

MCProfiles == {"base", "chat", "plain"}
MCLineage == [base |-> <<"base">>, chat |-> <<"base", "chat">>, plain |-> <<"plain">>]

Using(key, config) == [key |-> key, config |-> config]
Edition(version, runtime, settings) == [version |-> version, runtime |-> runtime, settings |-> settings]
R(prompt, middlewares, tools) == [prompt |-> prompt, middlewares |-> middlewares, tools |-> tools]

Base == R("base", <<Using("log", "1"), Using("agent", "1")>>, <<"calc", "", "calc">>)
Chat == R("", <<Using("", "1"), Using("agent", "2"), Using("trim", "1")>>, <<"search", "calc">>)
Settings(meta, rest) == [meta |-> meta, rest |-> rest]
Small == Settings("small", "cold")
Plain == Edition(0, None, Small)
Opaque == R("opaque", <<Using("agent", "NaN")>>, << >>)

Catalogue(base, chat) == [base |-> base, chat |-> chat, plain |-> <<Plain>>]
MCCatalogues ==
  {Catalogue(<<Edition(0, Base, Small), Edition(0, [Base EXCEPT !.prompt = "other"], Small)>>,
             <<Edition(1, Chat, Small)>>),
   Catalogue(<<Edition(0, Base, Small), Edition(0, [Base EXCEPT !.tools = << >>], Small)>>,
             <<Edition(1, Chat, Small)>>),
   Catalogue(<<Edition(0, None, Small)>>,
             <<Edition(1, Chat, Small),
               Edition(2, [Chat EXCEPT !.prompt = "chat"], Settings("big", "cold"))>>),
   Catalogue(<<Edition(0, Base, Small), Edition(0, Base, Settings("small", "warm"))>>,
             <<Edition(1, Opaque, Small), Edition(1, [Opaque EXCEPT !.prompt = "veiled"], Small)>>)}
Symmetric == Permutations(Requests)
=============================================================================
