---------------------------- MODULE MCModelCatalog ----------------------------
(***************************************************************************)
(* Instances of ModelCatalog for TLC: a curated slug and a user's slug,    *)
(* and two repositories, one of them the curated one.                      *)
(***************************************************************************)
EXTENDS ModelCatalog, TLC

CONSTANTS c1, c2, seed, own, ra, rb

SeedRows == seed :> ra

Dims == "num_hidden_layers" :> Number(2) @@ "num_attention_heads" :> Number(4)
     @@ "num_key_value_heads" :> Number(2) @@ "hidden_size" :> Number(8)
     @@ "max_position_embeddings" :> Number(4)

Config(names, fields) ==
    [body |-> "object", archs |-> [type |-> "names", names |-> names], fields |-> fields]

Llama == Config(<<<<"Llama", "ForCausalLM">>>>, Dims)

\* One that is projected, and every way in which one is not.
MCConfigs ==
    {Llama,
     Config(<<<<"Qwen", "3", "Moe">>>>, "head_dim" :> Null @@ Dims),
     Config(<<<<"Qwen", "2">>, <<"Deepseek", "V3">>>>, "head_dim" :> Number(2) @@ Dims),
     [Llama EXCEPT !.body = "garbled"],
     [Llama EXCEPT !.archs = [type |-> "absent", names |-> <<>>]],
     [Llama EXCEPT !.archs = [type |-> "mapping", names |-> <<>>]],
     [Llama EXCEPT !.archs = [type |-> "number", names |-> <<>>]],
     Config(<<>>, Dims),
     Config(<<<<"Deepseek", "V2">>>>, Dims),
     Config(<<<<"Phi", "3">>>>, "head_dim" :> Number(2)),
     Config(<<<<"Qwen", "Moe">>>>, "hidden_size" :> Text @@ Dims),
     Config(<<<<"Cohere">>>>, "num_hidden_layers" :> Null @@ Dims),
     Config(<<<<"Gemma", "2">>>>, "head_dim" :> List @@ Dims),
     Config(<<<<"GptOss">>>>, "num_attention_heads" :> Number(0) @@ Dims)}

Symmetric == Permutations({c1, c2})

\* What config.json holds decides nothing but the next model, if it is about to be
\* written: states that differ in another one only behave alike, and TLC takes one of them.
Seen ==
    <<rev, model, yaml, pc, req, sha, rows, got, res, synced, lapped, crossed,
      [s \in Slugs |-> IF \E c \in Calls : pc[c] = "parse" /\ req[c].slug = s
                       THEN config[s] ELSE NoConfigFile]>>
=============================================================================
