----------------------------- MODULE ModelConfig -----------------------------
(***************************************************************************)
(* From a config.json to a model (catalog/hf_model.py and the checks of    *)
(* sync_model before it): which are refused, with what, and what the fit   *)
(* check gets to see of the others.                                        *)
(*                                                                         *)
(* A configuration is a record: `body` says what the bytes decode to,      *)
(* `archs` what its "architectures" is, a name in it being a sequence of   *)
(* words (<<"Qwen", "3", "Moe">>), and `fields` holds the other keys.      *)
(***************************************************************************)
EXTENDS Inference, Sequences

Number(k) == [type |-> "number", n |-> k]
Text == [type |-> "text", n |-> 0]     \* a string that is no number
Null == [type |-> "null", n |-> 0]
List == [type |-> "list", n |-> 0]     \* or any other non-empty container

RequiredKeys ==
    {"num_hidden_layers", "num_attention_heads", "num_key_value_heads", "hidden_size",
     "max_position_embeddings"}

\* What FromHfConfig can fail with.
ConfigFailure == {"value_error", "type_error", "key_error", "zero_division"}

Least(S) == CHOOSE i \in S : \A j \in S : i <= j

-----------------------------------------------------------------------------
\* detect_architecture_family

Prefix(words, family) == [words |-> words, family |-> family]

\* _FAMILY_PREFIX_MAP, in its order.
FamilyPrefixes ==
    <<Prefix(<<"Llama">>, "llama"), Prefix(<<"Mistral">>, "mistral"),
      Prefix(<<"Mixtral">>, "mixtral"), Prefix(<<"Qwen", "3">>, "qwen3"),
      Prefix(<<"Qwen", "2">>, "qwen"), Prefix(<<"Qwen">>, "qwen"),
      Prefix(<<"Deepseek", "V3">>, "deepseek_v3"), Prefix(<<"DeepSeek", "V3">>, "deepseek_v3"),
      Prefix(<<"Phi">>, "phi"), Prefix(<<"Gemma">>, "gemma"), Prefix(<<"GptOss">>, "gpt_oss"),
      Prefix(<<"GPTOss">>, "gpt_oss"), Prefix(<<"Cohere">>, "command")>>

StartsWith(name, words) ==
    /\ Len(words) <= Len(name)
    /\ \A i \in DOMAIN words : name[i] = words[i]

Matching(name) == {i \in DOMAIN FamilyPrefixes : StartsWith(name, FamilyPrefixes[i].words)}

\* The first entry that matches wins.
DetectFamily(name) ==
    IF Matching(name) = {} THEN "other" ELSE FamilyPrefixes[Least(Matching(name))].family

\* A name gets the family of the longest prefix it has: "order matters only for
\* prefix collisions (e.g. Qwen3 must come before Qwen ...)". (hf_model.py:61-66)
MostSpecific(name) ==
    \A i \in Matching(name) :
        (\A j \in Matching(name) : Len(FamilyPrefixes[j].words) <= Len(FamilyPrefixes[i].words))
        => DetectFamily(name) = FamilyPrefixes[i].family

\* Only the first name counts; "architectures" may be empty (or null).
Family(cfg) == IF cfg.archs.names = <<>> THEN "other" ELSE DetectFamily(cfg.archs.names[1])

-----------------------------------------------------------------------------
\* sync_model's checks and from_hf_config

\* int(...) of a field.
IntError(v) ==
    IF v.type = "text" THEN "value_error" ELSE IF v.type = "number" THEN "none" ELSE "type_error"

\* `head_dim`, unless it is absent, null or 0.
HasHeadDim(cfg) ==
    "head_dim" \in DOMAIN cfg.fields /\ cfg.fields["head_dim"] \notin {Null, Number(0)}

HeadDimError(cfg) ==
    IF HasHeadDim(cfg) THEN IntError(cfg.fields["head_dim"])
    ELSE IF cfg.fields["num_attention_heads"].n = 0 THEN "zero_division" ELSE "none"

\* The conversions, in the order in which they are made.
Conversions(cfg) ==
    <<IntError(cfg.fields["num_attention_heads"]), IntError(cfg.fields["hidden_size"]),
      HeadDimError(cfg), IntError(cfg.fields["num_hidden_layers"]),
      IntError(cfg.fields["num_key_value_heads"]), IntError(cfg.fields["max_position_embeddings"])>>

\* What a configuration is refused with, if it is. "architectures" that cannot be
\* subscripted by 0 are no ValueError.
ConfigError(cfg) ==
    IF cfg.body # "object" \/ cfg.archs.type = "absent" THEN "value_error"
    ELSE IF cfg.archs.type = "mapping" THEN "key_error"
    ELSE IF cfg.archs.type = "number" THEN "type_error"
    ELSE IF Family(cfg) = "other" \/ ~(RequiredKeys \subseteq DOMAIN cfg.fields) THEN "value_error"
    ELSE LET bad == {i \in DOMAIN Conversions(cfg) : Conversions(cfg)[i] # "none"}
         IN  IF bad = {} THEN "none" ELSE Conversions(cfg)[Least(bad)]

HeadDim(cfg) ==
    IF HasHeadDim(cfg) THEN cfg.fields["head_dim"].n
    ELSE cfg.fields["hidden_size"].n \div cfg.fields["num_attention_heads"].n

\* An override of the tracked row, or what the family uses.
Strategy(cfg, override) ==
    IF override # None THEN override
    ELSE IF Family(cfg) = "deepseek_v3" THEN "mla" ELSE "standard_gqa"

\* The two keys that only the fit check asks for.
HasLatentDims(cfg) ==
    \A k \in {"kv_lora_rank", "qk_rope_head_dim"} :
        k \in DOMAIN cfg.fields /\ cfg.fields[k].type = "number"

\* What a token occupies in the cache, over all layers.
PerToken(cfg, strategy) ==
    cfg.fields["num_hidden_layers"].n *
        (IF strategy # "mla" THEN cfg.fields["num_key_value_heads"].n * HeadDim(cfg)
         ELSE IF HasLatentDims(cfg)
              THEN cfg.fields["kv_lora_rank"].n + cfg.fields["qk_rope_head_dim"].n ELSE 0)

\* The parameters come from the tracked row: no config.json has them.
FromHfConfig(cfg, params, override, age) ==
    [params |-> params, kv |-> PerToken(cfg, Strategy(cfg, override)),
     strategy |-> Strategy(cfg, override), keys |-> HasLatentDims(cfg), age |-> age]
=============================================================================
