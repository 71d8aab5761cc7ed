SPECIFICATION JobSpec
CONSTANT MaxFieldOps = 4
CONSTANT MaxScalarOps = 4
CONSTANT MaxGroupOps = 3
CONSTANT m = 257
CONSTANT BPL = 4
CONSTANT SIZE = 3
CONSTANT HALF = 5
CONSTANT max_batch_size = 5
CONSTANT Batches <- BatchSet
CONSTANT Randoms <- RandomSet
CONSTANT expand256 <- expand256_64
CONSTANT add256 <- add256_64
CONSTANT mul256 <- mul256_64
CONSTANT sub256 <- sub256_64
CONSTANT lt256 <- lt256_64
CONSTANT lte256 <- lte256_64
CONSTANT iszero256 <- iszero256_64
CONSTANT isone256 <- isone256_64
CONSTANT isatmost128bits256 <- isatmost128bits256_64
INVARIANT LimbsExact
INVARIANT GroupExact
INVARIANT SignaturesOpen
INVARIANT BatchSound
INVARIANT BatchAnswers
PROPERTY BatchShrinks
CHECK_DEADLOCK FALSE
