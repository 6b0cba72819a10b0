CONSTANTS W = 8 MaxWidth = 24 IndexBits = 6 PowCap = 8
          IntWidth = 6 Fuel = 30 MaxDepth = 5 SeedRounds = 8
          Designs <- MCDesigns Meaning <- MCMeaning Unbounded <- MCUnbounded
SPECIFICATION Spec
INVARIANTS ParametersTrue DimensionsTrue ListedReads
