SPECIFICATION FairThrottle
CONSTANT RenderThrottle = 16
PROPERTIES MinimumInterval PausesArePainted
